-------------------------- MODULE ClientCheckoutProofs -------------------------
(***************************************************************************)
(* For any number of bookings, clients, relays and workers: a booking that *)
(* is entitled to its time holds it, no time is sold twice, order, booking *)
(* and wallet agree, a closed webhook stays closed, and what a client has  *)
(* been told about a checkout stays so.                                    *)
(***************************************************************************)
EXTENDS ClientCheckout, TLAPS

(***************************************************************************)
(* The calendar's inductive invariant: what a transaction that is half way *)
(* may rely on, beside the property itself.  A victim stays a lapsed hold  *)
(* because its reservation is locked, and belongs to one release only.     *)
(***************************************************************************)
CalendarTypeOK ==
  /\ booking \in [Booking -> BookingState]
  /\ reservation \in [Booking -> [kind : {"hold", "booking"}, active : BOOLEAN, slot : Slot]]
  /\ tx \in [Booking -> [op : {"idle", "create", "move", "claim"}, slot : Slot,
                         victims : SUBSET Booking]]

KindsOfBooking ==
  \A b \in Booking :
    /\ b \notin Paid => booking[b] \in {"none", "confirmed", "cancelled"}
    /\ b \in Paid => booking[b] # "cancelled"

HalfWay ==
  \A b \in Booking :
    /\ tx[b].op = "create" => booking[b] = "none"
    /\ tx[b].op = "move" => booking[b] = "confirmed"
    /\ tx[b].op = "claim" => b \in Paid /\ booking[b] = "hold"
    /\ tx[b].op \in {"idle", "claim"} => tx[b].victims = {}

VictimsAreLocked ==
  \A b \in Booking : \A v \in tx[b].victims :
    /\ reservation[v].active /\ reservation[v].kind = "hold" /\ reservation[v].slot = tx[b].slot
    /\ \A c \in Booking : v \in tx[c].victims => c = b

ActiveOncePerSlot ==
  \A b, c \in Booking : reservation[b].active /\ reservation[c].active
                        /\ reservation[b].slot = reservation[c].slot => b = c

CalendarInv == CalendarTypeOK /\ KindsOfBooking /\ HalfWay /\ VictimsAreLocked
               /\ ActiveOncePerSlot /\ LiveBookingsHoldTheirSlot

(***************************************************************************)
(* The money's: a webhook exists only for a captured payment.              *)
(***************************************************************************)
MoneyTypeOK ==
  /\ order \in [Paid -> {"none", "pending_payment", "paid"}]
  /\ payment \in [Paid -> {"none", "open", "captured", "expired"}]
  /\ inbox \in [Paid -> [status : {"none", "stored", "processing", "completed", "quarantined"},
                         attempts : 0 .. MaxAttempts, leased : BOOLEAN,
                         holder : Worker \cup {NoWorker}]]
  /\ posted \in [Paid -> Nat]

WebhooksAreOfCaptures == \A b \in Paid : inbox[b].status # "none" => payment[b] = "captured"

MoneyInv == MoneyTypeOK /\ WebhooksAreOfCaptures /\ OrderBookingAndWalletAgree

IInv == CalendarInv /\ MoneyInv

-------------------------------------------------------------------------------
\* What the calendar's invariant rests on, for the steps that leave it alone.
LEMMA CalendarUntouched ==
  ASSUME CalendarInv, UNCHANGED <<booking, reservation, tx>>
  PROVE  CalendarInv'
BY DEF CalendarInv, CalendarTypeOK, KindsOfBooking, HalfWay, VictimsAreLocked,
       ActiveOncePerSlot, LiveBookingsHoldTheirSlot

LEMMA IdleType ==
  /\ Idle.op = "idle" /\ Idle.victims = {} /\ Idle.slot \in Slot
  /\ Idle \in [op : {"idle", "create", "move", "claim"}, slot : Slot, victims : SUBSET Booking]
BY SlotsAssumption DEF Idle

LEMMA CalendarStarts == Init => CalendarInv
<1> SUFFICES ASSUME Init PROVE CalendarInv
  OBVIOUS
<1> USE IdleType DEF Init, SlotsInit
<1>1. CalendarTypeOK
  BY DEF CalendarTypeOK, BookingState
<1>2. KindsOfBooking /\ HalfWay /\ VictimsAreLocked
  BY SlotsAssumption DEF KindsOfBooking, HalfWay, VictimsAreLocked
<1>3. ActiveOncePerSlot /\ LiveBookingsHoldTheirSlot
  BY DEF ActiveOncePerSlot, LiveBookingsHoldTheirSlot, Live
<1> QED BY <1>1, <1>2, <1>3 DEF CalendarInv

\* First half of a create or a move: the lapsed holds are locked, by nobody else.
LEMMA WantsKeepsCalendar ==
  ASSUME CalendarInv, NEW b \in Booking, NEW s \in Slot, NEW op \in {"create", "move"},
         op = "create" => booking[b] = "none",
         op = "move" => booking[b] = "confirmed",
         Wants(b, s, op)
  PROVE  CalendarInv'
<1> USE DEF CalendarInv, Wants
<1>0. Lapsed(s) \subseteq Booking
  BY DEF Lapsed
<1>1. CalendarTypeOK'
  BY <1>0 DEF CalendarTypeOK
<1>2. /\ tx'[b].op = op /\ tx'[b].slot = s /\ tx'[b].victims = Lapsed(s)
      /\ \A c \in Booking : c # b => tx'[c] = tx[c]
  BY DEF CalendarTypeOK
<1>3. KindsOfBooking' /\ HalfWay'
  BY <1>2 DEF KindsOfBooking, HalfWay
<1>4. VictimsAreLocked'
  <2> SUFFICES ASSUME NEW c \in Booking, NEW v \in tx'[c].victims
               PROVE  /\ reservation[v].active /\ reservation[v].kind = "hold"
                      /\ reservation[v].slot = tx'[c].slot
                      /\ \A d \in Booking : v \in tx'[d].victims => d = c
    BY DEF VictimsAreLocked
  <2>1. \A u \in Lapsed(s), d \in Booking : u \notin tx[d].victims
    BY DEF ReservationLocked
  <2>2. CASE c = b
    BY <1>2, <2>1, <2>2 DEF Lapsed
  <2>3. CASE c # b
    BY <1>2, <2>1, <2>3 DEF VictimsAreLocked
  <2> QED BY <2>2, <2>3
<1>5. ActiveOncePerSlot' /\ LiveBookingsHoldTheirSlot'
  BY DEF ActiveOncePerSlot, LiveBookingsHoldTheirSlot
<1> QED BY <1>1, <1>3, <1>4, <1>5

\* Second half: the victims give way, and nobody else is in the time.
LEMMA TakeSlotKeepsCalendar ==
  ASSUME CalendarInv, NEW b \in Booking, TakeSlot(b)
  PROVE  CalendarInv'
<1> USE DEF CalendarInv, TakeSlot
<1>0. /\ tx'[b] = Idle
      /\ \A c \in Booking : c # b => tx'[c] = tx[c]
      /\ tx' \in [Booking -> [op : {"idle", "create", "move", "claim"}, slot : Slot,
                              victims : SUBSET Booking]]
      /\ tx[b].slot \in Slot /\ tx[b].victims \subseteq Booking
  BY IdleType DEF CalendarTypeOK
<1>1. CASE Taken(b)
  <2>1. UNCHANGED <<booking, reservation>>
    BY <1>1
  <2> QED BY <1>0, <2>1, IdleType
          DEF CalendarTypeOK, KindsOfBooking, HalfWay, VictimsAreLocked, ActiveOncePerSlot,
              LiveBookingsHoldTheirSlot
<1>2. CASE ~Taken(b)
  <2>0. b \notin tx[b].victims
    BY DEF HalfWay, VictimsAreLocked, LiveBookingsHoldTheirSlot, Live
  <2>1. \A v \in tx[b].victims : /\ v \in Paid /\ booking[v] = "hold" /\ tx[v].op = "idle"
                                 /\ reservation[v].active /\ v # b
    <3> SUFFICES ASSUME NEW v \in tx[b].victims
                 PROVE  /\ v \in Paid /\ booking[v] = "hold" /\ tx[v].op = "idle"
                        /\ reservation[v].active /\ v # b
      OBVIOUS
    <3>1. v \in Booking /\ reservation[v].active /\ reservation[v].kind = "hold" /\ v # b
      BY <1>0, <2>0 DEF VictimsAreLocked
    <3>2. booking[v] = "hold"
      BY <3>1 DEF LiveBookingsHoldTheirSlot
    <3>3. v \in Paid
      BY <3>1, <3>2 DEF KindsOfBooking
    <3>4. tx[v].op \in {"idle", "create", "move", "claim"} /\ tx[v].op # "claim"
      BY <3>1 DEF CalendarTypeOK, BookingLocked
    <3>5. tx[v].op = "idle"
      BY <3>1, <3>2, <3>4 DEF HalfWay
    <3> QED BY <3>1, <3>2, <3>3, <3>5
  <2>2. /\ booking' \in [Booking -> BookingState]
        /\ \A c \in Booking : booking'[c] =
             IF c = b /\ tx[b].op = "create" THEN IF b \in Paid THEN "hold" ELSE "confirmed"
             ELSE IF c \in tx[b].victims THEN "expired" ELSE booking[c]
    BY <1>2, <2>1 DEF CalendarTypeOK, BookingState
  <2>3. /\ reservation' \in [Booking -> [kind : {"hold", "booking"}, active : BOOLEAN, slot : Slot]]
        /\ reservation'[b].active /\ reservation'[b].slot = tx[b].slot
        /\ reservation'[b].kind = IF tx[b].op = "create" /\ b \in Paid THEN "hold" ELSE "booking"
        /\ \A c \in Booking \ {b} :
             /\ c \in tx[b].victims => ~reservation'[c].active
             /\ c \notin tx[b].victims => reservation'[c] = reservation[c]
    <3> DEFINE kind == IF tx[b].op = "create" /\ b \in Paid THEN "hold" ELSE "booking"
    <3>1. reservation' = [c \in Booking |->
             IF c = b THEN [kind |-> kind, active |-> TRUE, slot |-> tx[b].slot]
             ELSE IF c \in tx[b].victims THEN [reservation[c] EXCEPT !.active = FALSE]
             ELSE reservation[c]]
      BY <1>2
    <3>2. kind \in {"hold", "booking"}
      OBVIOUS
    <3> HIDE DEF kind
    <3>3. reservation'[b] = [kind |-> kind, active |-> TRUE, slot |-> tx[b].slot]
      BY <3>1
    <3>4. \A c \in Booking \ {b} : c \notin tx[b].victims => reservation'[c] = reservation[c]
      BY <3>1
    <3>5. \A c \in Booking \ {b} : c \in tx[b].victims =>
             reservation'[c] = [reservation[c] EXCEPT !.active = FALSE]
      BY <3>1
    <3>6. \A c \in Booking \ {b} : c \in tx[b].victims => ~reservation'[c].active
      BY <3>5 DEF CalendarTypeOK
    <3>7. \A c \in Booking :
             reservation'[c] \in [kind : {"hold", "booking"}, active : BOOLEAN, slot : Slot]
      <4> DEFINE Rows == [kind : {"hold", "booking"}, active : BOOLEAN, slot : Slot]
      <4>1. reservation'[b] \in Rows
        BY <1>0, <3>2, <3>3
      <4>2. \A c \in Booking : reservation[c] \in Rows
        BY DEF CalendarTypeOK
      <4>3. \A r \in Rows : [r EXCEPT !.active = FALSE] \in Rows
        OBVIOUS
      <4> HIDE DEF Rows
      <4>4. \A c \in Booking \ {b} : reservation'[c] \in Rows
        BY <3>4, <3>5, <4>2, <4>3
      <4> QED BY <4>1, <4>4 DEF Rows
    <3>8. reservation' \in [Booking -> [kind : {"hold", "booking"}, active : BOOLEAN, slot : Slot]]
      BY <3>1, <3>7
    <3> QED BY <3>3, <3>4, <3>6, <3>8 DEF kind
  <2>4. CalendarTypeOK'
    BY <1>0, <2>2, <2>3 DEF CalendarTypeOK
  <2>5. KindsOfBooking'
    BY <2>1, <2>2 DEF KindsOfBooking
  <2>6. HalfWay'
    BY <1>0, <2>1, <2>2, IdleType DEF HalfWay
  <2>7. VictimsAreLocked'
    <3> SUFFICES ASSUME NEW c \in Booking, NEW v \in tx'[c].victims
                 PROVE  /\ reservation'[v].active /\ reservation'[v].kind = "hold"
                        /\ reservation'[v].slot = tx'[c].slot
                        /\ \A d \in Booking : v \in tx'[d].victims => d = c
      BY DEF VictimsAreLocked
    <3>1. c # b /\ tx'[c] = tx[c] /\ v \in tx[c].victims /\ v \in Booking
      BY <1>0, IdleType DEF CalendarTypeOK
    <3>2. v \notin tx[b].victims
      BY <3>1 DEF VictimsAreLocked
    <3>3. v # b
      BY <3>1 DEF HalfWay, VictimsAreLocked, LiveBookingsHoldTheirSlot, Live
    <3>4. reservation'[v] = reservation[v]
      BY <2>3, <3>1, <3>2, <3>3
    <3> QED BY <1>0, <3>1, <3>4, IdleType DEF VictimsAreLocked
  <2>8. ActiveOncePerSlot'
    <3> SUFFICES ASSUME NEW c \in Booking, NEW d \in Booking,
                        reservation'[c].active, reservation'[d].active,
                        reservation'[c].slot = reservation'[d].slot
                 PROVE  c = d
      BY DEF ActiveOncePerSlot
    <3>1. \A e \in Booking \ {b} : reservation'[e].active =>
             reservation'[e] = reservation[e] /\ reservation[e].active /\ reservation[e].slot # tx[b].slot
      BY <1>2, <2>3 DEF Taken
    <3> QED BY <2>3, <3>1 DEF ActiveOncePerSlot
  <2>9. LiveBookingsHoldTheirSlot'
    <3> SUFFICES ASSUME NEW c \in Booking
                 PROVE  /\ reservation'[c].active <=> booking'[c] \in Live
                        /\ booking'[c] \in Live => (reservation'[c].kind = "hold" <=> booking'[c] = "hold")
      BY DEF LiveBookingsHoldTheirSlot
    <3>1. CASE c = b
      <4>1. tx[b].op = "move" => booking[b] = "confirmed"
        BY DEF HalfWay
      <4> QED BY <2>0, <2>2, <2>3, <3>1, <4>1 DEF Live
    <3>2. CASE c \in tx[b].victims
      BY <2>1, <2>2, <2>3, <3>2 DEF Live
    <3>3. CASE c # b /\ c \notin tx[b].victims
      BY <2>2, <2>3, <3>3 DEF LiveBookingsHoldTheirSlot
    <3> QED BY <3>1, <3>2, <3>3
  <2> QED BY <2>4, <2>5, <2>6, <2>7, <2>8, <2>9
<1> QED BY <1>1, <1>2

\* The order's claim, the deadlock's victim, a confirmation, a cancellation, a
\* completion: each touches one booking.
LEMMA ClaimKeepsCalendar ==
  ASSUME CalendarInv, NEW b \in Paid, ClaimBooking(b)
  PROVE  CalendarInv'
<1> USE SlotsAssumption, IdleType DEF CalendarInv, ClaimBooking
<1>1. /\ b \in Booking /\ tx'[b].op = "claim" /\ tx'[b].victims = {}
      /\ \A c \in Booking : c # b => tx'[c] = tx[c]
      /\ CalendarTypeOK'
  BY DEF CalendarTypeOK
<1>2. KindsOfBooking' /\ HalfWay' /\ VictimsAreLocked'
  BY <1>1 DEF KindsOfBooking, HalfWay, VictimsAreLocked
<1> QED BY <1>1, <1>2 DEF ActiveOncePerSlot, LiveBookingsHoldTheirSlot

LEMMA OrderKeepsCalendar ==
  ASSUME CalendarInv, NEW b \in Paid, ClaimReservation(b)
  PROVE  CalendarInv'
<1> USE SlotsAssumption, IdleType DEF CalendarInv, ClaimReservation, MayClaimReservation
<1>1. /\ b \in Booking /\ booking[b] = "hold" /\ reservation[b].active
      /\ tx'[b] = Idle /\ tx[b].victims = {}
      /\ \A c \in Booking : c # b => tx'[c] = tx[c]
  BY DEF CalendarTypeOK, HalfWay, LiveBookingsHoldTheirSlot, Live
<1>2. CalendarTypeOK' /\ KindsOfBooking'
  BY <1>1 DEF CalendarTypeOK, KindsOfBooking, BookingState
<1>3. HalfWay'
  BY <1>1 DEF CalendarTypeOK, HalfWay
<1>4. VictimsAreLocked'
  BY <1>1 DEF CalendarTypeOK, VictimsAreLocked, ReservationLocked
<1>5. ActiveOncePerSlot'
  BY <1>1 DEF CalendarTypeOK, ActiveOncePerSlot
<1>6. LiveBookingsHoldTheirSlot'
  BY <1>1 DEF CalendarTypeOK, LiveBookingsHoldTheirSlot, Live
<1> QED BY <1>2, <1>3, <1>4, <1>5, <1>6

LEMMA BreakDeadlockKeepsCalendar ==
  ASSUME CalendarInv, NEW b \in Paid, NEW c \in Booking, BreakDeadlock(b, c)
  PROVE  CalendarInv'
<1> USE SlotsAssumption, IdleType DEF CalendarInv, BreakDeadlock
<1>1. PICK aborted \in {b, c} : tx' = [tx EXCEPT ![aborted] = Idle]
  OBVIOUS
<1>2. /\ aborted \in Booking /\ tx'[aborted] = Idle
      /\ \A d \in Booking : d # aborted => tx'[d] = tx[d]
      /\ CalendarTypeOK'
  BY <1>1 DEF CalendarTypeOK
<1>3. KindsOfBooking' /\ HalfWay' /\ VictimsAreLocked'
  BY <1>2 DEF KindsOfBooking, HalfWay, VictimsAreLocked
<1> QED BY <1>2, <1>3 DEF ActiveOncePerSlot, LiveBookingsHoldTheirSlot

LEMMA ConfirmKeepsCalendar ==
  ASSUME CalendarInv, NEW b \in Paid, booking[b] = "pending_payment", ConfirmPaid(b),
         UNCHANGED <<reservation, hold, tx>>
  PROVE  CalendarInv'
<1> USE SlotsAssumption DEF CalendarInv, ConfirmPaid
<1>1. /\ b \in Booking /\ booking'[b] = "confirmed"
      /\ \A c \in Booking : c # b => booking'[c] = booking[c]
      /\ CalendarTypeOK'
  BY DEF CalendarTypeOK, BookingState
<1>2. KindsOfBooking' /\ HalfWay'
  BY <1>1 DEF KindsOfBooking, HalfWay
<1>3. VictimsAreLocked' /\ ActiveOncePerSlot'
  BY DEF VictimsAreLocked, ActiveOncePerSlot
<1>4. LiveBookingsHoldTheirSlot'
  BY <1>1 DEF LiveBookingsHoldTheirSlot, Live
<1> QED BY <1>1, <1>2, <1>3, <1>4

LEMMA CancelKeepsCalendar ==
  ASSUME CalendarInv, NEW b \in Booking, CancelBooking(b)
  PROVE  CalendarInv'
<1> USE IdleType DEF CalendarInv, CancelBooking
<1>1. /\ booking'[b] = "cancelled" /\ ~reservation'[b].active
      /\ \A c \in Booking : c # b => booking'[c] = booking[c] /\ reservation'[c] = reservation[c]
      /\ CalendarTypeOK'
  BY DEF CalendarTypeOK, BookingState
<1>2. reservation[b].kind = "booking"
  BY DEF CalendarTypeOK, LiveBookingsHoldTheirSlot, Live
<1>3. KindsOfBooking' /\ HalfWay'
  BY <1>1 DEF KindsOfBooking, HalfWay
<1>4. VictimsAreLocked'
  BY <1>1, <1>2 DEF CalendarTypeOK, VictimsAreLocked
<1>5. ActiveOncePerSlot'
  BY <1>1 DEF ActiveOncePerSlot
<1>6. LiveBookingsHoldTheirSlot'
  BY <1>1 DEF LiveBookingsHoldTheirSlot, Live
<1> QED BY <1>1, <1>3, <1>4, <1>5, <1>6

LEMMA CompleteKeepsCalendar ==
  ASSUME CalendarInv, NEW b \in Booking, CompleteBooking(b)
  PROVE  CalendarInv'
<1> USE IdleType DEF CalendarInv, CompleteBooking
<1>1. /\ booking'[b] = "completed"
      /\ \A c \in Booking : c # b => booking'[c] = booking[c]
      /\ CalendarTypeOK'
  BY DEF CalendarTypeOK, BookingState
<1>2. KindsOfBooking' /\ HalfWay'
  BY <1>1 DEF KindsOfBooking, HalfWay
<1>3. VictimsAreLocked' /\ ActiveOncePerSlot'
  BY DEF VictimsAreLocked, ActiveOncePerSlot
<1>4. LiveBookingsHoldTheirSlot'
  BY <1>1 DEF LiveBookingsHoldTheirSlot, Live
<1> QED BY <1>1, <1>2, <1>3, <1>4

LEMMA CalendarStepKeepsCalendar == CalendarInv /\ Calendar => CalendarInv'
<1> SUFFICES ASSUME CalendarInv, Calendar PROVE CalendarInv'
  OBVIOUS
<1> USE SlotsAssumption
<1>1. CASE \E b \in Booking, s \in Slot : AskForSlot(b, s) \/ AskToMove(b, s)
  BY <1>1, WantsKeepsCalendar DEF AskForSlot, AskToMove
<1>2. CASE \E b \in Booking : TakeSlot(b)
  BY <1>2, TakeSlotKeepsCalendar
<1>3. CASE \E b \in Booking : CancelBooking(b)
  BY <1>3, CancelKeepsCalendar
<1>4. CASE \E b \in Booking : CompleteBooking(b)
  BY <1>4, CompleteKeepsCalendar
<1>5. CASE \E b \in Paid : ClaimBooking(b)
  BY <1>5, ClaimKeepsCalendar
<1>6. CASE \E b \in Paid : HoldLapses(b)
  BY <1>6, CalendarUntouched DEF HoldLapses
<1>7. CASE \E b \in Paid, c \in Booking : BreakDeadlock(b, c)
  BY <1>7, BreakDeadlockKeepsCalendar
<1>8. CASE \E b \in Paid : CreateOrder(b)
  BY <1>8, OrderKeepsCalendar DEF CreateOrder
<1> QED BY <1>1, <1>2, <1>3, <1>4, <1>5, <1>6, <1>7, <1>8 DEF Calendar

\* A capture confirms a booking that waited for it, whichever path brings it.
LEMMA ApplyKeepsCalendar ==
  ASSUME CalendarInv, NEW b \in Paid, Applies(b), ApplyCapture(b)
  PROVE  CalendarInv'
BY ConfirmKeepsCalendar DEF Applies, ApplyCapture

LEMMA StepKeepsCalendar == CalendarInv /\ [Next]_vars => CalendarInv'
<1> SUFFICES ASSUME CalendarInv, [Next]_vars PROVE CalendarInv'
  OBVIOUS
<1>1. CASE UNCHANGED vars
  BY <1>1, CalendarUntouched DEF vars, slotVars
<1>2. CASE Calendar
  BY <1>2, CalendarStepKeepsCalendar
<1>3. CASE \E b \in Paid : PrepareCheckout(b) \/ AtArcPay(b)
  BY <1>3, CalendarUntouched DEF PrepareCheckout, AtArcPay, slotVars
<1>4. CASE Dispatch
  BY <1>4, CalendarUntouched DEF Dispatch, AskArcPay, RecordAnswer, NotExecutable, slotVars
<1>5. CASE Webhooks
  <2>1. CASE \E w \in Worker, b \in Paid : CommitWebhook(w, b)
    <3> PICK w \in Worker, b \in Paid : CommitWebhook(w, b)
      BY <2>1
    <3>1. CASE Applies(b) /\ ApplyCapture(b)
      BY <3>1, ApplyKeepsCalendar
    <3>2. CASE UNCHANGED slotVars
      BY <3>2, CalendarUntouched DEF slotVars
    <3> QED BY <3>1, <3>2 DEF CommitWebhook
  <2>2. CASE ~\E w \in Worker, b \in Paid : CommitWebhook(w, b)
    <3>1. UNCHANGED slotVars
      BY <1>5, <2>2 DEF Webhooks, StoreWebhook, LeaseExpires, ClaimWebhook, RecordFailure,
                        ReadFails, WorkerDies
    <3> QED BY <3>1, CalendarUntouched DEF slotVars
  <2> QED BY <2>1, <2>2
<1>6. CASE StartTick
  BY <1>6, CalendarUntouched DEF StartTick, slotVars
<1>7. CASE Reconcile
  <2>1. PICK b \in Paid : (Applies(b) /\ ApplyCapture(b)) \/ UNCHANGED slotVars
    BY <1>7 DEF Reconcile
  <2> QED BY <2>1, ApplyKeepsCalendar, CalendarUntouched DEF slotVars
<1> QED BY <1>1, <1>2, <1>3, <1>4, <1>5, <1>6, <1>7 DEF Next

\* The calendar's invariant holds in every state of every behaviour: release,
\* order, move, cancellation and capture in any order, half way through any of
\* them.
THEOREM CalendarIsConsistent == Spec => []CalendarInv
<1>1. Init => CalendarInv
  BY CalendarStarts
<1>2. CalendarInv /\ [Next]_vars => CalendarInv'
  BY StepKeepsCalendar
<1> QED BY <1>1, <1>2, PTL DEF Spec

\* However a release and an order interleave, a booking that is entitled to its
\* time has its reservation, of the kind that protects it
\* (claimPaidBookingHoldForOrder, releaseExpiredPaidBookingHolds).
THEOREM LiveBookingsKeepTheirSlot == Spec => []LiveBookingsHoldTheirSlot
<1>1. CalendarInv => LiveBookingsHoldTheirSlot
  BY DEF CalendarInv
<1> QED BY <1>1, CalendarIsConsistent, PTL

\* No time is promised to two bookings, however many want it at once.
THEOREM SlotsAreSoldOnce == Spec => []NoSlotIsSoldTwice
<1>1. CalendarInv => NoSlotIsSoldTwice
  BY DEF CalendarInv, ActiveOncePerSlot, LiveBookingsHoldTheirSlot, NoSlotIsSoldTwice
<1> QED BY <1>1, CalendarIsConsistent, PTL

-------------------------------------------------------------------------------
\* The money's side: every step that touches one of order, booking, payment,
\* inbox or the postings keeps them in step with each other.
LEMMA MoneyUntouched ==
  ASSUME MoneyInv, UNCHANGED <<booking, order, payment, inbox, posted>>
  PROVE  MoneyInv'
BY DEF MoneyInv, MoneyTypeOK, WebhooksAreOfCaptures, OrderBookingAndWalletAgree

LEMMA MoneyStarts == Init => MoneyInv
BY SlotsAssumption, CheckoutAssumption
   DEF Init, SlotsInit, MoneyInv, MoneyTypeOK, WebhooksAreOfCaptures, OrderBookingAndWalletAgree

\* A calendar step that leaves the order alone moves a paid booking only between
\* states that have no unpaid order, or only from confirmed to completed.
LEMMA BookingsMoveAlongside ==
  ASSUME MoneyInv, UNCHANGED <<order, payment, inbox, posted>>,
         \A b \in Paid :
           \/ booking'[b] = booking[b]
           \/ booking[b] \in {"none", "hold"} /\ booking'[b] \in {"hold", "expired"}
           \/ booking[b] = "confirmed" /\ booking'[b] = "completed"
  PROVE  MoneyInv'
<1>1. MoneyTypeOK' /\ WebhooksAreOfCaptures'
  BY DEF MoneyInv, MoneyTypeOK, WebhooksAreOfCaptures
<1>2. OrderBookingAndWalletAgree'
  BY DEF MoneyInv, OrderBookingAndWalletAgree
<1> QED BY <1>1, <1>2 DEF MoneyInv

LEMMA TakeSlotKeepsMoney ==
  ASSUME CalendarInv, MoneyInv, NEW b \in Booking, TakeSlot(b),
         UNCHANGED <<order, payment, inbox, posted>>
  PROVE  MoneyInv'
<1>1. ASSUME NEW c \in Paid
      PROVE  \/ booking'[c] = booking[c]
             \/ booking[c] \in {"none", "hold"} /\ booking'[c] \in {"hold", "expired"}
  <2>1. c \in Booking
    BY SlotsAssumption
  <2>2. tx[b].op = "create" => booking[b] = "none"
    BY DEF CalendarInv, HalfWay
  <2> QED BY <2>1, <2>2 DEF TakeSlot
<1> QED BY <1>1, BookingsMoveAlongside

LEMMA OrderKeepsMoney ==
  ASSUME CalendarInv, MoneyInv, NEW b \in Paid, CreateOrder(b), UNCHANGED inbox
  PROVE  MoneyInv'
<1> USE SlotsAssumption DEF MoneyInv
<1>1. /\ b \in Booking /\ booking[b] = "hold"
      /\ booking'[b] = "pending_payment" /\ order'[b] = "pending_payment" /\ order[b] = "none"
      /\ \A c \in Paid : c # b => booking'[c] = booking[c] /\ order'[c] = order[c]
      /\ UNCHANGED <<payment, posted>>
  BY DEF CreateOrder, ClaimReservation, MayClaimReservation, CalendarInv, CalendarTypeOK, HalfWay,
         MoneyTypeOK
<1>2. MoneyTypeOK' /\ WebhooksAreOfCaptures'
  BY <1>1 DEF CreateOrder, MoneyTypeOK, WebhooksAreOfCaptures
<1>3. OrderBookingAndWalletAgree'
  BY <1>1 DEF OrderBookingAndWalletAgree
<1> QED BY <1>2, <1>3

LEMMA CalendarKeepsMoney ==
  ASSUME CalendarInv, MoneyInv, Calendar
  PROVE  MoneyInv'
<1> USE SlotsAssumption DEF Calendar, captureVars
<1>1. CASE \E b \in Paid : CreateOrder(b)
  BY <1>1, OrderKeepsMoney
<1>2. CASE UNCHANGED moneyVars
  <2>0. UNCHANGED <<order, payment, inbox, posted>>
    BY <1>2 DEF moneyVars
  <2>1. CASE \E b \in Booking : TakeSlot(b)
    BY <2>0, <2>1, TakeSlotKeepsMoney
  <2>2. CASE \E b \in Booking : CancelBooking(b)
    <3> PICK b \in Booking : CancelBooking(b)
      BY <2>2
    <3>1. \A c \in Paid : booking'[c] = booking[c]
      BY DEF CancelBooking, CalendarInv, CalendarTypeOK
    <3> QED BY <2>0, <3>1, BookingsMoveAlongside
  <2>3. CASE \E b \in Booking : CompleteBooking(b)
    <3> PICK b \in Booking : CompleteBooking(b)
      BY <2>3
    <3>1. \A c \in Paid : \/ booking'[c] = booking[c]
                          \/ booking[c] = "confirmed" /\ booking'[c] = "completed"
      BY DEF CompleteBooking, CalendarInv, CalendarTypeOK
    <3> QED BY <2>0, <3>1, BookingsMoveAlongside
  <2>4. CASE UNCHANGED booking
    BY <2>0, <2>4, MoneyUntouched
  <2>5. \/ UNCHANGED booking
        \/ \E b \in Booking : TakeSlot(b) \/ CancelBooking(b) \/ CompleteBooking(b)
        \/ \E b \in Paid : CreateOrder(b)
    BY DEF AskForSlot, AskToMove, Wants, ClaimBooking, HoldLapses, BreakDeadlock
  <2> QED BY <1>1, <2>1, <2>2, <2>3, <2>4, <2>5
<1> QED BY <1>1, <1>2

\* A payment goes on only while its order has not been paid.
LEMMA PaymentsKeepMoney ==
  ASSUME MoneyInv, UNCHANGED <<booking, order, inbox, posted>>,
         payment' \in [Paid -> {"none", "open", "captured", "expired"}],
         \A b \in Paid : payment'[b] = payment[b] \/ payment[b] \in {"none", "open"}
  PROVE  MoneyInv'
BY DEF MoneyInv, MoneyTypeOK, WebhooksAreOfCaptures, OrderBookingAndWalletAgree

\* The capture's transaction, from either path, on a payment that was captured.
LEMMA ApplyKeepsMoney ==
  ASSUME CalendarInv, MoneyInv, NEW b \in Paid, payment[b] = "captured",
         Applies(b), ApplyCapture(b),
         MoneyTypeOK', \A c \in Paid : inbox'[c].status # "none" => payment[c] = "captured"
  PROVE  MoneyInv'
<1> USE SlotsAssumption DEF MoneyInv, Applies, ApplyCapture, ConfirmPaid
<1>1. /\ booking'[b] = "confirmed" /\ order'[b] = "paid" /\ posted'[b] = 1 /\ UNCHANGED payment
      /\ \A c \in Paid : c # b => /\ booking'[c] = booking[c] /\ order'[c] = order[c]
                                  /\ posted'[c] = posted[c]
  BY DEF CalendarInv, CalendarTypeOK, MoneyTypeOK
<1>2. WebhooksAreOfCaptures'
  BY <1>1 DEF WebhooksAreOfCaptures
<1>3. OrderBookingAndWalletAgree'
  BY <1>1 DEF OrderBookingAndWalletAgree
<1> QED BY <1>2, <1>3

LEMMA ApplyType ==
  ASSUME MoneyTypeOK, NEW b \in Paid, ApplyCapture(b)
  PROVE  /\ order' \in [Paid -> {"none", "pending_payment", "paid"}]
         /\ posted' \in [Paid -> Nat] /\ UNCHANGED payment
BY DEF ApplyCapture, MoneyTypeOK

\* The inbox writes only rows that exist, or a row for a captured payment.
LEMMA InboxKeepsMoney ==
  ASSUME MoneyInv, UNCHANGED <<booking, order, payment, posted>>, MoneyTypeOK',
         \A b \in Paid : inbox'[b].status # "none" => payment[b] = "captured"
  PROVE  MoneyInv'
BY DEF MoneyInv, WebhooksAreOfCaptures, OrderBookingAndWalletAgree

LEMMA WebhooksKeepMoney ==
  ASSUME CalendarInv, MoneyInv, Webhooks
  PROVE  MoneyInv'
<1> USE CheckoutAssumption DEF moneyVars, slotVars
<1>1. ASSUME NEW b \in Paid, StoreWebhook(b) PROVE MoneyInv'
  <2>1. MoneyTypeOK'
    BY <1>1 DEF StoreWebhook, MoneyInv, MoneyTypeOK
  <2>2. \A c \in Paid : inbox'[c].status # "none" => payment[c] = "captured"
    BY <1>1 DEF StoreWebhook, MoneyInv, MoneyTypeOK, WebhooksAreOfCaptures
  <2> QED BY <1>1, <2>1, <2>2, InboxKeepsMoney DEF StoreWebhook
<1>2. ASSUME NEW b \in Paid, LeaseExpires(b) PROVE MoneyInv'
  <2>1. MoneyTypeOK'
    BY <1>2 DEF LeaseExpires, MoneyInv, MoneyTypeOK
  <2>2. \A c \in Paid : inbox'[c].status # "none" => payment[c] = "captured"
    BY <1>2 DEF LeaseExpires, MoneyInv, MoneyTypeOK, WebhooksAreOfCaptures
  <2> QED BY <1>2, <2>1, <2>2, InboxKeepsMoney DEF LeaseExpires
<1>3. ASSUME NEW w \in Worker, NEW b \in Paid, ClaimWebhook(w, b) PROVE MoneyInv'
  <2>0. inbox[b].attempts \in 0 .. MaxAttempts
    BY DEF MoneyInv, MoneyTypeOK
  <2>1. MoneyTypeOK'
    BY <1>3, <2>0 DEF ClaimWebhook, MoneyInv, MoneyTypeOK
  <2>2. \A c \in Paid : inbox'[c].status # "none" => payment[c] = "captured"
    BY <1>3 DEF ClaimWebhook, MoneyInv, MoneyTypeOK, WebhooksAreOfCaptures
  <2> QED BY <1>3, <2>1, <2>2, InboxKeepsMoney DEF ClaimWebhook
<1>4. ASSUME NEW w \in Worker, NEW b \in Paid, RecordFailure(w, b) PROVE MoneyInv'
  <2>1. MoneyTypeOK'
    BY <1>4 DEF RecordFailure, MoneyInv, MoneyTypeOK
  <2>2. \A c \in Paid : inbox'[c].status # "none" => payment[c] = "captured"
    BY <1>4 DEF RecordFailure, MayRecord, Owns, MoneyInv, MoneyTypeOK, WebhooksAreOfCaptures
  <2> QED BY <1>4, <2>1, <2>2, InboxKeepsMoney DEF RecordFailure
<1>5. ASSUME NEW w \in Worker, NEW b \in Paid, CommitWebhook(w, b) PROVE MoneyInv'
  <2>1. CASE Owns(w, b) /\ Applies(b)
    <3>1. /\ ApplyCapture(b)
          /\ inbox' = [inbox EXCEPT ![b] = [@ EXCEPT !.status = "completed", !.leased = FALSE]]
      BY <1>5, <2>1 DEF CommitWebhook
    <3>2. payment[b] = "captured"
      BY <2>1 DEF Owns, MoneyInv, WebhooksAreOfCaptures
    <3>3. inbox' \in [Paid -> [status : {"none", "stored", "processing", "completed", "quarantined"},
                                attempts : 0 .. MaxAttempts, leased : BOOLEAN,
                                holder : Worker \cup {NoWorker}]]
      BY <3>1 DEF MoneyInv, MoneyTypeOK
    <3>4. MoneyTypeOK'
      BY <3>1, <3>3, ApplyType DEF MoneyInv, MoneyTypeOK
    <3>5. \A c \in Paid : c # b => inbox'[c] = inbox[c]
      BY <3>1 DEF MoneyInv, MoneyTypeOK
    <3>6. \A c \in Paid : inbox'[c].status # "none" => payment[c] = "captured"
      BY <3>5, <3>2 DEF MoneyInv, WebhooksAreOfCaptures
    <3> QED BY <2>1, <3>1, <3>2, <3>4, <3>6, ApplyKeepsMoney
  <2>2. CASE ~(Owns(w, b) /\ Applies(b))
    <3>1. UNCHANGED <<slotVars, moneyVars, inbox>>
      BY <1>5, <2>2 DEF CommitWebhook
    <3> QED BY <3>1, MoneyUntouched
  <2> QED BY <2>1, <2>2
<1>6. ASSUME NEW w \in Worker, ReadFails(w) \/ WorkerDies(w) PROVE MoneyInv'
  BY <1>6, MoneyUntouched DEF ReadFails, WorkerDies
<1> QED BY <1>1, <1>2, <1>3, <1>4, <1>5, <1>6 DEF Webhooks

LEMMA ReconcileKeepsMoney ==
  ASSUME CalendarInv, MoneyInv, Reconcile
  PROVE  MoneyInv'
<1>1. CASE UNCHANGED <<slotVars, moneyVars>>
  BY <1>1, MoneyUntouched DEF Reconcile, slotVars, moneyVars
<1>2. CASE \E b \in Paid : payment[b] = "captured" /\ Applies(b) /\ ApplyCapture(b)
  <2> PICK b \in Paid : payment[b] = "captured" /\ Applies(b) /\ ApplyCapture(b)
    BY <1>2
  <2>1. UNCHANGED inbox
    BY DEF Reconcile
  <2>2. MoneyTypeOK'
    BY <2>1, ApplyType DEF MoneyInv, MoneyTypeOK
  <2>3. \A c \in Paid : inbox'[c].status # "none" => payment[c] = "captured"
    BY <2>1 DEF MoneyInv, WebhooksAreOfCaptures
  <2> QED BY <2>2, <2>3, ApplyKeepsMoney
<1> QED BY <1>1, <1>2 DEF Reconcile

LEMMA DispatchKeepsMoney ==
  ASSUME MoneyInv, Dispatch
  PROVE  MoneyInv'
<1> USE DEF slotVars, moneyVars, captureVars
<1>1. ASSUME NEW w \in Relay, NEW c \in held[w], AskArcPay(w, c) PROVE MoneyInv'
  <2> DEFINE p == outbox[c.event].about
  <2>1. PICK asked \in BOOLEAN :
          payment' = [payment EXCEPT ![p] = IF asked /\ payment[p] = "none" THEN "open" ELSE payment[p]]
    BY <1>1 DEF AskArcPay
  <2> HIDE DEF p
  <2>2. /\ payment' \in [Paid -> {"none", "open", "captured", "expired"}]
        /\ \A b \in Paid : payment'[b] = payment[b] \/ payment[b] \in {"none", "open"}
    BY <2>1 DEF MoneyInv, MoneyTypeOK
  <2> QED BY <1>1, <2>2, PaymentsKeepMoney DEF AskArcPay
<1>2. CASE ~\E w \in Relay : \E c \in held[w] : AskArcPay(w, c)
  BY <1>2, MoneyUntouched DEF Dispatch, RecordAnswer, NotExecutable
<1> QED BY <1>1, <1>2

LEMMA StepKeepsMoney == CalendarInv /\ MoneyInv /\ [Next]_vars => MoneyInv'
<1> SUFFICES ASSUME CalendarInv, MoneyInv, [Next]_vars PROVE MoneyInv'
  OBVIOUS
<1> USE DEF slotVars, moneyVars, captureVars
<1>1. CASE UNCHANGED vars
  BY <1>1, MoneyUntouched DEF vars
<1>2. CASE Calendar
  BY <1>2, CalendarKeepsMoney
<1>3. CASE \E b \in Paid : PrepareCheckout(b)
  BY <1>3, MoneyUntouched DEF PrepareCheckout
<1>4. ASSUME NEW b \in Paid, AtArcPay(b) PROVE MoneyInv'
  <2>1. /\ payment' \in [Paid -> {"none", "open", "captured", "expired"}]
        /\ \A c \in Paid : payment'[c] = payment[c] \/ payment[c] \in {"none", "open"}
    BY <1>4 DEF AtArcPay, MoneyInv, MoneyTypeOK
  <2> QED BY <1>4, <2>1, PaymentsKeepMoney DEF AtArcPay
<1>5. CASE Dispatch
  BY <1>5, DispatchKeepsMoney
<1>6. CASE Webhooks
  BY <1>6, WebhooksKeepMoney
<1>7. CASE StartTick
  BY <1>7, MoneyUntouched DEF StartTick
<1>8. CASE Reconcile
  BY <1>8, ReconcileKeepsMoney
<1> QED BY <1>1, <1>2, <1>3, <1>4, <1>5, <1>6, <1>7, <1>8 DEF Next

\* Webhook and reconciliation, each any number of times and interleaved, book a
\* captured payment once, and order, booking and wallet move together
\* (applyEconomicEffects).
THEOREM OrderBookingAndWalletStayInStep == Spec => []OrderBookingAndWalletAgree
<1>1. Init => IInv
  BY CalendarStarts, MoneyStarts DEF IInv
<1>2. IInv /\ [Next]_vars => IInv'
  BY StepKeepsCalendar, StepKeepsMoney DEF IInv
<1>3. IInv => OrderBookingAndWalletAgree
  BY DEF IInv, MoneyInv
<1> QED BY <1>1, <1>2, <1>3, PTL DEF Spec

-------------------------------------------------------------------------------
\* What a closed webhook relies on: a completed one has its capture booked.
CompletedIsPosted == \A b \in Paid : inbox[b].status = "completed" => posted[b] = 1

\* A webhook that is closed is left alone by every step, one that becomes
\* completed is posted by the same step, and a posting is made on zero only.
LEMMA WebhooksCloseForGood ==
  ASSUME MoneyTypeOK, CompletedIsPosted, Webhooks
  PROVE  \A b \in Paid :
           /\ inbox[b].status \in {"completed", "quarantined"} => inbox'[b] = inbox[b]
           /\ inbox'[b].status = "completed" => posted'[b] = 1
<1> USE DEF MoneyTypeOK, CompletedIsPosted, moneyVars
<1>1. ASSUME NEW c \in Paid, StoreWebhook(c) \/ LeaseExpires(c)
      PROVE  \A b \in Paid :
               /\ inbox[b].status \in {"completed", "quarantined"} => inbox'[b] = inbox[b]
               /\ inbox'[b].status = "completed" => posted'[b] = 1
  BY <1>1 DEF StoreWebhook, LeaseExpires
<1>2. ASSUME NEW w \in Worker, NEW c \in Paid, ClaimWebhook(w, c) \/ RecordFailure(w, c)
      PROVE  \A b \in Paid :
               /\ inbox[b].status \in {"completed", "quarantined"} => inbox'[b] = inbox[b]
               /\ inbox'[b].status = "completed" => posted'[b] = 1
  <2>1. CASE UNCHANGED inbox
    BY <1>2, <2>1 DEF ClaimWebhook, RecordFailure
  <2>2. CASE ~UNCHANGED inbox
    <3>1. /\ inbox[c].status \in {"stored", "processing"} /\ inbox'[c].status # "completed"
          /\ \A b \in Paid : b # c => inbox'[b] = inbox[b]
          /\ UNCHANGED posted
      <4>1. CASE ClaimWebhook(w, c)
        <5> DEFINE n == IF inbox[c].attempts < MaxAttempts THEN inbox[c].attempts + 1 ELSE MaxAttempts
        <5>1. inbox' = [inbox EXCEPT ![c] = [status |-> "processing", leased |-> TRUE, holder |-> w,
                                             attempts |-> n]]
          BY <4>1 DEF ClaimWebhook
        <5> HIDE DEF n
        <5> QED BY <4>1, <5>1 DEF ClaimWebhook
      <4>2. CASE RecordFailure(w, c)
        <5> DEFINE s == IF inbox[c].attempts >= MaxAttempts THEN "quarantined" ELSE "stored"
        <5>1. /\ inbox' = [inbox EXCEPT ![c] = [@ EXCEPT !.leased = FALSE, !.status = s]]
              /\ inbox[c].status = "processing" /\ UNCHANGED posted
          BY <2>2, <4>2 DEF RecordFailure, MayRecord, Owns
        <5>2. s # "completed"
          OBVIOUS
        <5> HIDE DEF s
        <5> QED BY <5>1, <5>2
      <4> QED BY <1>2, <4>1, <4>2
    <3> QED BY <3>1
  <2> QED BY <2>1, <2>2
<1>3. ASSUME NEW w \in Worker, NEW c \in Paid, CommitWebhook(w, c)
      PROVE  \A b \in Paid :
               /\ inbox[b].status \in {"completed", "quarantined"} => inbox'[b] = inbox[b]
               /\ inbox'[b].status = "completed" => posted'[b] = 1
  <2>1. CASE Owns(w, c) /\ Applies(c)
    <3>1. /\ inbox[c].status = "processing" /\ posted'[c] = 1
          /\ \A b \in Paid : b # c => inbox'[b] = inbox[b] /\ posted'[b] = posted[b]
      BY <1>3, <2>1 DEF CommitWebhook, ApplyCapture, Applies, Owns
    <3> QED BY <3>1
  <2>2. CASE ~(Owns(w, c) /\ Applies(c))
    <3>1. UNCHANGED <<inbox, posted>>
      BY <1>3, <2>2 DEF CommitWebhook
    <3> QED BY <3>1
  <2> QED BY <2>1, <2>2
<1>4. ASSUME NEW w \in Worker, ReadFails(w) \/ WorkerDies(w)
      PROVE  UNCHANGED <<inbox, posted>>
  BY <1>4 DEF ReadFails, WorkerDies
<1> QED BY <1>1, <1>2, <1>3, <1>4 DEF Webhooks

LEMMA StepClosesWebhooks ==
  ASSUME MoneyTypeOK, CompletedIsPosted, [Next]_vars
  PROVE  \A b \in Paid :
           /\ inbox[b].status \in {"completed", "quarantined"} => inbox'[b] = inbox[b]
           /\ inbox'[b].status = "completed" => posted'[b] = 1
<1> USE DEF MoneyTypeOK, CompletedIsPosted, moneyVars, captureVars
<1>1. CASE Webhooks
  BY <1>1, WebhooksCloseForGood
<1>2. CASE Reconcile
  <2>1. /\ UNCHANGED inbox
        /\ UNCHANGED posted \/ \E b \in Paid : posted[b] = 0 /\ posted' = [posted EXCEPT ![b] = @ + 1]
    BY <1>2 DEF Reconcile, Applies, ApplyCapture
  <2>2. \A b \in Paid : posted[b] = 1 => posted'[b] = 1
    BY <2>1
  <2> QED BY <2>1, <2>2
<1>3. UNCHANGED <<inbox, posted>> \/ Webhooks \/ Reconcile
  BY DEF Next, vars, Calendar, CreateOrder, PrepareCheckout, AtArcPay, StartTick, Dispatch,
         AskArcPay, RecordAnswer, NotExecutable
<1> QED BY <1>1, <1>2, <1>3

\* A webhook that is completed or quarantined stays exactly as it is, whatever
\* workers with expired claims, reconciliations and redeliveries still do
\* (lockClaimedInbox, recordFailure).
THEOREM ClosedWebhooksAreFinal == Spec => ClosedWebhooksStayClosed
<1> DEFINE Closed == IInv /\ CompletedIsPosted
<1>1. Init => Closed
  <2>1. Init => CompletedIsPosted
    BY DEF Init, CompletedIsPosted
  <2> QED BY <2>1, CalendarStarts, MoneyStarts DEF IInv
<1>2. Closed /\ [Next]_vars =>
        /\ Closed'
        /\ \A b \in Paid :
             /\ inbox[b].status \in {"completed", "quarantined"} => inbox'[b] = inbox[b]
             /\ inbox'[b].status = "completed" => posted'[b] = 1
  <2> SUFFICES ASSUME Closed, [Next]_vars
               PROVE  /\ Closed'
                      /\ \A b \in Paid :
                           /\ inbox[b].status \in {"completed", "quarantined"} => inbox'[b] = inbox[b]
                           /\ inbox'[b].status = "completed" => posted'[b] = 1
    OBVIOUS
  <2>1. IInv'
    BY StepKeepsCalendar, StepKeepsMoney DEF IInv
  <2>2. \A b \in Paid :
          /\ inbox[b].status \in {"completed", "quarantined"} => inbox'[b] = inbox[b]
          /\ inbox'[b].status = "completed" => posted'[b] = 1
    BY StepClosesWebhooks DEF IInv, MoneyInv
  <2> QED BY <2>1, <2>2 DEF CompletedIsPosted
<1> HIDE DEF Closed
<1>3. Closed /\ [Next]_vars =>
        [\A b \in Paid :
           /\ inbox[b].status \in {"completed", "quarantined"} => inbox'[b] = inbox[b]
           /\ inbox'[b].status = "completed" => posted'[b] = 1]_vars
  BY <1>2
<1> QED BY <1>1, <1>2, <1>3, PTL DEF Spec, ClosedWebhooksStayClosed

\* A checkout that has been decided, by an answer or by a call that went
\* missing, is not decided again by any number of overlapping relays
\* (completeInTransaction, markUnknownInTransaction).
THEOREM CheckoutsAreDecidedOnce == Spec => CheckoutsStayDecided
<1> DEFINE CheckoutType == checkout \in [Paid -> {"none", "checkout_requested", "checkout_ready",
                                                  "provider_session_unknown"}]
           Stays == \A b \in Paid : checkout[b] \in {"checkout_ready", "provider_session_unknown"}
                                    => checkout'[b] = checkout[b]
<1>1. Init => CheckoutType
  BY DEF Init
<1>2. CheckoutType /\ [Next]_vars => CheckoutType' /\ Stays
  <2> SUFFICES ASSUME CheckoutType, [Next]_vars PROVE CheckoutType' /\ Stays
    OBVIOUS
  <2>1. CASE \E b \in Paid : PrepareCheckout(b)
    BY <2>1 DEF PrepareCheckout
  <2>2. CASE \E w \in Relay : \E c \in held[w] : RecordAnswer(w, c)
    <3> PICK w \in Relay : \E c \in held[w] : RecordAnswer(w, c)
      BY <2>2
    <3> PICK c \in held[w] : RecordAnswer(w, c)
      OBVIOUS
    <3> DEFINE p == outbox[c.event].about
    <3>1. checkout' = [checkout EXCEPT ![p] = Decided(checkout[p], answer[w].says)]
      BY DEF RecordAnswer
    <3> HIDE DEF p
    <3> QED BY <3>1 DEF Decided
  <2>3. CASE UNCHANGED checkout
    BY <2>3
  <2>4. \/ UNCHANGED checkout
        \/ \E b \in Paid : PrepareCheckout(b)
        \/ \E w \in Relay : \E c \in held[w] : RecordAnswer(w, c)
    BY DEF Next, vars, checkoutVars, Calendar, AtArcPay, StartTick, Reconcile, Dispatch, AskArcPay,
           NotExecutable, Webhooks, StoreWebhook, LeaseExpires, ClaimWebhook, CommitWebhook,
           RecordFailure, ReadFails, WorkerDies
  <2> QED BY <2>1, <2>2, <2>3, <2>4
<1> HIDE DEF CheckoutType
<1>3. CheckoutType /\ [Next]_vars =>
        [\A b \in Paid : checkout[b] \in {"checkout_ready", "provider_session_unknown"}
                         => checkout'[b] = checkout[b]]_vars
  BY <1>2
<1> QED BY <1>1, <1>2, <1>3, PTL DEF Spec, CheckoutsStayDecided

-------------------------------------------------------------------------------
(***************************************************************************)
(* The types of what the relays, the checkouts and the workers keep.       *)
(***************************************************************************)
Rows == [about : Paid, due : BOOLEAN, status : {"pending", "publishing", "published"}]

Claims == [event : Event, current : BOOLEAN, result : {"none", "added", "failed"}]

OutboxOK == outbox \in Seq(Rows)

HeldOK == held = [w \in Relay |-> held[w]] /\ (\A w \in Relay : held[w] \subseteq Claims)
          /\ faults \in 0 .. MaxFaults

Answers == [event : Event \cup {0}, says : {"none", "created", "transport"},
            seen : {"none", "checkout_requested", "provider_session_unknown"}]

CheckoutsOK ==
  /\ checkout \in [Paid -> {"none", "checkout_requested", "checkout_ready", "provider_session_unknown"}]
  /\ prepared \in Seq(Paid) /\ answer \in [Relay -> Answers]

WorkOK ==
  /\ work = [w \in Worker |-> work[w]]
  /\ \A w \in Worker : work[w] = NoWork \/ work[w] \in [booking : Paid, failed : BOOLEAN]

OthersOK == hold \in [Booking -> {"ahead", "between", "past"}] /\ announced \subseteq Client

Typed == IInv /\ OutboxOK /\ HeldOK /\ CheckoutsOK /\ WorkOK /\ OthersOK

\* Rows are only ever added to the outbox.
RowsStay == outbox' \in Seq(Rows) /\ Event \subseteq Event'

LEMMA OutboxKept ==
  ASSUME OutboxOK, [Next]_vars
  PROVE  RowsStay
<1> USE DEF RowsStay, Event
<1>0. outbox \in [1 .. Len(outbox) -> Rows] /\ Len(outbox) \in Nat /\ outbox \in Seq(Rows)
  BY DEF OutboxOK
<1>1. ASSUME outbox' \in [1 .. Len(outbox) -> Rows] PROVE RowsStay
  BY <1>0, <1>1
<1>2. CASE UNCHANGED outbox
  BY <1>0, <1>2
<1>3. ASSUME NEW w \in Relay, ClaimPending(w) PROVE RowsStay
  <2> DEFINE r(e) == IF e \in Claimable
                       THEN [about |-> outbox[e].about, status |-> "publishing", due |-> FALSE]
                       ELSE outbox[e]
  <2>1. outbox' = [e \in Event |-> r(e)]
    BY <1>3 DEF ClaimPending
  <2>2. \A e \in Event : r(e) \in Rows
    BY <1>0 DEF Rows
  <2> HIDE DEF r
  <2> QED BY <1>0, <1>1, <2>1, <2>2
<1>4. ASSUME NEW w \in Relay, NEW c \in held[w], Settle(w, c) PROVE RowsStay
  <2> DEFINE s == IF c.result = "failed" THEN "pending" ELSE "published"
  <2>1. UNCHANGED outbox \/ outbox' = [outbox EXCEPT ![c.event].status = s]
    BY <1>4 DEF Settle
  <2>2. s \in {"pending", "published"}
    OBVIOUS
  <2> HIDE DEF s
  <2>3. CASE outbox' = [outbox EXCEPT ![c.event].status = s]
    <3>1. \A e \in Event : outbox'[e] \in Rows
      BY <1>0, <2>2, <2>3 DEF Rows
    <3>2. outbox' = [e \in 1 .. Len(outbox) |-> outbox'[e]]
      BY <1>0, <2>3
    <3> QED BY <1>0, <1>1, <3>1, <3>2
  <2> QED BY <1>2, <2>1, <2>3
<1>5. ASSUME NEW e \in Event, BecomesDue(e) PROVE RowsStay
  <2>1. outbox' = [outbox EXCEPT ![e].due = TRUE]
    BY <1>5 DEF BecomesDue
  <2>2. \A d \in Event : outbox'[d] \in Rows
    BY <1>0, <2>1 DEF Rows
  <2>3. outbox' = [d \in 1 .. Len(outbox) |-> outbox'[d]]
    BY <1>0, <2>1
  <2> QED BY <1>0, <1>1, <2>2, <2>3
<1>6. ASSUME NEW b \in Paid, PrepareCheckout(b) PROVE RowsStay
  <2>1. outbox' = Append(outbox, Row(b)) /\ Row(b) \in Rows
    BY <1>6 DEF PrepareCheckout, Row, Rows
  <2> QED BY <1>0, <2>1
<1>7. \/ UNCHANGED outbox
      \/ \E w \in Relay : ClaimPending(w) \/ \E c \in held[w] : Settle(w, c)
      \/ \E e \in Event : BecomesDue(e)
      \/ \E b \in Paid : PrepareCheckout(b)
  BY DEF Next, vars, outboxVars, Calendar, AtArcPay, StartTick, Reconcile, Dispatch, AskArcPay, RecordAnswer,
         NotExecutable, HandOverFails, RelayDies, Webhooks, StoreWebhook, LeaseExpires, ClaimWebhook,
         CommitWebhook, RecordFailure, ReadFails, WorkerDies
<1> QED BY <1>2, <1>3, <1>4, <1>5, <1>6, <1>7

LEMMA ClaimsKept ==
  ASSUME HeldOK, RowsStay, [Next]_vars
  PROVE  HeldOK'
<1> USE RelayAssumption
<1>0. \A c \in Claims : c \in Claims'
  BY DEF RowsStay, Claims
<1>1. CASE UNCHANGED held
  <2>1. UNCHANGED faults \/ Fault
    BY DEF Next, vars, outboxVars, Calendar, PrepareCheckout, AtArcPay, StartTick, Reconcile, Dispatch,
           AskArcPay, RecordAnswer, NotExecutable, ClaimPending, HandOverFails, Settle, RelayDies, BecomesDue,
           Webhooks, StoreWebhook, LeaseExpires, ClaimWebhook, CommitWebhook, RecordFailure, ReadFails,
           WorkerDies
  <2> QED BY <1>0, <1>1, <2>1 DEF HeldOK, Fault
<1>2. ASSUME NEW w \in Relay, NEW h \in SUBSET Claims, held' = [held EXCEPT ![w] = h],
             faults' \in 0 .. MaxFaults
      PROVE  HeldOK'
  BY <1>0, <1>2 DEF HeldOK
<1>3. ASSUME NEW w \in Relay, ClaimPending(w) PROVE HeldOK'
  <2> DEFINE new == {[event |-> e, current |-> TRUE, result |-> "none"] : e \in Claimable}
             old(v) == {IF c.event \in Claimable THEN [c EXCEPT !.current = FALSE] ELSE c : c \in held[v]}
  <2>1. held' = [v \in Relay |-> IF v = w THEN new ELSE old(v)] /\ faults' = faults
    BY <1>3 DEF ClaimPending
  <2>2. new \subseteq Claims
    <3>1. \A e \in Claimable : e \in Event
      BY DEF Claimable, Due
    <3>2. \A e \in Claimable : [event |-> e, current |-> TRUE, result |-> "none"] \in Claims
      BY <3>1 DEF Claims
    <3> QED BY <3>2
  <2>3. \A v \in Relay : old(v) \subseteq Claims
    BY DEF HeldOK, Claims
  <2> HIDE DEF new, old
  <2> QED BY <1>0, <2>1, <2>2, <2>3 DEF HeldOK
<1>4. ASSUME NEW w \in Relay, NEW c \in held[w], NEW result \in {"added", "failed"},
             HandedOver(w, c, result), UNCHANGED faults \/ Fault
      PROVE  HeldOK'
  <2> DEFINE h == (held[w] \ {c}) \cup {[c EXCEPT !.result = result]}
  <2>1. h \in SUBSET Claims
    BY DEF HeldOK, Claims
  <2>2. held' = [held EXCEPT ![w] = h]
    BY <1>4 DEF HandedOver, HeldOK
  <2>3. faults' \in 0 .. MaxFaults
    BY <1>4 DEF Fault, HeldOK
  <2> HIDE DEF h
  <2> QED BY <1>2, <2>1, <2>2, <2>3
<1>5. ASSUME NEW w \in Relay, NEW c \in held[w], Settle(w, c) PROVE HeldOK'
  <2>1. \/ held' = [held EXCEPT ![w] = held[w] \ {c}]
        \/ held' = [held EXCEPT ![w] = {}]
    BY <1>5 DEF Settle, HeldOK
  <2>2. faults' \in 0 .. MaxFaults
    BY <1>5 DEF Settle, HeldOK
  <2> QED BY <1>2, <2>1, <2>2 DEF HeldOK
<1>6. ASSUME NEW w \in Relay, RelayDies(w) PROVE HeldOK'
  BY <1>2, <1>6 DEF RelayDies, Fault, HeldOK
<1>7. ASSUME NEW w \in Relay, NEW c \in held[w],
             RecordAnswer(w, c) \/ NotExecutable(w, c) \/ HandOverFails(w, c)
      PROVE  \E result \in {"added", "failed"} : HandedOver(w, c, result) /\ (UNCHANGED faults \/ Fault)
  BY <1>7 DEF RecordAnswer, NotExecutable, HandOverFails
<1>8. \/ UNCHANGED held
      \/ \E w \in Relay : ClaimPending(w) \/ RelayDies(w)
      \/ \E w \in Relay : \E c \in held[w] : RecordAnswer(w, c) \/ NotExecutable(w, c)
                                             \/ HandOverFails(w, c) \/ Settle(w, c)
  BY DEF Next, vars, outboxVars, Calendar, PrepareCheckout, AtArcPay, StartTick, Reconcile, Dispatch, AskArcPay,
         BecomesDue, Webhooks, StoreWebhook, LeaseExpires, ClaimWebhook, CommitWebhook, RecordFailure,
         ReadFails, WorkerDies
<1> QED BY <1>1, <1>3, <1>4, <1>5, <1>6, <1>7, <1>8

LEMMA CheckoutsKept ==
  ASSUME CheckoutsOK, HeldOK, OutboxOK, RowsStay, [Next]_vars
  PROVE  CheckoutsOK'
<1> USE DEF CheckoutsOK
<1>0. \A a \in Answers : a \in Answers'
  BY DEF RowsStay, Answers
<1>1. NoAnswer \in Answers
  BY DEF NoAnswer, Answers
<1>2. ASSUME UNCHANGED <<checkout, prepared>>,
             UNCHANGED answer \/ \E w \in Relay, a \in Answers : answer' = [answer EXCEPT ![w] = a]
      PROVE  CheckoutsOK'
  BY <1>0, <1>2
<1>3. ASSUME NEW b \in Paid, PrepareCheckout(b) PROVE CheckoutsOK'
  BY <1>0, <1>3 DEF PrepareCheckout
<1>4. ASSUME NEW w \in Relay, NEW c \in held[w], AskArcPay(w, c) PROVE CheckoutsOK'
  <2>1. PICK b : b = outbox[c.event].about
    OBVIOUS
  <2>2. c \in Claims
    BY DEF HeldOK
  <2>3. c.event \in Event
    BY <2>2 DEF Claims
  <2>4. PICK a \in {"transport", "created"} :
          answer' = [answer EXCEPT ![w] = [event |-> c.event, seen |-> checkout[b], says |-> a]]
    BY <1>4, <2>1 DEF AskArcPay
  <2>5. [event |-> c.event, seen |-> checkout[b], says |-> a] \in Answers
    BY <1>4, <2>1, <2>3 DEF AskArcPay, Answers
  <2> QED BY <1>2, <1>4, <2>4, <2>5 DEF AskArcPay
<1>5. ASSUME NEW w \in Relay, NEW c \in held[w], RecordAnswer(w, c) PROVE CheckoutsOK'
  <2>1. PICK b, a : b = outbox[c.event].about /\ a = answer[w].says
    OBVIOUS
  <2>2. c.event \in Event
    BY DEF HeldOK, Claims
  <2>3. outbox[c.event] \in Rows
    BY <2>2 DEF OutboxOK, Event
  <2>4. b \in Paid
    BY <2>1, <2>3 DEF Rows
  <2>5. checkout' = [checkout EXCEPT ![b] = Decided(checkout[b], a)] /\ UNCHANGED prepared
        /\ answer' = [answer EXCEPT ![w] = NoAnswer]
    BY <1>5, <2>1 DEF RecordAnswer
  <2>6. Decided(checkout[b], a) \in {"none", "checkout_requested", "checkout_ready", "provider_session_unknown"}
    BY <2>4 DEF Decided
  <2> QED BY <1>0, <1>1, <2>4, <2>5, <2>6
<1>6. ASSUME NEW w \in Relay, UNCHANGED <<checkout, prepared>>, answer' = [answer EXCEPT ![w] = NoAnswer]
      PROVE  CheckoutsOK'
  BY <1>1, <1>2, <1>6
<1>7. \/ UNCHANGED <<checkout, prepared, answer>>
      \/ \E b \in Paid : PrepareCheckout(b)
      \/ \E w \in Relay : \E c \in held[w] : AskArcPay(w, c) \/ RecordAnswer(w, c)
      \/ UNCHANGED <<checkout, prepared>> /\ \E w \in Relay : answer' = [answer EXCEPT ![w] = NoAnswer]
  BY DEF Next, vars, checkoutVars, Calendar, AtArcPay, StartTick, Reconcile, Dispatch, NotExecutable,
         Webhooks, StoreWebhook, LeaseExpires, ClaimWebhook, CommitWebhook, RecordFailure, ReadFails, WorkerDies
<1> QED BY <1>2, <1>3, <1>4, <1>5, <1>6, <1>7

LEMMA WorkKept ==
  ASSUME WorkOK, [Next]_vars
  PROVE  WorkOK'
<1> USE DEF WorkOK
<1>1. ASSUME NEW w \in Worker, NEW r, r = NoWork \/ r \in [booking : Paid, failed : BOOLEAN],
             work' = [work EXCEPT ![w] = r]
      PROVE  WorkOK'
  BY <1>1
<1>2. ASSUME NEW w \in Worker, work[w] \in [booking : Paid, failed : BOOLEAN],
             work' = [work EXCEPT ![w].failed = TRUE]
      PROVE  WorkOK'
  <2>1. [work[w] EXCEPT !.failed = TRUE] \in [booking : Paid, failed : BOOLEAN]
    BY <1>2
  <2>2. work' = [work EXCEPT ![w] = [work[w] EXCEPT !.failed = TRUE]]
    BY <1>2
  <2> QED BY <1>1, <2>1, <2>2
<1>3. ASSUME NEW w \in Worker, NEW b \in Paid,
             ClaimWebhook(w, b) \/ CommitWebhook(w, b) \/ RecordFailure(w, b)
      PROVE  WorkOK'
  <2>1. \/ work' = [work EXCEPT ![w] = [booking |-> b, failed |-> FALSE]]
        \/ work' = [work EXCEPT ![w] = NoWork]
        \/ /\ work[w] = [booking |-> b, failed |-> FALSE]
           /\ work' = [work EXCEPT ![w].failed = TRUE]
    BY <1>3 DEF ClaimWebhook, CommitWebhook, RecordFailure
  <2>2. [booking |-> b, failed |-> FALSE] \in [booking : Paid, failed : BOOLEAN]
    OBVIOUS
  <2> QED BY <1>1, <1>2, <2>1, <2>2
<1>4. ASSUME NEW w \in Worker, ReadFails(w) \/ WorkerDies(w) PROVE WorkOK'
  <2>1. /\ work[w] # NoWork
        /\ work' = [work EXCEPT ![w] = NoWork] \/ work' = [work EXCEPT ![w].failed = TRUE]
    BY <1>4 DEF ReadFails, WorkerDies
  <2> QED BY <1>1, <1>2, <2>1
<1>5. \/ UNCHANGED work
      \/ \E w \in Worker, b \in Paid : ClaimWebhook(w, b) \/ CommitWebhook(w, b) \/ RecordFailure(w, b)
      \/ \E w \in Worker : ReadFails(w) \/ WorkerDies(w)
  BY DEF Next, vars, captureVars, Calendar, PrepareCheckout, AtArcPay, StartTick, Reconcile, Dispatch, AskArcPay,
         RecordAnswer, NotExecutable, Webhooks, StoreWebhook, LeaseExpires
<1> QED BY <1>3, <1>4, <1>5

LEMMA OthersKept ==
  ASSUME OthersOK, [Next]_vars
  PROVE  OthersOK'
<1> USE DEF OthersOK
<1>1. hold' \in [Booking -> {"ahead", "between", "past"}]
  <2>1. UNCHANGED hold \/ \E b \in Paid : HoldLapses(b)
    BY DEF Next, vars, slotVars, Calendar, AskForSlot, AskToMove, Wants, TakeSlot, CancelBooking, CompleteBooking,
           ClaimBooking, BreakDeadlock, CreateOrder, ClaimReservation, PrepareCheckout, AtArcPay, StartTick,
           Reconcile, ApplyCapture, Dispatch, AskArcPay, RecordAnswer, NotExecutable, Webhooks, StoreWebhook,
           LeaseExpires, ClaimWebhook, CommitWebhook, RecordFailure, ReadFails, WorkerDies
  <2> QED BY <2>1 DEF HoldLapses
<1>2. announced' \subseteq Client
  <2>1. UNCHANGED announced \/ \E b \in Paid : ApplyCapture(b)
    BY DEF Next, vars, moneyVars, Calendar, CreateOrder, PrepareCheckout, AtArcPay, StartTick, Reconcile,
           Dispatch, AskArcPay, RecordAnswer, NotExecutable, Webhooks, StoreWebhook, LeaseExpires,
           ClaimWebhook, CommitWebhook, RecordFailure, ReadFails, WorkerDies
  <2> QED BY <2>1, CheckoutAssumption DEF ApplyCapture
<1> QED BY <1>1, <1>2

\* Calendar, outbox, checkouts, inbox and the workers' memory have their types;
\* no sale is posted twice and no webhook claimed more often than it may be.
THEOREM CheckoutTypes == Spec => []TypeOK
<1>1. Init => Typed
  <2> SUFFICES ASSUME Init PROVE Typed
    OBVIOUS
  <2>1. IInv
    BY CalendarStarts, MoneyStarts DEF IInv
  <2>2. OutboxOK
    BY DEF Init, RelayInit, OutboxOK
  <2>3. HeldOK
    BY RelayAssumption DEF Init, RelayInit, HeldOK
  <2>4. CheckoutsOK
    BY DEF Init, CheckoutsOK, NoAnswer, Answers
  <2>5. WorkOK /\ OthersOK
    BY DEF Init, SlotsInit, WorkOK, OthersOK
  <2> QED BY <2>1, <2>2, <2>3, <2>4, <2>5 DEF Typed
<1>2. Typed /\ [Next]_vars => Typed'
  <2> SUFFICES ASSUME Typed, [Next]_vars PROVE Typed'
    OBVIOUS
  <2>1. IInv'
    BY StepKeepsCalendar, StepKeepsMoney DEF Typed, IInv
  <2>2. RowsStay
    BY OutboxKept DEF Typed
  <2> QED BY <2>1, <2>2, ClaimsKept, CheckoutsKept, WorkKept, OthersKept DEF Typed, RowsStay, OutboxOK
<1>3. Typed => TypeOK
  <2> SUFFICES ASSUME Typed PROVE TypeOK
    OBVIOUS
  <2>1. SlotsTypeOK
    BY DEF Typed, IInv, CalendarInv, CalendarTypeOK, OthersOK, SlotsTypeOK
  <2>2. RelayTypeOK(Paid)
    <3>1. \A e \in Event : outbox[e] \in Rows
      BY DEF Typed, OutboxOK, Event
    <3>2. \A w \in Relay : \A c \in held[w] : c \in Claims
      BY DEF Typed, HeldOK
    <3>3. faults \in 0 .. MaxFaults
      BY DEF Typed, HeldOK
    <3> QED BY <3>1, <3>2, <3>3 DEF RelayTypeOK, Rows, Claims
  <2>3. posted \in [Paid -> 0 .. 1]
    BY DEF Typed, IInv, MoneyInv, MoneyTypeOK, OrderBookingAndWalletAgree
  <2>4. \A i \in DOMAIN prepared : prepared[i] \in Paid
    BY DEF Typed, CheckoutsOK
  <2> QED BY <2>1, <2>2, <2>3, <2>4
          DEF TypeOK, Typed, IInv, MoneyInv, MoneyTypeOK, CheckoutsOK, Answers, WorkOK, OthersOK
<1> QED BY <1>1, <1>2, <1>3, PTL DEF Spec
===============================================================================
