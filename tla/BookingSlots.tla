------------------------------ MODULE BookingSlots -----------------------------
(***************************************************************************)
(* Bookings and the reservations that hold their time.  A client's paid    *)
(* booking starts as a hold that lapses; ordering it turns the hold into a *)
(* booking that waits for payment.  Whoever wants a time releases lapsed   *)
(* holds in it first, in the same transaction.  A release updates the      *)
(* reservation and then the booking, an order the booking and then the     *)
(* reservation, so both are split at the point where they wait for each    *)
(* other's row; every other command is one step.                           *)
(***************************************************************************)
EXTENDS FiniteSets

CONSTANTS
  Booking,  \* every booking that will ever be asked for
  Paid,     \* those a client pays for; the others are the astrologer's own
  Slot      \* stretches of time that overlap only themselves

ASSUME SlotsAssumption == Paid \subseteq Booking /\ Slot # {}

VARIABLES
  booking,      \* bookings.state, or "none"
  reservation,  \* its row in schedule_reservations
  hold,         \* hold_expires_at against the clocks of the servers: ahead of
                \* all, between them (each reads its own now), past on all
  tx            \* the transaction at work on this booking, if it is half way

slotVars == <<booking, reservation, hold, tx>>

BookingState ==
  {"none", "hold", "pending_payment", "confirmed", "cancelled", "completed", "expired"}

\* The states in which a booking is entitled to its time.
Live == {"hold", "pending_payment", "confirmed", "completed"}

Idle == [op |-> "idle", slot |-> CHOOSE s \in Slot : TRUE, victims |-> {}]

SlotsInit ==
  /\ booking = [b \in Booking |-> "none"]
  /\ reservation = [b \in Booking |-> [kind |-> "hold", active |-> FALSE, slot |-> Idle.slot]]
  /\ hold = [b \in Booking |-> "ahead"]
  /\ tx = [b \in Booking |-> Idle]

(***************************************************************************)
(* Row locks: a release has its victims' reservations from its first       *)
(* statement on, an order the booking.                                     *)
(***************************************************************************)
ReservationLocked(b) == \E c \in Booking : b \in tx[c].victims

BookingLocked(b) == tx[b].op = "claim"

(***************************************************************************)
(* releaseExpiredPaidBookingHolds, first statement: the lapsed holds in    *)
(* the time that is wanted.                                                *)
(***************************************************************************)
\* Mutation of Lapsed: a reservation that has become a booking is taken too.
Lapsed_AnyKind(s) == {v \in Booking : reservation[v].active /\ reservation[v].slot = s
                                      /\ v \in Paid /\ hold[v] # "ahead"}

Lapsed(s) == {v \in Booking : reservation[v].active /\ reservation[v].slot = s
                              /\ reservation[v].kind = "hold" /\ hold[v] # "ahead"}

Wants(b, s, op) ==
  /\ tx[b] = Idle
  /\ \A v \in Lapsed(s) : ~ReservationLocked(v)
  /\ tx' = [tx EXCEPT ![b] = [op |-> op, slot |-> s, victims |-> Lapsed(s)]]
  /\ UNCHANGED <<booking, reservation, hold>>

\* executePaidHold, executeManualBooking, executeOwnerReschedule.
AskForSlot(b, s) == booking[b] = "none" /\ Wants(b, s, "create")

AskToMove(b, s) == booking[b] = "confirmed" /\ s # reservation[b].slot /\ Wants(b, s, "move")

(***************************************************************************)
(* Second statement of the release, then the insert or the move, and the   *)
(* commit.  The exclusion constraint on active reservations rolls all of   *)
(* it back when the time is still taken.                                   *)
(***************************************************************************)
\* Mutation of Taken: no exclusion constraint.
Taken_Never(b) == FALSE

Taken(b) == \E c \in Booking \ ({b} \cup tx[b].victims) :
              reservation[c].active /\ reservation[c].slot = tx[b].slot

TakeSlot(b) ==
  /\ tx[b].op \in {"create", "move"}
  /\ \A v \in tx[b].victims : ~BookingLocked(v)
  /\ tx' = [tx EXCEPT ![b] = Idle]
  /\ IF Taken(b) THEN UNCHANGED <<booking, reservation>>
     ELSE /\ booking' = [c \in Booking |->
               IF c = b /\ tx[b].op = "create" THEN IF b \in Paid THEN "hold" ELSE "confirmed"
               ELSE IF c \in tx[b].victims /\ booking[c] = "hold" THEN "expired"
               ELSE booking[c]]
          /\ reservation' = [c \in Booking |->
               IF c = b THEN [kind |-> IF tx[b].op = "create" /\ b \in Paid THEN "hold" ELSE "booking",
                              active |-> TRUE, slot |-> tx[b].slot]
               ELSE IF c \in tx[b].victims THEN [reservation[c] EXCEPT !.active = FALSE]
               ELSE reservation[c]]
  /\ UNCHANGED hold

(***************************************************************************)
(* claimPaidBookingHoldForOrder, inside the transaction that inserts the   *)
(* order.                                                                  *)
(***************************************************************************)
ClaimBooking(b) ==
  /\ booking[b] = "hold" /\ hold[b] # "past" /\ tx[b] = Idle
  /\ tx' = [tx EXCEPT ![b].op = "claim"]
  /\ UNCHANGED <<booking, reservation, hold>>

\* Mutation of MayClaimReservation: the row lock of the release is not awaited.
MayClaimReservation_NoWait(b) == tx[b].op = "claim"

MayClaimReservation(b) == tx[b].op = "claim" /\ ~ReservationLocked(b)

ClaimReservation(b) ==
  /\ MayClaimReservation(b)
  /\ booking' = [booking EXCEPT ![b] = "pending_payment"]
  /\ reservation' = [reservation EXCEPT ![b].kind = "booking"]
  /\ tx' = [tx EXCEPT ![b] = Idle]
  /\ UNCHANGED hold

\* An order and a release that wait for each other: one of the two is aborted.
BreakDeadlock(b, c) ==
  /\ tx[b].op = "claim" /\ b \in tx[c].victims
  /\ \E aborted \in {b, c} : tx' = [tx EXCEPT ![aborted] = Idle]
  /\ UNCHANGED <<booking, reservation, hold>>

(***************************************************************************)
(* confirmPaidBooking (in the transaction of a capture), cancelOwnedBooking*)
(* and completeOwnedBooking.                                               *)
(***************************************************************************)
ConfirmPaid(b) == booking' = [booking EXCEPT ![b] = "confirmed"]

CancelBooking(b) ==
  /\ b \notin Paid /\ booking[b] = "confirmed" /\ tx[b] = Idle
  /\ booking' = [booking EXCEPT ![b] = "cancelled"]
  /\ reservation' = [reservation EXCEPT ![b].active = FALSE]
  /\ UNCHANGED <<hold, tx>>

CompleteBooking(b) ==
  /\ b \in Paid /\ booking[b] = "confirmed" /\ tx[b] = Idle
  /\ booking' = [booking EXCEPT ![b] = "completed"]
  /\ UNCHANGED <<reservation, hold, tx>>

HoldLapses(b) ==
  /\ booking[b] = "hold" /\ hold[b] # "past"
  /\ hold' = [hold EXCEPT ![b] = IF @ = "ahead" THEN "between" ELSE "past"]
  /\ UNCHANGED <<booking, reservation, tx>>

SlotsTypeOK ==
  /\ booking \in [Booking -> BookingState]
  /\ reservation \in [Booking -> [kind : {"hold", "booking"}, active : BOOLEAN, slot : Slot]]
  /\ hold \in [Booking -> {"ahead", "between", "past"}]
  /\ tx \in [Booking -> [op : {"idle", "create", "move", "claim"}, slot : Slot,
                         victims : SUBSET Booking]]

\* A booking that is entitled to its time holds it, as a hold before it is
\* ordered and as a booking afterwards, and no other booking's row is left in
\* the calendar (the release and the order update the two tables in opposite
\* orders).
LiveBookingsHoldTheirSlot ==
  \A b \in Booking :
    /\ reservation[b].active <=> booking[b] \in Live
    /\ booking[b] \in Live => (reservation[b].kind = "hold" <=> booking[b] = "hold")

\* No stretch of time is promised to two bookings.
NoSlotIsSoldTwice ==
  \A b, c \in Booking : booking[b] \in Live /\ booking[c] \in Live
                        /\ reservation[b].slot = reservation[c].slot => b = c
===============================================================================
