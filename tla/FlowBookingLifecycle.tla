------------------------- MODULE FlowBookingLifecycle -------------------------
(***************************************************************************)
(* A booking changes, and the flow run it has started follows: every       *)
(* change writes a lifecycle event and its dispatch in one transaction,    *)
(* relays dispatch the events, and one transaction per dispatch applies    *)
(* all canonical events the flow head has not seen, in revision order, or  *)
(* none of them.                                                           *)
(***************************************************************************)
EXTENDS FlowDispatchOutbox, Sequences

CONSTANT ChangeKind  \* how the booking may change: a subset of Changes

Changes == {"rescheduled", "cancelled", "completed"}

ASSUME ChangeAssumption == ChangeKind \subseteq Changes

VARIABLES
  events,  \* booking_lifecycle_events, one per revision of the booking
  head,    \* flow_booking_lifecycle_heads: state and applied revision
  run      \* the run the booking starts: how it stands, the revision its
           \* claim was made under

vars == <<outboxVars, events, head, run>>

Init ==
  /\ OutboxInit
  /\ events = << >>
  /\ head = [state |-> "none", applied |-> 0]
  /\ run = [at |-> "none", context |-> 0]

BookingState ==
  IF events = << >> THEN "none"
  ELSE IF events[Len(events)] \in {"cancelled", "completed"} THEN events[Len(events)]
  ELSE "confirmed"

(***************************************************************************)
(* Booking commands: the aggregate, its event and the dispatch commit      *)
(* together.                                                               *)
(***************************************************************************)
ChangeBooking(kind) ==
  /\ Len(events) < MaxEvent
  /\ events' = Append(events, kind)
  /\ outbox' = Inserted(Len(events) + 1)
  /\ UNCHANGED <<held, faults, head, run>>

Confirm == BookingState = "none" /\ ChangeBooking("confirmed")
Change == BookingState = "confirmed" /\ \E kind \in ChangeKind : ChangeBooking(kind)

(***************************************************************************)
(* processBookingLifecycleEvent                                            *)
(***************************************************************************)
\* Mutation of Chain: only the next event is applied.
Chain_OnlyNext == IF head.applied < Len(events) THEN {head.applied + 1} ELSE {}

\* The revisions not yet applied, up to the aggregate's.
Chain == head.applied + 1 .. Len(events)

\* Mutation of RuntimeDefers: a claimed run is rescheduled.
RuntimeDefers_NotForClaims ==
  \E i \in Chain : events[i] \in {"rescheduled", "cancelled"} /\ run.at = "external"

\* A reschedule waits for a claimed run, and like a cancellation for one that
\* waits for an external effect.
RuntimeDefers ==
  \E i \in Chain :
    \/ events[i] = "rescheduled" /\ run.at \in {"claimed", "external"}
    \/ events[i] = "cancelled" /\ run.at = "external"

\* The result row is refused for a completed event, after it has been applied.
ResultRefused(e) == events[e] = "completed"

RunAfterChain ==
  IF (\E i \in Chain : events[i] = "cancelled") /\ run.at \notin {"none", "ended"}
    THEN [at |-> "canceled", context |-> 0]
  ELSE IF 1 \in Chain /\ BookingState = "confirmed" THEN [run EXCEPT !.at = "free"]
  ELSE run

\* A redelivery finds the receipt of its event.
Replay(w, c) ==
  /\ Handling(w, c) /\ c.event <= head.applied
  /\ Handled(w, c, IF ResultRefused(c.event) THEN "poison" ELSE "published")
  /\ UNCHANGED <<outbox, faults, events, head, run>>

Apply(w, c) ==
  /\ Handling(w, c) /\ c.event > head.applied
  /\ IF RuntimeDefers
       THEN Handled(w, c, "deferred") /\ UNCHANGED <<head, run>>
     ELSE IF ResultRefused(c.event)
       THEN Handled(w, c, "poison") /\ UNCHANGED <<head, run>>
     ELSE /\ Handled(w, c, "published")
          /\ head' = [state |-> BookingState, applied |-> head.applied + Cardinality(Chain)]
          /\ run' = RunAfterChain
  /\ UNCHANGED <<outbox, faults, events>>

(***************************************************************************)
(* The run, as far as a booking change cares.                              *)
(***************************************************************************)
\* Mutation of ClaimRun: claims do not ask whether the head is current.
ClaimRun_StaleHead ==
  /\ run.at = "free" /\ head.state = "confirmed"
  /\ run' = [at |-> "claimed", context |-> head.applied]
  /\ UNCHANGED <<outboxVars, events, head>>

\* Claims are withheld while the booking is ahead of the head.
ClaimRun ==
  /\ run.at = "free" /\ head.state = "confirmed" /\ head.applied = Len(events)
  /\ run' = [at |-> "claimed", context |-> head.applied]
  /\ UNCHANGED <<outboxVars, events, head>>

\* finalize under the context of the claim; the head may lag behind by now.
FinalizeRun ==
  /\ run.at = "claimed" /\ head.state = "confirmed" /\ run.context = head.applied
  /\ \E next \in {"free", "external", "ended"} : run' = [at |-> next, context |-> 0]
  /\ UNCHANGED <<outboxVars, events, head>>

RecoverRun ==
  /\ run.at = "claimed"
  /\ \E next \in {"free", "ended"} : run' = [at |-> next, context |-> 0]
  /\ UNCHANGED <<outboxVars, events, head>>

\* The external effect reports its outcome.
ExternalEnds ==
  /\ run.at = "external"
  /\ run' = [run EXCEPT !.at = "free"]
  /\ UNCHANGED <<outboxVars, events, head>>

Keep(Action) == Action /\ UNCHANGED <<events, head, run>>

RelayStep(w) ==
  \/ Keep(ClaimBatch(w)) \/ Keep(RelayDies(w))
  \/ \E c \in held[w] :
       Replay(w, c) \/ Apply(w, c) \/ Keep(HandlerFails(w, c)) \/ Keep(Settle(w, c))

Next ==
  \/ Confirm \/ Change
  \/ \E w \in Relay : RelayStep(w)
  \/ \E e \in Event : Keep(BecomesDue(e))
  \/ ClaimRun \/ FinalizeRun \/ RecoverRun \/ ExternalEnds

\* Relays poll and settle what they hold, time passes, an expired lease is
\* recovered and an external effect ends.  Nothing makes a worker finalize.
Fairness ==
  /\ \A w \in Relay :
       /\ WF_vars(Keep(ClaimBatch(w)))
       /\ WF_vars(\E c \in held[w] : Replay(w, c) \/ Apply(w, c) \/ Keep(Settle(w, c)))
  /\ \A e \in Event : WF_vars(Keep(BecomesDue(e)))
  /\ WF_vars(RecoverRun) /\ WF_vars(ExternalEnds)

Spec == Init /\ [][Next]_vars /\ Fairness

(***************************************************************************)
(* Properties.                                                             *)
(***************************************************************************)
\* The rows have the types of their tables.
TypeOK ==
  /\ OutboxTypeOK
  /\ events \in Seq({"confirmed"} \cup Changes) /\ Len(events) <= MaxEvent
  /\ head \in [state : {"none", "confirmed", "cancelled", "completed"}, applied : 0 .. MaxEvent]
  /\ run \in [at : {"none", "free", "claimed", "external", "ended", "canceled"},
              context : 0 .. MaxEvent]

\* A dispatch is settled as published only when its event has been applied,
\* through redeliveries, slow relays and relays that die before they settle.
PublishedMeansApplied ==
  \A e \in Event : outbox[e].status = "published" => e <= head.applied

\* Deferring costs no attempt: until there have been as many faults as attempts
\* no event is given up, however long the runtime makes it wait.
DeferralsAreFree ==
  faults < MaxAttempts =>
    \A e \in Event :
      /\ outbox[e].attempts <= faults + 1
      /\ outbox[e].status = "quarantined" => events[e] = "completed"

\* The schedule a claimed run works under is the one the head has applied: no
\* reschedule or completion is applied under a worker's feet, and a cancellation
\* takes the claim away.
ClaimedUnderTheAppliedHead ==
  /\ run.at = "claimed" => run.context = head.applied /\ head.state = "confirmed"
  /\ head.state = "cancelled" => run.at \in {"none", "ended", "canceled"}

\* A head that lags behind a booking that is not completed catches up in the
\* end, if there are fewer faults than attempts: claims are withheld while it
\* lags, so the run comes free for the change as soon as its lease and its
\* external effect have ended.
EveryChangeIsApplied ==
  (head.applied < Len(events))
    ~> (head.applied = Len(events) \/ BookingState = "completed" \/ faults >= MaxAttempts)

\* ADR 0011: "Flows consumes those events into a per-Booking contiguous revision
\* head plus immutable event receipts."  Once every dispatch is settled and no
\* attempts have run out, the head has caught up with the booking; a head that
\* has not withholds the claims of the booking's runs for good.
HeadCatchesUp ==
  /\ faults < MaxAttempts
  /\ \A e \in Event : outbox[e].status \in {"absent", "published", "quarantined"}
  => head.applied = Len(events)
===============================================================================
