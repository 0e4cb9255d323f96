---------------------- MODULE FlowBookingLifecycleProofs ----------------------
(***************************************************************************)
(* For any number of relays, events, attempts and faults: a dispatch is    *)
(* settled as published only when its event has been applied, deferrals    *)
(* cost no attempt, and a claimed run works under the applied head.        *)
(***************************************************************************)
EXTENDS FlowBookingLifecycle, FiniteSetTheorems, SequenceTheorems, TLAPS

(***************************************************************************)
(* The inductive invariant.                                                *)
(***************************************************************************)
\* A dispatch exists only for an event that does, and the head is not ahead.
EventsExist ==
  /\ head.applied <= Len(events)
  /\ \A e \in Event : outbox[e].status # "absent" => e <= Len(events)
  /\ \A w \in Relay : \A c \in held[w] : c.event <= Len(events)

\* What a relay is about to write has been done.
PublishedIsApplied ==
  /\ PublishedMeansApplied
  /\ \A w \in Relay : \A c \in held[w] : c.result = "published" => c.event <= head.applied

\* Every attempt but the one under way has been paid for by a fault.  A claim is
\* under way while its row is not due and a relay holds it.
AttemptsArePaid ==
  /\ \A e \in Event :
       LET row == outbox[e] IN
       /\ row.attempts <= faults + 1
       /\ row.status \in {"absent", "pending"} => row.attempts <= faults
       /\ row.status = "publishing" /\ (row.due \/ ~HeldNow(e)) => row.attempts <= faults
  /\ \A w \in Relay : \A c \in held[w] :
       /\ c.attempts <= faults + 1
       /\ c.current /\ c.result = "retry" /\ outbox[c.event].status = "publishing"
            => outbox[c.event].attempts <= faults

\* As long as there have been fewer faults than attempts, only the event whose
\* result is refused is given up.
OnlyRefusedIsGivenUp ==
  faults < MaxAttempts =>
    /\ \A e \in Event : outbox[e].status = "quarantined" => events[e] = "completed"
    /\ \A w \in Relay : \A c \in held[w] : c.result = "poison" => events[c.event] = "completed"

\* A booking is confirmed once, first, and nothing follows its end.
EventsInOrder ==
  \A i \in 1 .. Len(events) :
    /\ events[i] = "confirmed" <=> i = 1
    /\ events[i] \in {"cancelled", "completed"} => i = Len(events)

HeadFollows ==
  /\ head.state = "none" <=> head.applied = 0
  /\ head.state = "cancelled" => events[head.applied] = "cancelled"

IInv == /\ TypeOK /\ EventsExist /\ PublishedIsApplied /\ AttemptsArePaid /\ OnlyRefusedIsGivenUp
        /\ EventsInOrder /\ HeadFollows /\ ClaimedUnderTheAppliedHead

-------------------------------------------------------------------------------
(***************************************************************************)
(* Types.                                                                  *)
(***************************************************************************)
Row == [status : {"absent", "pending", "publishing", "published", "quarantined"},
        attempts : 0 .. MaxAttempts, due : BOOLEAN]

Claim == [event : Event, attempts : 1 .. MaxAttempts, current : BOOLEAN,
          result : Dispositions \cup {"none"}]

LEMMA Bounds ==
  /\ MaxAttempts \in Nat /\ MaxEvent \in Nat /\ MaxFaults \in Nat /\ Batch \in Nat
  /\ MaxAttempts > 0
  BY OutboxAssumption

LEMMA EventTypes ==
  ASSUME TypeOK
  PROVE  /\ Len(events) \in Nat /\ Len(events) <= MaxEvent
         /\ head.applied \in Nat /\ faults \in Nat
         /\ \A i \in 1 .. Len(events) : i \in Event /\ events[i] \in {"confirmed"} \cup Changes
  BY Bounds DEF TypeOK, OutboxTypeOK, Event

LEMMA Starts == ASSUME Init PROVE IInv
<1> USE Bounds DEF Init, OutboxInit
<1>1. TypeOK
  BY DEF TypeOK, OutboxTypeOK, Event
<1>2. Len(events) = 0
  OBVIOUS
<1>3. EventsExist /\ PublishedIsApplied /\ AttemptsArePaid /\ OnlyRefusedIsGivenUp
  BY <1>2 DEF EventsExist, PublishedIsApplied, PublishedMeansApplied, AttemptsArePaid,
              OnlyRefusedIsGivenUp, HeldNow
<1>4. EventsInOrder /\ HeadFollows /\ ClaimedUnderTheAppliedHead
  BY <1>2 DEF EventsInOrder, HeadFollows, ClaimedUnderTheAppliedHead
<1> QED BY <1>1, <1>3, <1>4 DEF IInv

(***************************************************************************)
(* Booking commands.                                                       *)
(***************************************************************************)
LEMMA ChangesKeepTypes ==
  ASSUME TypeOK, NEW kind \in {"confirmed"} \cup Changes, ChangeBooking(kind)
  PROVE  /\ TypeOK'
         /\ Len(events') = Len(events) + 1 /\ Len(events) + 1 \in Event
         /\ events'[Len(events) + 1] = kind
         /\ \A i \in 1 .. Len(events) : events'[i] = events[i]
<1> USE Bounds, EventTypes DEF ChangeBooking
<1>1. /\ events \in Seq({"confirmed"} \cup Changes) /\ events' = Append(events, kind)
      /\ Len(events) + 1 \in Event
  BY DEF TypeOK, Event
<1>2. /\ events' \in Seq({"confirmed"} \cup Changes) /\ Len(events') = Len(events) + 1
      /\ events'[Len(events) + 1] = kind
      /\ \A i \in 1 .. Len(events) : events'[i] = events[i]
  BY <1>1
<1>3. outbox' \in [Event -> Row]
  BY <1>1 DEF TypeOK, OutboxTypeOK, Inserted, Row
<1> QED BY <1>1, <1>2, <1>3 DEF TypeOK, OutboxTypeOK, Row

LEMMA ChangesKeepInv ==
  ASSUME IInv, NEW kind \in {"confirmed"} \cup Changes, ChangeBooking(kind),
         kind = "confirmed" <=> Len(events) = 0,
         Len(events) > 0 => events[Len(events)] \notin {"cancelled", "completed"}
  PROVE  IInv'
<1> USE Bounds DEF IInv
<1> DEFINE n == Len(events) + 1
<1>1. /\ TypeOK' /\ Len(events') = n /\ n \in Event /\ events'[n] = kind
      /\ \A i \in 1 .. Len(events) : events'[i] = events[i]
  BY ChangesKeepTypes
<1>2. /\ outbox' = [outbox EXCEPT ![n] = [status |-> "pending", attempts |-> 0, due |-> TRUE]]
      /\ UNCHANGED <<held, faults, head, run>>
  BY DEF ChangeBooking, Inserted
<1>3. \A e \in Event : outbox'[e] = IF e = n THEN [status |-> "pending", attempts |-> 0, due |-> TRUE]
                                    ELSE outbox[e]
  BY <1>1, <1>2 DEF TypeOK, OutboxTypeOK
<1>4. /\ Len(events) \in Nat /\ head.applied \in Nat /\ faults \in Nat
      /\ \A w \in Relay : \A c \in held[w] : c.event \in Event /\ c.event <= Len(events) /\ c.event # n
      /\ n \in Nat /\ n # 0
  BY EventTypes DEF EventsExist, TypeOK, OutboxTypeOK, Event
<1> HIDE DEF n
<1>5. EventsExist'
  BY <1>1, <1>2, <1>3, <1>4, n = Len(events) + 1 DEF EventsExist, Event, n
<1>6. PublishedIsApplied'
  BY <1>2, <1>3 DEF PublishedIsApplied, PublishedMeansApplied
<1>7. AttemptsArePaid'
  BY <1>2, <1>3, <1>4 DEF AttemptsArePaid, HeldNow
<1>8. OnlyRefusedIsGivenUp'
  BY <1>1, <1>2, <1>3, <1>4 DEF OnlyRefusedIsGivenUp, EventsExist, Event, n
<1>9. EventsInOrder'
  BY <1>1, <1>4 DEF EventsInOrder, n
<1>10. HeadFollows' /\ ClaimedUnderTheAppliedHead'
  BY <1>1, <1>2, <1>4 DEF HeadFollows, ClaimedUnderTheAppliedHead, EventsExist
<1> QED BY <1>1, <1>5, <1>6, <1>7, <1>8, <1>9, <1>10

LEMMA BookingKeepsInv == ASSUME IInv, Confirm \/ Change PROVE IInv'
<1>1. events \in Seq({"confirmed"} \cup Changes) /\ Len(events) \in Nat
  BY EventTypes DEF IInv, TypeOK
<1>2. CASE Confirm
  <2>1. Len(events) = 0
    BY <1>1, <1>2, Len(events) \in 1 .. Len(events) \/ Len(events) = 0
       DEF Confirm, BookingState, Changes
  <2> QED BY <1>2, <2>1, ChangesKeepInv DEF Confirm
<1>3. CASE Change
  <2>1. Len(events) > 0 /\ events[Len(events)] \notin {"cancelled", "completed"}
    BY <1>1, <1>3 DEF Change, BookingState
  <2>2. PICK kind \in ChangeKind : ChangeBooking(kind)
    BY <1>3 DEF Change
  <2>3. kind \in Changes /\ kind # "confirmed"
    BY ChangeAssumption DEF Changes
  <2>4. kind \in {"confirmed"} \cup Changes /\ (kind = "confirmed" <=> Len(events) = 0)
    BY <1>1, <2>1, <2>3
  <2> QED BY <2>1, <2>2, <2>4, ChangesKeepInv
<1> QED BY <1>2, <1>3

(***************************************************************************)
(* The run.                                                                *)
(***************************************************************************)
LEMMA RunStepsKeepInv ==
  ASSUME IInv, ClaimRun \/ FinalizeRun \/ RecoverRun \/ ExternalEnds
  PROVE  IInv'
<1> USE Bounds DEF IInv
<1>1. UNCHANGED <<outbox, held, faults, events, head>>
  BY DEF ClaimRun, FinalizeRun, RecoverRun, ExternalEnds, outboxVars
<1>2. EventsExist' /\ PublishedIsApplied' /\ AttemptsArePaid' /\ OnlyRefusedIsGivenUp'
      /\ EventsInOrder' /\ HeadFollows'
  BY <1>1 DEF EventsExist, PublishedIsApplied, PublishedMeansApplied, AttemptsArePaid,
              OnlyRefusedIsGivenUp, HeldNow, EventsInOrder, HeadFollows
<1>3. run' \in [at : {"none", "free", "claimed", "external", "ended", "canceled"}, context : 0 .. MaxEvent]
  BY DEF ClaimRun, FinalizeRun, RecoverRun, ExternalEnds, TypeOK
<1>4. TypeOK'
  BY <1>1, <1>3 DEF TypeOK, OutboxTypeOK
<1>5. ClaimedUnderTheAppliedHead'
  BY <1>1 DEF ClaimRun, FinalizeRun, RecoverRun, ExternalEnds, ClaimedUnderTheAppliedHead, TypeOK
<1> QED BY <1>2, <1>4, <1>5

(***************************************************************************)
(* What the steps of a relay and of time leave alone.                      *)
(***************************************************************************)
LEMMA BookingUntouched ==
  ASSUME IInv, UNCHANGED <<events, head, run>>, OutboxTypeOK'
  PROVE  TypeOK' /\ EventsInOrder' /\ HeadFollows' /\ ClaimedUnderTheAppliedHead'
<1>1. EventsInOrder' /\ HeadFollows' /\ ClaimedUnderTheAppliedHead'
  BY DEF IInv, EventsInOrder, HeadFollows, ClaimedUnderTheAppliedHead
<1> QED BY <1>1 DEF IInv, TypeOK

\* A claim of relay w gets its result; no row is written.
LEMMA HandledTypes ==
  ASSUME OutboxTypeOK, NEW w \in Relay, NEW c \in held[w], NEW result \in Dispositions,
         Handled(w, c, result)
  PROVE  /\ held' \in [Relay -> SUBSET Claim]
         /\ c \in Claim
         /\ \A v \in Relay : \A d \in held'[v] :
              \/ d \in held[v]
              \/ /\ v = w /\ d.event = c.event /\ d.attempts = c.attempts
                 /\ d.current = c.current /\ d.result = result
         /\ \A e : HeldNow(e)' = HeldNow(e)
<1> DEFINE d0 == [c EXCEPT !.result = result]
<1>1. c \in Claim
  BY DEF OutboxTypeOK, Claim
<1>2. /\ d0 \in Claim /\ d0.event = c.event /\ d0.attempts = c.attempts
      /\ d0.current = c.current /\ d0.result = result
  BY <1>1 DEF Claim
<1>3. held' = [held EXCEPT ![w] = (held[w] \ {c}) \cup {d0}] /\ held \in [Relay -> SUBSET Claim]
  BY DEF Handled, OutboxTypeOK, Claim
<1> HIDE DEF d0
<1>4. /\ held' \in [Relay -> SUBSET Claim]
      /\ held'[w] = (held[w] \ {c}) \cup {d0}
      /\ \A v \in Relay : v # w => held'[v] = held[v]
  BY <1>2, <1>3
<1>5. ASSUME NEW e PROVE HeldNow(e)' <=> HeldNow(e)
  <2>1. ASSUME NEW v \in Relay, NEW d \in held[v], d.event = e, d.current PROVE HeldNow(e)'
    <3>1. CASE v = w /\ d = c
      BY <1>2, <1>4, <2>1, <3>1 DEF HeldNow
    <3>2. CASE ~(v = w /\ d = c)
      BY <1>4, <2>1, <3>2 DEF HeldNow
    <3> QED BY <3>1, <3>2
  <2>2. ASSUME NEW v \in Relay, NEW d \in held'[v], d.event = e, d.current PROVE HeldNow(e)
    BY <1>2, <1>4, <2>2 DEF HeldNow
  <2> QED BY <2>1, <2>2 DEF HeldNow
<1>6. ASSUME NEW e PROVE HeldNow(e)' = HeldNow(e)
  BY <1>5 DEF HeldNow
<1> QED BY <1>1, <1>2, <1>4, <1>6

LEMMA HandledKeepsOutbox ==
  ASSUME IInv, NEW w \in Relay, NEW c \in held[w], NEW result \in Dispositions,
         Handled(w, c, result), UNCHANGED outbox, faults' \in {faults, faults + 1}, faults' <= MaxFaults,
         UNCHANGED events, head'.applied \in Nat, head.applied <= head'.applied, head'.applied <= Len(events),
         result = "published" => c.event <= head'.applied,
         result = "retry" => faults' = faults + 1,
         result = "poison" => faults' >= MaxAttempts \/ events[c.event] = "completed"
  PROVE  OutboxTypeOK' /\ EventsExist' /\ PublishedIsApplied' /\ AttemptsArePaid' /\ OnlyRefusedIsGivenUp'
<1> USE Bounds DEF IInv
<1>1. /\ held' \in [Relay -> SUBSET Claim]
      /\ c \in Claim
      /\ \A v \in Relay : \A d \in held'[v] :
           \/ d \in held[v]
           \/ /\ v = w /\ d.event = c.event /\ d.attempts = c.attempts
              /\ d.current = c.current /\ d.result = result
      /\ \A e : HeldNow(e)' = HeldNow(e)
  BY HandledTypes DEF TypeOK
<1>2. faults \in Nat /\ faults' \in Nat /\ faults <= faults' /\ OutboxTypeOK
  BY EventTypes DEF TypeOK
<1>3. OutboxTypeOK'
  BY <1>1, <1>2 DEF OutboxTypeOK, Claim
<1>4. /\ Len(events) \in Nat /\ head.applied \in Nat
      /\ \A e \in Event : outbox[e] \in Row
      /\ \A v \in Relay : \A d \in held[v] : d \in Claim
  BY <1>2, EventTypes DEF OutboxTypeOK, Row, Claim
<1>5. EventsExist'
  BY <1>1 DEF EventsExist
<1>6. PublishedIsApplied'
  <2>1. PublishedMeansApplied'
    <3>1. \A e \in Event : e \in Nat
      BY DEF Event
    <3> QED BY <1>4, <3>1 DEF PublishedIsApplied, PublishedMeansApplied
  <2>2. ASSUME NEW v \in Relay, NEW d \in held'[v], d.result = "published"
        PROVE  d.event <= head'.applied
    BY <1>1, <1>4, <2>2 DEF PublishedIsApplied, Claim, Event
  <2> QED BY <2>1, <2>2 DEF PublishedIsApplied
<1>7. AttemptsArePaid'
  <2>1. ASSUME NEW e \in Event
        PROVE  /\ outbox'[e].attempts <= faults' + 1
               /\ outbox'[e].status \in {"absent", "pending"} => outbox'[e].attempts <= faults'
               /\ outbox'[e].status = "publishing" /\ (outbox'[e].due \/ ~HeldNow(e)')
                    => outbox'[e].attempts <= faults'
    BY <1>1, <1>2, <1>4 DEF AttemptsArePaid, Row
  <2>2. ASSUME NEW v \in Relay, NEW d \in held'[v]
        PROVE  /\ d.attempts <= faults' + 1
               /\ d.current /\ d.result = "retry" /\ outbox'[d.event].status = "publishing"
                    => outbox'[d.event].attempts <= faults'
    <3>1. CASE d \in held[v]
      BY <1>2, <1>4, <3>1 DEF AttemptsArePaid, Claim, Row
    <3>2. CASE d.event = c.event /\ d.attempts = c.attempts /\ d.result = result
      BY <1>1, <1>2, <1>4, <3>2 DEF AttemptsArePaid, Claim, Row
    <3> QED BY <1>1, <3>1, <3>2
  <2> QED BY <2>1, <2>2 DEF AttemptsArePaid
<1>8. OnlyRefusedIsGivenUp'
  BY <1>1, <1>2 DEF OnlyRefusedIsGivenUp
<1> QED BY <1>3, <1>5, <1>6, <1>7, <1>8

(***************************************************************************)
(* The handler.                                                            *)
(***************************************************************************)
LEMMA FailuresKeepInv ==
  ASSUME IInv, NEW w \in Relay, NEW c \in held[w], Keep(HandlerFails(w, c))
  PROVE  IInv'
<1> USE Bounds DEF IInv
<1>1. /\ faults < MaxFaults /\ faults' = faults + 1 /\ faults \in Nat /\ head.applied \in Nat
      /\ UNCHANGED <<outbox, events, head, run>>
  BY EventTypes DEF Keep, HandlerFails, Fault
<1>2. c.attempts <= faults + 1 /\ c.attempts \in Nat
  BY DEF AttemptsArePaid, TypeOK, OutboxTypeOK
<1> DEFINE result == IF c.attempts >= MaxAttempts THEN "poison" ELSE "retry"
<1>3. Handled(w, c, result)
  BY DEF Keep, HandlerFails
<1>4. result \in Dispositions /\ result # "published" /\ (result = "poison" => faults' >= MaxAttempts)
  BY <1>1, <1>2 DEF Dispositions
<1>5. faults' \in {faults, faults + 1} /\ faults' <= MaxFaults /\ head'.applied \in Nat
      /\ head.applied <= head'.applied /\ head'.applied <= Len(events)
  BY <1>1 DEF EventsExist, TypeOK, OutboxTypeOK
<1> HIDE DEF result
<1>6. OutboxTypeOK' /\ EventsExist' /\ PublishedIsApplied' /\ AttemptsArePaid' /\ OnlyRefusedIsGivenUp'
  BY <1>1, <1>3, <1>4, <1>5, HandledKeepsOutbox
<1> QED BY <1>1, <1>6, BookingUntouched

LEMMA ReplaysKeepInv ==
  ASSUME IInv, NEW w \in Relay, NEW c \in held[w], Replay(w, c)
  PROVE  IInv'
<1> USE Bounds DEF IInv
<1> DEFINE result == IF ResultRefused(c.event) THEN "poison" ELSE "published"
<1>1. /\ Handled(w, c, result) /\ c.event <= head.applied
      /\ UNCHANGED <<outbox, faults, events, head, run>>
  BY DEF Replay
<1>2. /\ result \in Dispositions /\ result # "retry"
      /\ result = "poison" => events[c.event] = "completed"
  BY DEF Dispositions, ResultRefused
<1>3. faults' \in {faults, faults + 1} /\ faults' <= MaxFaults /\ head'.applied \in Nat
      /\ head.applied <= head'.applied /\ head'.applied <= Len(events)
  BY <1>1, EventTypes DEF EventsExist, TypeOK, OutboxTypeOK
<1> HIDE DEF result
<1>4. OutboxTypeOK' /\ EventsExist' /\ PublishedIsApplied' /\ AttemptsArePaid' /\ OnlyRefusedIsGivenUp'
  BY <1>1, <1>2, <1>3, HandledKeepsOutbox
<1> QED BY <1>1, <1>4, BookingUntouched

\* The whole chain is applied, or nothing.
LEMMA ChainIsApplied ==
  ASSUME IInv, NEW c \in [event : Nat], c.event > head.applied, c.event <= Len(events)
  PROVE  /\ head.applied + Cardinality(Chain) = Len(events)
         /\ Len(events) \in Chain /\ c.event \in Chain /\ Len(events) \in 1 .. Len(events)
         /\ \A i \in Chain : i \in 1 .. Len(events)
<1> USE DEF IInv
<1>1. Len(events) \in Nat /\ head.applied \in Nat /\ c.event \in Nat
  BY EventTypes
<1>2. Cardinality(Chain) = Len(events) - head.applied
  <2> DEFINE a == head.applied + 1
             b == Len(events)
  <2>1. a \in Int /\ b \in Int
    BY <1>1
  <2> HIDE DEF a, b
  <2>2. Cardinality(a .. b) = IF a > b THEN 0 ELSE b - a + 1
    BY <2>1, FS_Interval
  <2> QED BY <1>1, <2>2 DEF Chain, a, b
<1> QED BY <1>1, <1>2 DEF Chain

\* A claimed run is not in the way of a chain: a chain that would change what
\* it works under is deferred, refused, or takes the claim away.
LEMMA ClaimsSurviveChains ==
  ASSUME IInv, NEW e \in Chain, ~RuntimeDefers, ~ResultRefused(e), Len(events) \in Chain,
         \A i \in Chain : i \in 1 .. Len(events), run.at = "claimed"
  PROVE  events[Len(events)] = "cancelled"
<1> USE DEF IInv
<1>1. head.applied # 0 /\ head.applied \in Nat /\ Len(events) \in Nat
  BY EventTypes DEF ClaimedUnderTheAppliedHead, HeadFollows
<1>2. \A i \in Chain : i # 1 /\ events[i] # "rescheduled" /\ events[i] # "confirmed"
  BY <1>1 DEF Chain, RuntimeDefers, EventsInOrder
<1>3. \A i \in Chain : events[i] \in {"cancelled", "completed"}
  BY <1>2, EventTypes DEF Changes
<1>4. e = Len(events)
  BY <1>3 DEF EventsInOrder
<1> QED BY <1>3, <1>4 DEF ResultRefused

LEMMA ApplicationsKeepInv ==
  ASSUME IInv, NEW w \in Relay, NEW c \in held[w], Apply(w, c)
  PROVE  IInv'
<1> USE Bounds DEF IInv
<1>1. /\ c.event \in Nat /\ c.event \in Event /\ c.event > head.applied /\ c.event <= Len(events)
      /\ Len(events) \in Nat /\ head.applied \in Nat /\ Len(events) <= MaxEvent
      /\ UNCHANGED <<outbox, faults, events>> /\ faults \in 0 .. MaxFaults
  BY EventTypes DEF Apply, EventsExist, TypeOK, OutboxTypeOK, Event
<1>2. /\ head.applied + Cardinality(Chain) = Len(events)
      /\ Len(events) \in Chain /\ c.event \in Chain /\ Len(events) \in 1 .. Len(events)
      /\ \A i \in Chain : i \in 1 .. Len(events)
  <2> DEFINE d == [event |-> c.event]
  <2>1. d \in [event : Nat] /\ d.event = c.event
    BY <1>1
  <2> HIDE DEF d
  <2> QED BY <1>1, <2>1, ChainIsApplied
<1>3. CASE RuntimeDefers \/ ResultRefused(c.event)
  <2>1. UNCHANGED <<head, run>>
    BY <1>3 DEF Apply
  <2>2. PICK result \in {"deferred", "poison"} :
          Handled(w, c, result) /\ (result = "poison" => events[c.event] = "completed")
    BY <1>3 DEF Apply, ResultRefused
  <2>3. result \in Dispositions
    BY DEF Dispositions
  <2>4. head.applied <= head'.applied /\ head'.applied <= Len(events) /\ head'.applied \in Nat
        /\ faults' \in {faults, faults + 1} /\ faults' <= MaxFaults
    BY <1>1, <2>1
  <2>5. OutboxTypeOK' /\ EventsExist' /\ PublishedIsApplied' /\ AttemptsArePaid' /\ OnlyRefusedIsGivenUp'
    BY <1>1, <2>1, <2>2, <2>3, <2>4, HandledKeepsOutbox
  <2> QED BY <1>1, <2>1, <2>5, BookingUntouched
<1>4. CASE ~RuntimeDefers /\ ~ResultRefused(c.event)
  <2>1. /\ Handled(w, c, "published")
        /\ head' = [state |-> BookingState, applied |-> Len(events)]
        /\ run' = RunAfterChain
    BY <1>2, <1>4 DEF Apply
  <2>2. "published" \in Dispositions /\ head'.applied = Len(events) /\ head'.state = BookingState
    BY <2>1 DEF Dispositions
  <2>3. head.applied <= head'.applied /\ head'.applied <= Len(events) /\ head'.applied \in Nat
        /\ faults' \in {faults, faults + 1} /\ faults' <= MaxFaults /\ c.event <= head'.applied
    BY <1>1, <2>2
  <2>4. OutboxTypeOK' /\ EventsExist' /\ PublishedIsApplied' /\ AttemptsArePaid' /\ OnlyRefusedIsGivenUp'
    BY <1>1, <2>1, <2>2, <2>3, HandledKeepsOutbox
  <2> DEFINE last == events[Len(events)]
  <2>5. /\ last \in {"confirmed"} \cup Changes /\ events # << >>
        /\ BookingState = IF last \in {"cancelled", "completed"} THEN last ELSE "confirmed"
    BY <1>2, EventTypes DEF BookingState, TypeOK
  <2>6. TypeOK'
    <3>1. head' \in [state : {"none", "confirmed", "cancelled", "completed"}, applied : 0 .. MaxEvent]
      BY <1>1, <2>1, <2>5 DEF Changes
    <3>2. run' \in [at : {"none", "free", "claimed", "external", "ended", "canceled"}, context : 0 .. MaxEvent]
      BY <2>1 DEF RunAfterChain, TypeOK
    <3> QED BY <1>1, <2>4, <3>1, <3>2 DEF TypeOK
  <2>7. EventsInOrder'
    BY <1>1 DEF EventsInOrder
  <2>8. HeadFollows'
    BY <1>1, <1>2, <2>2, <2>5 DEF HeadFollows, Changes
  <2>9. ClaimedUnderTheAppliedHead'
    <3>1. last = "cancelled" => run'.at \in {"none", "ended", "canceled"}
      BY <1>2, <2>1, <2>5 DEF RunAfterChain, TypeOK
    <3>2. run'.at # "claimed"
      <4>1. CASE run.at = "claimed"
        <5>1. last = "cancelled"
          BY <1>2, <1>4, <4>1, ClaimsSurviveChains
        <5> QED BY <3>1, <5>1
      <4>2. CASE run.at # "claimed"
        BY <2>1, <4>2 DEF RunAfterChain, TypeOK
      <4> QED BY <4>1, <4>2
    <3> QED BY <2>2, <2>5, <3>1, <3>2 DEF ClaimedUnderTheAppliedHead
  <2> QED BY <2>4, <2>6, <2>7, <2>8, <2>9
<1> QED BY <1>3, <1>4

(***************************************************************************)
(* Settlements, deaths and time.                                           *)
(***************************************************************************)
LEMMA SettlementsKeepInv ==
  ASSUME IInv, NEW w \in Relay, NEW c \in held[w], Keep(Settle(w, c))
  PROVE  IInv'
<1> USE Bounds DEF IInv
<1> DEFINE row == outbox[c.event]
           live == /\ row.status = "publishing" /\ c.current
                   /\ c.result = "deferred" => row.attempts > 0
<1>1. /\ UNCHANGED <<faults, events, head, run>> /\ c.result # "none"
      /\ held' = [held EXCEPT ![w] = @ \ {c}]
      /\ outbox' = IF live THEN [outbox EXCEPT ![c.event] = Disposed(row, c.result)] ELSE outbox
  BY DEF Keep, Settle
<1>2. /\ OutboxTypeOK /\ faults \in Nat /\ head.applied \in Nat /\ c \in Claim /\ c.event \in Event
      /\ held \in [Relay -> SUBSET Claim] /\ outbox \in [Event -> Row] /\ row \in Row
  BY EventTypes DEF TypeOK, OutboxTypeOK, Claim, Row
<1>3. /\ held' \in [Relay -> SUBSET Claim]
      /\ \A v \in Relay : held'[v] \subseteq held[v] /\ (v # w => held'[v] = held[v])
      /\ held'[w] = held[w] \ {c}
  BY <1>1, <1>2
<1>4. \A e : HeldNow(e) /\ (e # c.event \/ ~c.current) => HeldNow(e)'
  BY <1>3 DEF HeldNow
<1>5. live => /\ Disposed(row, c.result) \in Row
              /\ Disposed(row, c.result).status
                   \in (IF c.result = "published" THEN {"published"}
                        ELSE IF c.result = "poison" THEN {"quarantined"} ELSE {"pending"})
              /\ Disposed(row, c.result).attempts <= row.attempts
              /\ c.result = "deferred" => Disposed(row, c.result).attempts <= row.attempts - 1
  BY <1>2 DEF Disposed, Row
<1>6. /\ outbox' \in [Event -> Row]
      /\ \A e \in Event : e # c.event => outbox'[e] = outbox[e]
      /\ live => outbox'[c.event] = Disposed(row, c.result)
      /\ ~live => outbox'[c.event] = row
  BY <1>1, <1>2, <1>5
<1>7. OutboxTypeOK'
  BY <1>1, <1>2, <1>3, <1>6 DEF OutboxTypeOK, Claim, Row
<1> HIDE DEF row
<1>8. EventsExist'
  <2>1. ASSUME NEW e \in Event, outbox'[e].status # "absent" PROVE e <= Len(events)
    BY <1>2, <1>6, <2>1, row = outbox[c.event] DEF EventsExist, row
  <2> QED BY <1>1, <1>3, <2>1 DEF EventsExist
<1>9. PublishedIsApplied'
  <2>1. ASSUME NEW e \in Event, outbox'[e].status = "published" PROVE e <= head.applied
    <3>1. CASE outbox'[e] = outbox[e]
      BY <2>1, <3>1 DEF PublishedIsApplied, PublishedMeansApplied
    <3>2. CASE e = c.event /\ live
      BY <1>5, <1>6, <2>1, <3>2 DEF PublishedIsApplied
    <3> QED BY <1>6, <3>1, <3>2 DEF row
  <2> QED BY <1>1, <1>3, <2>1 DEF PublishedIsApplied, PublishedMeansApplied
<1>10. AttemptsArePaid'
  <2>1. ASSUME NEW e \in Event
        PROVE  /\ outbox'[e].attempts <= faults + 1
               /\ outbox'[e].status \in {"absent", "pending"} => outbox'[e].attempts <= faults
               /\ outbox'[e].status = "publishing" /\ (outbox'[e].due \/ ~HeldNow(e)')
                    => outbox'[e].attempts <= faults
    <3>1. CASE e # c.event
      BY <1>4, <1>6, <3>1 DEF AttemptsArePaid
    <3>2. CASE e = c.event /\ live
      <4>1. row.attempts \in Nat /\ row.attempts <= faults + 1 /\ row.status = "publishing" /\ c.current
        BY <1>2, <3>2 DEF AttemptsArePaid, row, Row
      <4>2. c.result = "retry" => row.attempts <= faults
        BY <1>2, <4>1 DEF AttemptsArePaid, row
      <4>3. c.result \in {"published", "deferred", "retry", "poison"}
        BY <1>1, <1>2 DEF Claim, Dispositions
      <4>4. outbox'[e] = Disposed(row, c.result) /\ outbox'[e].attempts \in Nat
        BY <1>6, <3>2 DEF Row
      <4> QED BY <1>2, <1>5, <3>2, <4>1, <4>2, <4>3, <4>4
    <3>3. CASE e = c.event /\ ~live
      <4>1. row.attempts \in Nat
        BY <1>2 DEF Row
      <4>2. row.status = "publishing" /\ c.current => row.attempts <= faults
        BY <1>2, <3>3, <4>1
      <4> QED BY <1>4, <1>6, <3>3, <4>2 DEF AttemptsArePaid, row
    <3> QED BY <3>1, <3>2, <3>3
  <2>2. ASSUME NEW v \in Relay, NEW d \in held'[v]
        PROVE  /\ d.attempts <= faults + 1
               /\ d.current /\ d.result = "retry" /\ outbox'[d.event].status = "publishing"
                    => outbox'[d.event].attempts <= faults
    <3>1. d \in held[v] /\ d.event \in Event
      BY <1>2, <1>3 DEF Claim
    <3>2. outbox'[d.event].status = "publishing" => outbox'[d.event] = outbox[d.event]
      BY <1>5, <1>6, <3>1 DEF row
    <3> QED BY <3>1, <3>2 DEF AttemptsArePaid
  <2> QED BY <1>1, <2>1, <2>2 DEF AttemptsArePaid
<1>11. OnlyRefusedIsGivenUp'
  <2>1. ASSUME faults < MaxAttempts, NEW e \in Event, outbox'[e].status = "quarantined"
        PROVE  events[e] = "completed"
    <3>1. CASE outbox'[e] = outbox[e]
      BY <2>1, <3>1 DEF OnlyRefusedIsGivenUp
    <3>2. CASE e = c.event /\ live
      BY <1>5, <1>6, <2>1, <3>2 DEF OnlyRefusedIsGivenUp
    <3> QED BY <1>6, <3>1, <3>2 DEF row
  <2> QED BY <1>1, <1>3, <2>1 DEF OnlyRefusedIsGivenUp
<1> QED BY <1>1, <1>7, <1>8, <1>9, <1>10, <1>11, BookingUntouched

LEMMA DeathsKeepInv ==
  ASSUME IInv, NEW w \in Relay, Keep(RelayDies(w))
  PROVE  IInv'
<1> USE Bounds DEF IInv
<1>1. /\ UNCHANGED <<outbox, events, head, run>> /\ faults' = faults + 1 /\ faults < MaxFaults
      /\ held' = [held EXCEPT ![w] = {}] /\ faults \in Nat
  BY EventTypes DEF Keep, RelayDies, Fault
<1>2. /\ OutboxTypeOK /\ held \in [Relay -> SUBSET Claim] /\ outbox \in [Event -> Row]
  BY DEF TypeOK, OutboxTypeOK, Claim, Row
<1>3. held' \in [Relay -> SUBSET Claim] /\ \A v \in Relay : held'[v] \subseteq held[v]
  BY <1>1, <1>2
<1>4. OutboxTypeOK'
  BY <1>1, <1>2, <1>3 DEF OutboxTypeOK, Claim, Row
<1>5. EventsExist' /\ PublishedIsApplied'
  BY <1>1, <1>3 DEF EventsExist, PublishedIsApplied, PublishedMeansApplied
<1>6. AttemptsArePaid'
  <2>1. \A e \in Event : outbox[e].attempts \in Nat
    BY <1>2 DEF Row
  <2>2. \A v \in Relay : \A d \in held'[v] :
          d \in held[v] /\ d.attempts \in Nat /\ outbox[d.event].attempts \in Nat
          /\ outbox[d.event].attempts <= faults + 1
    BY <1>2, <1>3, <2>1 DEF Claim, AttemptsArePaid
  <2> QED BY <1>1, <2>1, <2>2 DEF AttemptsArePaid
<1>7. OnlyRefusedIsGivenUp'
  BY <1>1, <1>3 DEF OnlyRefusedIsGivenUp
<1> QED BY <1>1, <1>4, <1>5, <1>6, <1>7, BookingUntouched

LEMMA TimeKeepsInv ==
  ASSUME IInv, NEW e \in Event, Keep(BecomesDue(e))
  PROVE  IInv'
<1> USE Bounds DEF IInv
<1>1. /\ UNCHANGED <<held, events, head, run>> /\ outbox' = [outbox EXCEPT ![e].due = TRUE]
      /\ outbox[e].status \in {"pending", "publishing"}
      /\ IF outbox[e].status = "publishing" /\ HeldNow(e)
           THEN faults < MaxFaults /\ faults' = faults + 1 ELSE faults' = faults
  BY DEF Keep, BecomesDue, Fault
<1>2. /\ OutboxTypeOK /\ faults \in 0 .. MaxFaults /\ held \in [Relay -> SUBSET Claim]
      /\ outbox \in [Event -> Row]
  BY DEF TypeOK, OutboxTypeOK, Claim, Row
<1>3. /\ outbox' \in [Event -> Row]
      /\ \A x \in Event : /\ outbox'[x].status = outbox[x].status
                          /\ outbox'[x].attempts = outbox[x].attempts
                          /\ x # e => outbox'[x] = outbox[x]
  BY <1>1, <1>2 DEF Row
<1>4. faults' \in 0 .. MaxFaults /\ faults <= faults'
  BY <1>1, <1>2
<1>5. OutboxTypeOK'
  BY <1>1, <1>2, <1>3, <1>4 DEF OutboxTypeOK, Claim, Row
<1>6. EventsExist' /\ PublishedIsApplied'
  BY <1>1, <1>3 DEF EventsExist, PublishedIsApplied, PublishedMeansApplied
<1>7. AttemptsArePaid'
  <2>1. \A x : HeldNow(x)' = HeldNow(x)
    BY <1>1 DEF HeldNow
  <2>2. \A x \in Event : outbox[x].attempts \in Nat
    BY <1>2 DEF Row
  <2>3. ASSUME NEW x \in Event
        PROVE  /\ outbox'[x].attempts <= faults' + 1
               /\ outbox'[x].status \in {"absent", "pending"} => outbox'[x].attempts <= faults'
               /\ outbox'[x].status = "publishing" /\ (outbox'[x].due \/ ~HeldNow(x)')
                    => outbox'[x].attempts <= faults'
    <3>1. CASE x # e
      BY <1>2, <1>3, <1>4, <2>1, <2>2, <3>1 DEF AttemptsArePaid
    <3>2. CASE x = e
      BY <1>1, <1>2, <1>3, <1>4, <2>2, <3>2 DEF AttemptsArePaid
    <3> QED BY <3>1, <3>2
  <2>4. ASSUME NEW v \in Relay, NEW d \in held[v]
        PROVE  /\ d.attempts <= faults' + 1
               /\ d.current /\ d.result = "retry" /\ outbox'[d.event].status = "publishing"
                    => outbox'[d.event].attempts <= faults'
    <3>1. d.event \in Event /\ d.attempts \in Nat /\ faults \in Nat /\ faults' \in Nat
      BY <1>2, <1>4 DEF Claim
    <3>2. d.attempts <= faults + 1
      BY DEF AttemptsArePaid
    <3>3. d.current /\ d.result = "retry" /\ outbox[d.event].status = "publishing"
            => outbox[d.event].attempts <= faults
      BY DEF AttemptsArePaid
    <3> QED BY <1>3, <1>4, <2>2, <3>1, <3>2, <3>3
  <2> QED BY <1>1, <2>3, <2>4 DEF AttemptsArePaid
<1>8. OnlyRefusedIsGivenUp'
  BY <1>1, <1>2, <1>3, <1>4 DEF OnlyRefusedIsGivenUp
<1> QED BY <1>1, <1>5, <1>6, <1>7, <1>8, BookingUntouched

(***************************************************************************)
(* Claims.                                                                 *)
(***************************************************************************)
\* What is claimed is due and has attempts left; what is given up has not.
LEMMA ClaimableIsDue ==
  /\ Claimable \subseteq Due /\ Exhausted \subseteq Due /\ Due \subseteq Event
  /\ \A e \in Claimable : outbox[e].attempts < MaxAttempts
  /\ \A e \in Exhausted : outbox[e].attempts >= MaxAttempts
  /\ \A e \in Due : outbox[e].due /\ outbox[e].status \in {"pending", "publishing"}
  BY DEF Claimable, Exhausted, Due, Oldest

LEMMA ClaimsKeepInv ==
  ASSUME IInv, NEW w \in Relay, Keep(ClaimBatch(w))
  PROVE  IInv'
<1> USE Bounds DEF IInv
<1>1. /\ UNCHANGED <<faults, events, head, run>> /\ held[w] = {}
      /\ outbox' = [e \in Event |->
           CASE e \in Exhausted -> [status |-> "quarantined", due |-> FALSE,
                                    attempts |-> outbox[e].attempts]
             [] e \in Claimable -> [status |-> "publishing", due |-> FALSE,
                                    attempts |-> outbox[e].attempts + 1]
             [] OTHER           -> outbox[e]]
      /\ held' = [v \in Relay |->
           IF v = w THEN {Claimed(e, outbox[e].attempts + 1) : e \in Claimable}
           ELSE {IF c.event \in Claimable THEN [c EXCEPT !.current = FALSE] ELSE c : c \in held[v]}]
  BY DEF Keep, ClaimBatch
<1>2. /\ OutboxTypeOK /\ faults \in 0 .. MaxFaults /\ held \in [Relay -> SUBSET Claim]
      /\ outbox \in [Event -> Row]
  BY DEF TypeOK, OutboxTypeOK, Claim, Row
<1>3. \A e \in Due : outbox[e].attempts \in Nat /\ outbox[e].attempts <= faults
  BY <1>2, ClaimableIsDue DEF AttemptsArePaid, Row
<1>4. \A e \in Exhausted : e \notin Claimable
  BY <1>3, ClaimableIsDue
<1>5. /\ \A e \in Exhausted : outbox'[e] = [status |-> "quarantined", due |-> FALSE,
                                            attempts |-> outbox[e].attempts]
      /\ \A e \in Claimable : outbox'[e] = [status |-> "publishing", due |-> FALSE,
                                            attempts |-> outbox[e].attempts + 1]
      /\ \A e \in Event : e \notin Exhausted /\ e \notin Claimable => outbox'[e] = outbox[e]
  <2> HIDE DEF IInv
  <2> QED BY <1>1, <1>4, ClaimableIsDue
<1>5a. \A e \in Exhausted : /\ outbox'[e].status = "quarantined" /\ ~outbox'[e].due
                              /\ outbox'[e].attempts = outbox[e].attempts
  <2> SUFFICES ASSUME NEW e \in Exhausted
               PROVE  /\ outbox'[e].status = "quarantined" /\ ~outbox'[e].due
                      /\ outbox'[e].attempts = outbox[e].attempts
    OBVIOUS
  <2>1. outbox'[e] = [status |-> "quarantined", due |-> FALSE, attempts |-> outbox[e].attempts]
    BY <1>5
  <2> QED BY <2>1
<1>5b. \A e \in Claimable : /\ outbox'[e].status = "publishing" /\ ~outbox'[e].due
                              /\ outbox'[e].attempts = outbox[e].attempts + 1
  <2> SUFFICES ASSUME NEW e \in Claimable
               PROVE  /\ outbox'[e].status = "publishing" /\ ~outbox'[e].due
                      /\ outbox'[e].attempts = outbox[e].attempts + 1
    OBVIOUS
  <2>1. outbox'[e] = [status |-> "publishing", due |-> FALSE, attempts |-> outbox[e].attempts + 1]
    BY <1>5
  <2> QED BY <2>1
<1>5c. \A e \in Event : \/ e \in Exhausted \/ e \in Claimable \/ outbox'[e] = outbox[e]
  <2> HIDE DEF IInv
  <2> QED BY <1>5
<1>6. \A d \in held'[w] : \E e \in Claimable :
        /\ d.event = e /\ d.attempts = outbox[e].attempts + 1 /\ d.current = TRUE
        /\ d.result = "none" /\ d = [event |-> e, attempts |-> outbox[e].attempts + 1,
                                     current |-> TRUE, result |-> "none"]
  BY <1>1 DEF Claimed
<1>7. \A e \in Claimable : \E d \in held'[w] : d.event = e /\ d.current
  <2> SUFFICES ASSUME NEW e \in Claimable PROVE \E d \in held'[w] : d.event = e /\ d.current
    OBVIOUS
  <2> DEFINE d0 == Claimed(e, outbox[e].attempts + 1)
  <2>1. d0.event = e /\ d0.current
    BY DEF Claimed
  <2>2. d0 \in held'[w]
    BY <1>1
  <2> QED BY <2>1, <2>2
<1>8. \A v \in Relay : v # w => \A d \in held'[v] : \E c \in held[v] :
        /\ d \in Claim /\ d.event = c.event /\ d.attempts = c.attempts /\ d.result = c.result
        /\ d.current => c.current /\ c.event \notin Claimable
  <2> SUFFICES ASSUME NEW v \in Relay, v # w, NEW d \in held'[v]
               PROVE  \E c \in held[v] :
                        /\ d \in Claim /\ d.event = c.event /\ d.attempts = c.attempts
                        /\ d.result = c.result /\ (d.current => c.current /\ c.event \notin Claimable)
    OBVIOUS
  <2>1. PICK c \in held[v] :
          d = IF c.event \in Claimable THEN [c EXCEPT !.current = FALSE] ELSE c
    BY <1>1
  <2>2. c \in Claim
    BY <1>2
  <2> QED BY <2>1, <2>2 DEF Claim
<1>9. \A v \in Relay : v # w => \A c \in held[v] : c.event \notin Claimable => c \in held'[v]
  BY <1>1
<1>10. OutboxTypeOK'
  <2>1. \A e \in Claimable : outbox[e].attempts + 1 \in 1 .. MaxAttempts
    BY <1>2, <1>3, ClaimableIsDue
  <2>2. outbox' \in [Event -> Row]
    <3>1. ASSUME NEW e \in Event PROVE outbox'[e] \in Row
      <4>1. CASE e \in Claimable
        <5> DEFINE n == outbox[e].attempts + 1
        <5>1. n \in 0 .. MaxAttempts
          BY <2>1, <4>1
        <5>2. outbox'[e] = [status |-> "publishing", due |-> FALSE, attempts |-> n]
          BY <1>5, <4>1
        <5> HIDE DEF n
        <5> QED BY <5>1, <5>2 DEF Row
      <4>2. CASE e \in Exhausted
        <5> DEFINE n == outbox[e].attempts
        <5>1. n \in 0 .. MaxAttempts
          BY <1>2 DEF Row
        <5>2. outbox'[e] = [status |-> "quarantined", due |-> FALSE, attempts |-> n]
          BY <1>5, <4>2
        <5> HIDE DEF n
        <5> QED BY <5>1, <5>2 DEF Row
      <4>3. CASE e \notin Claimable /\ e \notin Exhausted
        BY <1>2, <1>5, <4>3
      <4> QED BY <4>1, <4>2, <4>3
    <3> QED BY <1>1, <3>1
  <2>3. held' \in [Relay -> SUBSET Claim]
    <3>1. ASSUME NEW d \in held'[w] PROVE d \in Claim
      <4>1. PICK e \in Claimable : d = [event |-> e, attempts |-> outbox[e].attempts + 1,
                                        current |-> TRUE, result |-> "none"]
        BY <1>6
      <4> DEFINE n == outbox[e].attempts + 1
      <4>2. n \in 1 .. MaxAttempts /\ e \in Event
        BY <2>1, ClaimableIsDue
      <4>3. d = [event |-> e, attempts |-> n, current |-> TRUE, result |-> "none"]
        BY <4>1
      <4> HIDE DEF n
      <4> QED BY <4>2, <4>3 DEF Claim
    <3>2. \A v \in Relay : held'[v] \subseteq Claim
      BY <1>8, <3>1
    <3> QED BY <1>1, <3>2
  <2> QED BY <1>1, <1>2, <2>2, <2>3 DEF OutboxTypeOK, Claim, Row
<1>11. EventsExist'
  <2>1. ASSUME NEW e \in Event, outbox'[e].status # "absent" PROVE e <= Len(events)
    BY <1>5, <2>1, ClaimableIsDue DEF EventsExist
  <2>2. ASSUME NEW v \in Relay, NEW d \in held'[v] PROVE d.event <= Len(events)
    BY <1>6, <1>8, ClaimableIsDue DEF EventsExist
  <2> QED BY <1>1, <2>1, <2>2 DEF EventsExist
<1>12. PublishedIsApplied'
  <2>1. ASSUME NEW e \in Event, outbox'[e].status = "published" PROVE e <= head.applied
    <3>1. outbox'[e] = outbox[e]
      BY <1>5a, <1>5b, <1>5c, <2>1
    <3> QED BY <2>1, <3>1 DEF PublishedIsApplied, PublishedMeansApplied
  <2>2. ASSUME NEW v \in Relay, NEW d \in held'[v], d.result = "published"
        PROVE  d.event <= head.applied
    BY <1>6, <1>8, <2>2 DEF PublishedIsApplied
  <2> QED BY <1>1, <2>1, <2>2 DEF PublishedIsApplied, PublishedMeansApplied
<1>13. AttemptsArePaid'
  <2>1. ASSUME NEW e \in Event
        PROVE  /\ outbox'[e].attempts <= faults + 1
               /\ outbox'[e].status \in {"absent", "pending"} => outbox'[e].attempts <= faults
               /\ outbox'[e].status = "publishing" /\ (outbox'[e].due \/ ~HeldNow(e)')
                    => outbox'[e].attempts <= faults
    <3>1. CASE e \in Claimable
      <4>1. HeldNow(e)'
        <5>1. PICK d \in held'[w] : d.event = e /\ d.current
          BY <1>7, <3>1
        <5> QED BY <5>1 DEF HeldNow
      <4>2. outbox[e].attempts \in Nat /\ outbox[e].attempts <= faults
        BY <1>3, <3>1, ClaimableIsDue
      <4>3. /\ outbox'[e].status = "publishing" /\ ~outbox'[e].due
            /\ outbox'[e].attempts = outbox[e].attempts + 1
        BY <1>5b, <3>1
      <4>4. faults \in Nat
        BY <1>2
      <4> HIDE DEF IInv
      <4> QED BY <4>1, <4>2, <4>3, <4>4
    <3>2. CASE e \in Exhausted
      BY <1>2, <1>3, <1>5a, <3>2, ClaimableIsDue
    <3>3. CASE e \notin Claimable /\ e \notin Exhausted
      <4>1. HeldNow(e) => HeldNow(e)'
        BY <1>1, <1>9, <3>3 DEF HeldNow
      <4> QED BY <1>5, <3>3, <4>1 DEF AttemptsArePaid
    <3> QED BY <3>1, <3>2, <3>3
  <2>2. ASSUME NEW v \in Relay, NEW d \in held'[v]
        PROVE  /\ d.attempts <= faults + 1
               /\ d.current /\ d.result = "retry" /\ outbox'[d.event].status = "publishing"
                    => outbox'[d.event].attempts <= faults
    <3>1. CASE v = w
      BY <1>2, <1>3, <1>6, <3>1, ClaimableIsDue
    <3>2. CASE v # w
      <4>1. PICK c \in held[v] :
              /\ d.event = c.event /\ d.attempts = c.attempts /\ d.result = c.result
              /\ d.current => c.current /\ c.event \notin Claimable
        BY <1>8, <3>2
      <4>2. c.event \in Event
        BY <1>2 DEF Claim
      <4>3. d.current /\ outbox'[c.event].status = "publishing" => outbox'[c.event] = outbox[c.event]
        BY <1>5a, <1>5c, <4>1, <4>2
      <4> QED BY <4>1, <4>3 DEF AttemptsArePaid
    <3> QED BY <3>1, <3>2
  <2> QED BY <1>1, <2>1, <2>2 DEF AttemptsArePaid
<1>14. OnlyRefusedIsGivenUp'
  <2>1. ASSUME faults < MaxAttempts, NEW e \in Event, outbox'[e].status = "quarantined"
        PROVE  events[e] = "completed"
    <3>1. e \notin Exhausted
      BY <1>2, <1>3, <2>1, ClaimableIsDue
    <3>2. outbox'[e] = outbox[e]
      BY <1>5b, <1>5c, <2>1, <3>1
    <3> QED BY <2>1, <3>2 DEF OnlyRefusedIsGivenUp
  <2>2. ASSUME faults < MaxAttempts, NEW v \in Relay, NEW d \in held'[v], d.result = "poison"
        PROVE  events[d.event] = "completed"
    BY <1>6, <1>8, <2>2 DEF OnlyRefusedIsGivenUp
  <2> QED BY <1>1, <2>1, <2>2 DEF OnlyRefusedIsGivenUp
<1> QED BY <1>1, <1>10, <1>11, <1>12, <1>13, <1>14, BookingUntouched

-------------------------------------------------------------------------------
(***************************************************************************)
(* The theorems.                                                           *)
(***************************************************************************)
LEMMA StutteringKeepsInv == ASSUME IInv, UNCHANGED vars PROVE IInv'
  BY DEF vars, outboxVars, IInv, TypeOK, OutboxTypeOK, EventsExist, PublishedIsApplied,
         PublishedMeansApplied, AttemptsArePaid, OnlyRefusedIsGivenUp, HeldNow, EventsInOrder,
         HeadFollows, ClaimedUnderTheAppliedHead

LEMMA StepKeepsInv == ASSUME IInv, [Next]_vars PROVE IInv'
<1>1. CASE UNCHANGED vars
  BY <1>1, StutteringKeepsInv
<1>2. CASE Confirm \/ Change
  BY <1>2, BookingKeepsInv
<1>3. ASSUME NEW w \in Relay, RelayStep(w) PROVE IInv'
  BY <1>3, ClaimsKeepInv, DeathsKeepInv, ReplaysKeepInv, ApplicationsKeepInv, FailuresKeepInv,
     SettlementsKeepInv DEF RelayStep
<1>4. ASSUME NEW e \in Event, Keep(BecomesDue(e)) PROVE IInv'
  BY <1>4, TimeKeepsInv
<1>5. CASE ClaimRun \/ FinalizeRun \/ RecoverRun \/ ExternalEnds
  BY <1>5, RunStepsKeepInv
<1> QED BY <1>1, <1>2, <1>3, <1>4, <1>5 DEF Next

LEMMA InvHolds == Spec => []IInv
<1>1. Init => IInv
  BY Starts
<1>2. IInv /\ [Next]_vars => IInv'
  BY StepKeepsInv
<1> QED BY <1>1, <1>2, PTL DEF Spec

\* The rows, what relays remember of them, the events, the head and the run keep
\* the types of their tables, for any number of relays, events and attempts.
THEOREM LifecycleTypes == Spec => []TypeOK
<1>1. IInv => TypeOK
  BY DEF IInv
<1> QED BY <1>1, InvHolds, PTL

\* No relay writes markPublished for an event the head has not applied, however
\* claims time out, relays die and events are delivered again.
THEOREM PublishedEventsAreApplied == Spec => []PublishedMeansApplied
<1>1. IInv => PublishedMeansApplied
  BY DEF IInv, PublishedIsApplied
<1> QED BY <1>1, InvHolds, PTL

\* markDeferred takes back the attempt that claimBatch has counted: only faults
\* use up attempts, so fewer faults than attempts never cost an event.
THEOREM DeferralsCostNoAttempt == Spec => []DeferralsAreFree
<1>1. IInv => DeferralsAreFree
  BY DEF IInv, AttemptsArePaid, OnlyRefusedIsGivenUp, DeferralsAreFree
<1> QED BY <1>1, InvHolds, PTL

\* The schedule a claim was made under stays the applied one while it is held:
\* processBookingLifecycleEvent defers, refuses or cancels, and claims wait for
\* the head.
THEOREM ClaimsWorkUnderTheAppliedHead == Spec => []ClaimedUnderTheAppliedHead
<1>1. IInv => ClaimedUnderTheAppliedHead
  BY DEF IInv
<1> QED BY <1>1, InvHolds, PTL
===============================================================================
