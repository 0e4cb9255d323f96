------------------------ MODULE MessagingDeliveryProofs ------------------------
(***************************************************************************)
(* For any number of messages, relays, queue workers, attempts and faults: *)
(* the run that waits for a message is told its first verdict, once, and a *)
(* success only when the provider has the message; and a message goes out  *)
(* twice only for an answer or a worker that was lost.  The first part     *)
(* proves the former, from what the rows and the workers' memory say; the  *)
(* second adds jobs, locks and attempts, and the third the account.        *)
(***************************************************************************)
EXTENDS MessagingDelivery, FiniteSetTheorems, TLAPS

(***************************************************************************)
(* The inductive invariant.  An event is about one message for good, so    *)
(* that a worker that has lost its job still records under the message it  *)
(* has sent; the answer in its memory says what the provider has done.     *)
(***************************************************************************)
Rows == [about : Msg \X {"deliver", "reconcile"}, due : BOOLEAN,
         status : {"pending", "publishing", "published"}]

OutboxOK == outbox \in Seq(Rows)

MessageOK ==
  /\ message \in [Msg -> [status : {"absent", "queued", "sent", "delivered", "read", "failed", "unknown"},
                          known : BOOLEAN, mode : Modes, flow : BOOLEAN]]
  /\ terminal \in [Msg -> {"none", "succeeded", "failed"}]
  /\ copies \in [Msg -> Nat]

IsMemory(r) == r = [at |-> r.at, event |-> r.event, attempt |-> r.attempt,
                    answer |-> r.answer, owns |-> r.owns]

WorkersOK ==
  /\ worker = [p \in Worker |-> worker[p]]
  /\ \A p \in Worker : IsMemory(worker[p]) /\ (worker[p].at # "idle" => worker[p].event \in Event)

SentMeansDelivered ==
  \A p \in Worker : worker[p].at = "answered" /\ worker[p].answer = "sent"
                    => copies[MsgOf(worker[p].event)] > 0

RowsOK == OutboxOK /\ MessageOK /\ WorkersOK

IInv == RowsOK /\ SentMeansDelivered /\ TerminalMatchesVerdict

\* Events are only ever added, and stay about what they are about.
EventsStay ==
  /\ outbox' \in Seq(Rows)
  /\ \A e \in Event : e \in DOMAIN outbox' /\ outbox'[e].about = outbox[e].about

LEMMA InvStarts == Init => IInv
<1> SUFFICES ASSUME Init PROVE IInv
  OBVIOUS
<1> USE DEF Init, IdleWorker
<1>1. OutboxOK
  BY DEF RelayInit, OutboxOK
<1>2. MessageOK
  BY DEF MessageOK
<1>3. WorkersOK
  BY DEF WorkersOK, IsMemory
<1>4. SentMeansDelivered
  BY DEF SentMeansDelivered
<1>5. TerminalMatchesVerdict
  <2>1. \A m \in Msg : message[m].status = "absent" /\ message[m].known = FALSE /\ terminal[m] = "none"
    OBVIOUS
  <2> QED BY <2>1 DEF TerminalMatchesVerdict, Settled
<1> QED BY <1>1, <1>2, <1>3, <1>4, <1>5 DEF IInv, RowsOK

(***************************************************************************)
(* What the steps do to the outbox.                                        *)
(***************************************************************************)
LEMMA RequestsKeepEvents ==
  ASSUME OutboxOK, NEW m \in Msg, NEW kind \in {"deliver", "reconcile"}, Request(m, kind)
  PROVE  EventsStay
<1>1. CASE Requested(m, kind)
  BY <1>1 DEF OutboxOK, EventsStay, Request, Event
<1>2. CASE ~Requested(m, kind)
  <2>1. Row(<<m, kind>>) \in Rows
    BY DEF Row, Rows
  <2>2. outbox' = Append(outbox, Row(<<m, kind>>))
    BY <1>2 DEF Request
  <2> QED BY <2>1, <2>2 DEF OutboxOK, EventsStay, Event
<1> QED BY <1>1, <1>2

LEMMA RelaysKeepEvents ==
  ASSUME OutboxOK,
         \/ UNCHANGED outbox
         \/ \E w \in Relay : ClaimPending(w)
         \/ \E w \in Relay : \E c \in held[w] : Settle(w, c)
         \/ \E e \in Event : BecomesDue(e)
  PROVE  EventsStay
<1> USE DEF EventsStay, Event
<1>0. outbox \in [1 .. Len(outbox) -> Rows] /\ Len(outbox) \in Nat
  BY DEF OutboxOK
<1>1. ASSUME outbox' \in [1 .. Len(outbox) -> Rows],
             \A e \in Event : outbox'[e].about = outbox[e].about
      PROVE  EventsStay
  BY <1>0, <1>1
<1>2. CASE UNCHANGED outbox
  BY <1>0, <1>1, <1>2
<1>3. ASSUME NEW w \in Relay, ClaimPending(w) PROVE EventsStay
  <2> DEFINE r(e) == IF e \in Claimable
                       THEN [about |-> outbox[e].about, status |-> "publishing", due |-> FALSE]
                       ELSE outbox[e]
  <2>1. outbox' = [e \in Event |-> r(e)]
    BY <1>3 DEF ClaimPending
  <2>2. \A e \in Event : r(e) \in Rows /\ r(e).about = outbox[e].about
    BY <1>0 DEF Rows
  <2> HIDE DEF r
  <2> QED BY <1>0, <1>1, <2>1, <2>2
<1>4. ASSUME NEW w \in Relay, NEW c \in held[w], Settle(w, c) PROVE EventsStay
  <2> DEFINE s == IF c.result = "failed" THEN "pending" ELSE "published"
  <2>1. UNCHANGED outbox \/ outbox' = [outbox EXCEPT ![c.event].status = s]
    BY <1>4 DEF Settle
  <2>2. s \in {"pending", "published"}
    OBVIOUS
  <2> HIDE DEF s
  <2>3. CASE outbox' = [outbox EXCEPT ![c.event].status = s]
    <3>1. \A e \in Event : outbox'[e] \in Rows /\ outbox'[e].about = outbox[e].about
      BY <1>0, <2>2, <2>3 DEF Rows
    <3>2. outbox' = [e \in 1 .. Len(outbox) |-> outbox'[e]]
      BY <1>0, <2>3
    <3> QED BY <1>0, <1>1, <3>1, <3>2
  <2> QED BY <1>2, <2>1, <2>3
<1>5. ASSUME NEW e \in Event, BecomesDue(e) PROVE EventsStay
  <2>1. outbox' = [outbox EXCEPT ![e].due = TRUE]
    BY <1>5 DEF BecomesDue
  <2>2. \A d \in Event : outbox'[d] \in Rows /\ outbox'[d].about = outbox[d].about
    BY <1>0, <2>1 DEF Rows
  <2>3. outbox' = [d \in 1 .. Len(outbox) |-> outbox'[d]]
    BY <1>0, <2>1
  <2> QED BY <1>0, <1>1, <2>2, <2>3
<1> QED BY <1>2, <1>3, <1>4, <1>5

(***************************************************************************)
(* What the steps do to the workers' memory.                               *)
(***************************************************************************)
LEMMA EventsAreAboutMessages ==
  ASSUME OutboxOK, NEW e \in Event
  PROVE  MsgOf(e) \in Msg /\ outbox[e].about[2] \in {"deliver", "reconcile"}
<1>1. outbox[e] \in Rows
  BY DEF OutboxOK, Event
<1> QED BY <1>1 DEF Rows, MsgOf

\* The provider's deliveries are only ever counted up.
Delivered == copies' \in [Msg -> Nat] /\ \A m \in Msg : copies'[m] >= copies[m]

LEMMA MemoryStays ==
  ASSUME RowsOK, SentMeansDelivered, EventsStay, Delivered, UNCHANGED worker
  PROVE  WorkersOK' /\ SentMeansDelivered'
<1> USE DEF RowsOK, MessageOK, EventsStay
<1>1. WorkersOK'
  BY DEF WorkersOK, Event
<1>2. ASSUME NEW p \in Worker, worker[p].at = "answered", worker[p].answer = "sent"
      PROVE  copies'[MsgOf(worker[p].event)'] > 0
  <2>1. worker[p].event \in Event
    BY <1>2 DEF WorkersOK
  <2>2. MsgOf(worker[p].event) \in Msg
    BY <2>1, EventsAreAboutMessages
  <2>3. MsgOf(worker[p].event)' = MsgOf(worker[p].event)
    BY <2>1 DEF MsgOf
  <2>4. copies[MsgOf(worker[p].event)] > 0
    BY <1>2 DEF SentMeansDelivered
  <2> QED BY <2>2, <2>3, <2>4 DEF Delivered
<1> QED BY <1>1, <1>2 DEF SentMeansDelivered

\* One worker gets a new memory.
LEMMA MemoryChanges ==
  ASSUME RowsOK, SentMeansDelivered, Delivered, EventsStay,
         NEW p \in Worker, NEW r, worker' = [worker EXCEPT ![p] = r],
         IsMemory(r), r.at # "idle" => r.event \in Event,
         r.at = "answered" /\ r.answer = "sent" => copies'[MsgOf(r.event)] > 0
  PROVE  WorkersOK' /\ SentMeansDelivered'
<1> USE DEF RowsOK, MessageOK
<1>1. \A q \in Worker : worker'[q] = IF q = p THEN r ELSE worker[q]
  BY DEF WorkersOK
<1>2. worker' = [q \in Worker |-> worker'[q]]
  BY DEF WorkersOK
<1>3. \A e \in Event : e \in Event' /\ MsgOf(e)' = MsgOf(e)
  BY DEF EventsStay, Event, MsgOf
<1>4. WorkersOK'
  <2>1. \A q \in Worker : IsMemory(worker'[q]) /\ (worker'[q].at # "idle" => worker'[q].event \in Event')
    BY <1>1, <1>3 DEF WorkersOK
  <2> QED BY <1>2, <2>1 DEF WorkersOK, IsMemory
<1>5. ASSUME NEW q \in Worker, worker'[q].at = "answered", worker'[q].answer = "sent"
      PROVE  copies'[MsgOf(worker[q].event)'] > 0
  <2>1. CASE q = p
    <3>1. worker'[q] = r /\ r.event \in Event
      BY <1>1, <1>5, <2>1
    <3>2. MsgOf(worker[q].event)' = MsgOf(r.event)
      BY <1>3, <3>1 DEF MsgOf
    <3> QED BY <1>5, <3>1, <3>2
  <2>2. CASE q # p
    <3>1. worker'[q] = worker[q]
      BY <1>1, <2>2
    <3>2. worker[q].event \in Event /\ copies[MsgOf(worker[q].event)] > 0
      BY <1>5, <3>1 DEF WorkersOK, SentMeansDelivered
    <3>3. MsgOf(worker[q].event) \in Msg
      BY <3>2, EventsAreAboutMessages
    <3>4. MsgOf(worker[q].event)' = MsgOf(worker[q].event)
      BY <1>3, <3>1, <3>2 DEF MsgOf
    <3> QED BY <3>2, <3>3, <3>4 DEF Delivered
  <2> QED BY <2>1, <2>2
<1> QED BY <1>4, <1>5 DEF SentMeansDelivered

\* A worker that becomes idle, or has thrown or returned, keeps no answer.
LEMMA MemoryFades ==
  ASSUME RowsOK, SentMeansDelivered, EventsStay, UNCHANGED copies,
         NEW p \in Worker, NEW r, worker' = [worker EXCEPT ![p] = r],
         IsMemory(r), r.at \in {"idle", "ended"}, r.at = "ended" => r.event \in Event
  PROVE  WorkersOK' /\ SentMeansDelivered'
<1>1. Delivered
  BY DEF Delivered, RowsOK, MessageOK
<1> QED BY <1>1, MemoryChanges

LEMMA FieldsChange ==
  ASSUME NEW w, NEW at, NEW how, NEW owns, IsMemory(w)
  PROVE  /\ [[w EXCEPT !.at = at] EXCEPT !.answer = how]
              = [at |-> at, event |-> w.event, attempt |-> w.attempt, answer |-> how, owns |-> w.owns]
         /\ [w EXCEPT !.owns = owns]
              = [at |-> w.at, event |-> w.event, attempt |-> w.attempt, answer |-> w.answer, owns |-> owns]
<1>1. PICK a, b, c, d, e : w = [at |-> a, event |-> b, attempt |-> c, answer |-> d, owns |-> e]
  BY DEF IsMemory
<1>2. a = w.at /\ b = w.event /\ c = w.attempt /\ d = w.answer /\ e = w.owns
  BY <1>1
<1> DEFINE v == [w EXCEPT !.at = at]
<1>3. v = [at |-> at, event |-> b, attempt |-> c, answer |-> d, owns |-> e]
  BY <1>1
<1>4. [w EXCEPT !.owns = owns] = [at |-> a, event |-> b, attempt |-> c, answer |-> d, owns |-> owns]
  BY <1>1
<1> HIDE DEF v
<1>5. [v EXCEPT !.answer = how] = [at |-> at, event |-> b, attempt |-> c, answer |-> how, owns |-> e]
  BY <1>3
<1> QED BY <1>2, <1>4, <1>5, Zenon DEF v

LEMMA TwoFieldsChange ==
  ASSUME WorkersOK, NEW p \in Worker, NEW at, NEW how
  PROVE  [worker EXCEPT ![p].at = at, ![p].answer = how]
           = [worker EXCEPT ![p] = [at |-> at, event |-> worker[p].event, attempt |-> worker[p].attempt,
                                    answer |-> how, owns |-> worker[p].owns]]
<1>1. worker = [q \in Worker |-> worker[q]]
  BY DEF WorkersOK
<1>2. [worker EXCEPT ![p].at = at, ![p].answer = how]
        = [worker EXCEPT ![p] = [[worker[p] EXCEPT !.at = at] EXCEPT !.answer = how]]
  BY <1>1
<1>3. IsMemory(worker[p])
  BY DEF WorkersOK
<1>4. [[worker[p] EXCEPT !.at = at] EXCEPT !.answer = how]
        = [at |-> at, event |-> worker[p].event, attempt |-> worker[p].attempt,
           answer |-> how, owns |-> worker[p].owns]
  BY <1>3, FieldsChange, Zenon
<1> QED BY <1>2, <1>4

LEMMA EndedIsMemory ==
  ASSUME WorkersOK, NEW p \in Worker, worker[p].at # "idle", NEW how, Ended(p, how)
  PROVE  \E r : /\ worker' = [worker EXCEPT ![p] = r] /\ IsMemory(r)
                /\ r.at = "ended" /\ r.event \in Event
<1> DEFINE r == [at |-> "ended", event |-> worker[p].event, attempt |-> worker[p].attempt,
                 answer |-> how, owns |-> worker[p].owns]
<1>1. worker' = [worker EXCEPT ![p] = r]
  BY TwoFieldsChange DEF Ended
<1>2. IsMemory(r) /\ r.at = "ended" /\ r.event \in Event
  BY DEF IsMemory, WorkersOK
<1> QED BY <1>1, <1>2

LEMMA StallsKeepMemory ==
  ASSUME RowsOK, SentMeansDelivered, NEW e \in Event, Stall(e)
  PROVE  WorkersOK' /\ SentMeansDelivered'
<1> USE DEF RowsOK, MessageOK
<1>1. /\ worker' = [p \in Worker |-> IF p \in Owner(e) THEN [worker[p] EXCEPT !.owns = FALSE] ELSE worker[p]]
      /\ UNCHANGED <<outbox, copies>>
  BY DEF Stall, outboxVars, Mishap, Fault
<1>2. \A p \in Worker : IsMemory(worker[p])
  BY DEF WorkersOK
<1>3. ASSUME NEW p \in Worker
      PROVE  /\ worker'[p].at = worker[p].at /\ worker'[p].event = worker[p].event
             /\ worker'[p].answer = worker[p].answer /\ IsMemory(worker'[p])
  <2>1. worker'[p] = worker[p] \/ worker'[p] = [worker[p] EXCEPT !.owns = FALSE]
    BY <1>1
  <2>2. [worker[p] EXCEPT !.owns = FALSE]
          = [at |-> worker[p].at, event |-> worker[p].event, attempt |-> worker[p].attempt,
             answer |-> worker[p].answer, owns |-> FALSE]
    BY <1>2, FieldsChange, Zenon
  <2> QED BY <1>2, <2>1, <2>2 DEF IsMemory
<1>4. worker' = [p \in Worker |-> worker'[p]]
  BY <1>1
<1>5. Event' = Event /\ \A d : MsgOf(d)' = MsgOf(d)
  BY <1>1 DEF Event, MsgOf
<1>6. WorkersOK'
  BY <1>3, <1>4, <1>5 DEF WorkersOK, IsMemory
<1> QED BY <1>1, <1>3, <1>5, <1>6 DEF SentMeansDelivered

(***************************************************************************)
(* Messages, terminal events, and the theorem.                             *)
(***************************************************************************)
LEMMA VerdictsStay ==
  ASSUME MessageOK, TerminalMatchesVerdict, UNCHANGED <<message, terminal>>, Delivered
  PROVE  MessageOK' /\ TerminalMatchesVerdict'
  BY DEF MessageOK, TerminalMatchesVerdict, Settled, Delivered

\* A step that leaves messages, terminal events and memory alone.
LEMMA NothingRecorded ==
  ASSUME IInv, EventsStay, UNCHANGED <<message, terminal, copies, worker>>
  PROVE  IInv'
<1>1. Delivered
  BY DEF IInv, RowsOK, MessageOK, Delivered
<1>2. OutboxOK'
  BY DEF OutboxOK, EventsStay
<1> QED BY <1>1, <1>2, MemoryStays, VerdictsStay DEF IInv, RowsOK

LEMMA CommandsKeepInv ==
  ASSUME IInv, NEW m \in Msg, CreateOutboundMessage(m) \/ RecordStatusReport(m)
  PROVE  IInv'
<1> USE DEF IInv, RowsOK
<1>1. CASE CreateOutboundMessage(m)
  <2>1. EventsStay /\ Delivered /\ UNCHANGED worker
    BY <1>1, RequestsKeepEvents DEF CreateOutboundMessage, Delivered, MessageOK
  <2>2. MessageOK' /\ TerminalMatchesVerdict'
    BY <1>1 DEF CreateOutboundMessage, MessageOK, TerminalMatchesVerdict, Settled
  <2> QED BY <2>1, <2>2, MemoryStays DEF OutboxOK, EventsStay
<1>2. CASE RecordStatusReport(m)
  <2>1. PICK reported \in {"sent", "delivered", "read", "failed"} :
          message' = [message EXCEPT ![m].status = reported]
    BY <1>2 DEF RecordStatusReport
  <2>2. message[m].known /\ UNCHANGED <<outbox, terminal, copies, worker>>
    BY <1>2 DEF RecordStatusReport, outboxVars
  <2>3. EventsStay /\ Delivered
    BY <2>2, RelaysKeepEvents DEF Delivered, MessageOK
  <2>4. MessageOK' /\ TerminalMatchesVerdict'
    BY <2>1, <2>2 DEF MessageOK, TerminalMatchesVerdict, Settled
  <2> QED BY <2>2, <2>3, <2>4, MemoryStays DEF OutboxOK, EventsStay
<1> QED BY <1>1, <1>2

LEMMA RelaysKeepInv ==
  ASSUME IInv, RelayStep \/ \E e \in Event : BecomesDue(e) /\ UNCHANGED deliveryVars
  PROVE  IInv'
<1>1. UNCHANGED <<message, terminal, copies, worker>>
  BY DEF RelayStep, Publish, deliveryVars
<1>2. \/ UNCHANGED outbox
      \/ \E w \in Relay : ClaimPending(w)
      \/ \E w \in Relay : \E c \in held[w] : Settle(w, c)
      \/ \E e \in Event : BecomesDue(e)
  BY DEF RelayStep, Publish, HandOverFails, RelayDies
<1>3. EventsStay
  BY <1>2, RelaysKeepEvents DEF IInv, RowsOK
<1> QED BY <1>1, <1>3, NothingRecorded

\* A job is picked, its lock runs out, it ends or its worker does: nothing is
\* recorded, and nothing is remembered of the provider's answer but by the
\* worker that has it.
LEMMA QueueKeepsInv ==
  ASSUME IInv,
         \/ \E e \in Event : Stall(e) \/ \E p \in Worker : Pick(p, e)
         \/ \E p \in Worker : Throws(p) \/ Finish(p) \/ WorkerDies(p)
  PROVE  IInv'
<1> USE DEF IInv, RowsOK
<1>1. UNCHANGED <<outbox, message, terminal, copies>>
  BY DEF Stall, Pick, Throws, Finish, WorkerDies, outboxVars
<1>2. Delivered /\ EventsStay
  BY <1>1, RelaysKeepEvents DEF Delivered, MessageOK
<1>3. OutboxOK' /\ MessageOK' /\ TerminalMatchesVerdict'
  BY <1>1, <1>2, VerdictsStay DEF OutboxOK
<1>4. CASE UNCHANGED worker
  BY <1>1, <1>2, <1>4, NothingRecorded
<1>5. ASSUME NEW e \in Event, Stall(e) PROVE IInv'
  BY <1>3, <1>5, StallsKeepMemory
<1>6. ASSUME NEW e \in Event, NEW p \in Worker, Pick(p, e) PROVE IInv'
  <2> DEFINE r == [at |-> "loaded", event |-> e, answer |-> "none", attempt |-> job[e].made + 1,
                   owns |-> TRUE]
  <2>1. UNCHANGED worker \/ worker' = [worker EXCEPT ![p] = r]
    BY <1>6 DEF Pick
  <2>2. IsMemory(r) /\ r.at = "loaded" /\ r.event \in Event
    BY DEF IsMemory
  <2> HIDE DEF r
  <2> QED BY <1>1, <1>2, <1>3, <1>4, <2>1, <2>2, MemoryChanges
<1>7. ASSUME NEW p \in Worker, Throws(p) PROVE IInv'
  <2>1. PICK r : worker' = [worker EXCEPT ![p] = r] /\ IsMemory(r) /\ r.at = "ended" /\ r.event \in Event
    BY <1>7, EndedIsMemory DEF Throws
  <2> QED BY <1>1, <1>2, <1>3, <2>1, MemoryFades
<1>8. ASSUME NEW p \in Worker, Finish(p) \/ WorkerDies(p) PROVE IInv'
  <2>1. worker' = [worker EXCEPT ![p] = IdleWorker]
    BY <1>8 DEF Finish, WorkerDies
  <2>2. IsMemory(IdleWorker) /\ IdleWorker.at = "idle"
    BY DEF IsMemory, IdleWorker
  <2> QED BY <1>1, <1>2, <1>3, <2>1, <2>2, MemoryFades
<1> QED BY <1>5, <1>6, <1>7, <1>8

\* An answer that says "sent" comes with a delivery, or with one the provider
\* had made before.
LEMMA SendKeepsInv ==
  ASSUME IInv, NEW p \in Worker, Send(p)
  PROVE  IInv'
<1> DEFINE m == MsgOf(worker[p].event)
<1> USE DEF IInv, RowsOK
<1>1. worker[p].event \in Event /\ m \in Msg
  BY EventsAreAboutMessages DEF Send, WorkersOK
<1>2. PICK delivered \in BOOLEAN, answer \in {"sent", "unknown", "busy", "refused"} :
        /\ answer = "sent" => delivered
        /\ copies' = IF delivered /\ ~DropsDuplicates(m) THEN [copies EXCEPT ![m] = @ + 1] ELSE copies
        /\ worker' = [worker EXCEPT ![p].at = "answered", ![p].answer = answer]
  BY DEF Send
<1>3. UNCHANGED <<outbox, message, terminal>>
  BY DEF Send, outboxVars
<1> DEFINE r == [at |-> "answered", event |-> worker[p].event, attempt |-> worker[p].attempt,
                 answer |-> answer, owns |-> worker[p].owns]
<1>4. worker' = [worker EXCEPT ![p] = r]
  BY <1>2, TwoFieldsChange
<1>5. IsMemory(r) /\ r.event \in Event /\ MsgOf(r.event) = m /\ r.answer = answer
  BY <1>1 DEF IsMemory
<1> HIDE DEF m, r
<1>6. Delivered /\ (answer = "sent" => copies'[m] > 0)
  BY <1>1, <1>2 DEF Delivered, MessageOK, DropsDuplicates
<1>7. WorkersOK' /\ SentMeansDelivered'
  BY <1>3, <1>4, <1>5, <1>6, MemoryChanges, RelaysKeepEvents
<1> QED BY <1>3, <1>6, <1>7, VerdictsStay DEF OutboxOK

\* The one transaction that tells: message, terminal event and reconciliation
\* request, under the status the message has by then.
LEMMA RecordingKeepsInv ==
  ASSUME IInv, NEW p \in Worker, RecordDeliveryAttempt(p)
  PROVE  IInv'
<1> DEFINE m == MsgOf(worker[p].event)
           v == Verdict(p)
<1> USE DEF IInv, RowsOK
<1>1. worker[p].event \in Event /\ m \in Msg /\ worker[p].at = "answered"
  BY EventsAreAboutMessages DEF RecordDeliveryAttempt, WorkersOK
<1>2. v = "sent" => copies[m] > 0
  BY <1>1 DEF Verdict, SentMeansDelivered
<1>3. v \in {"sent", "unknown", "failed", "retry"}
  BY DEF Verdict
<1>4. UNCHANGED copies /\ Delivered
  BY DEF RecordDeliveryAttempt, Delivered, MessageOK
<1>5. UNCHANGED <<message, terminal, outbox>> \/ (v # "retry" /\ Recorded(m, v))
  BY DEF RecordDeliveryAttempt, Recorded
<1>6. \E how : Ended(p, how)
  BY DEF RecordDeliveryAttempt
<1> HIDE DEF m, v
<1>7. EventsStay
  <2>1. UNCHANGED outbox \/ Request(m, "reconcile")
    BY <1>5 DEF Recorded
  <2> QED BY <1>1, <2>1, RequestsKeepEvents, RelaysKeepEvents
<1>8. WorkersOK' /\ SentMeansDelivered'
  <2>1. PICK r : worker' = [worker EXCEPT ![p] = r] /\ IsMemory(r) /\ r.at = "ended" /\ r.event \in Event
    BY <1>1, <1>6, EndedIsMemory
  <2> QED BY <1>4, <1>7, <2>1, MemoryFades
<1>9. MessageOK' /\ TerminalMatchesVerdict'
  <2>1. CASE UNCHANGED <<message, terminal>>
    BY <1>4, <2>1, VerdictsStay
  <2>2. CASE /\ v # "retry" /\ Open(m)
             /\ message' = [message EXCEPT ![m].status = v, ![m].known = v = "sent"]
             /\ terminal' = IF message[m].flow /\ v # "unknown" /\ terminal[m] = "none"
                  THEN [terminal EXCEPT ![m] = IF v = "sent" THEN "succeeded" ELSE "failed"]
                  ELSE terminal
    <3>1. MessageOK'
      BY <1>1, <1>3, <1>4, <2>2 DEF MessageOK
    <3>2. ASSUME NEW n \in Msg, message'[n].flow
          PROVE  /\ Settled(n)' <=> terminal'[n] # "none"
                 /\ message'[n].known <=> terminal'[n] = "succeeded"
                 /\ terminal'[n] = "succeeded" => copies'[n] > 0
      <4>1. CASE n = m
        <5>1. terminal[m] = "none" /\ message[m].flow
          BY <1>1, <2>2, <3>2, <4>1 DEF TerminalMatchesVerdict, Settled, Open, MessageOK
        <5> QED BY <1>1, <1>2, <1>3, <1>4, <2>2, <4>1, <5>1 DEF Settled, MessageOK
      <4>2. CASE n # m
        BY <1>1, <1>4, <2>2, <3>2, <4>2 DEF TerminalMatchesVerdict, Settled, MessageOK
      <4> QED BY <4>1, <4>2
    <3> QED BY <3>1, <3>2 DEF TerminalMatchesVerdict
  <2> QED BY <1>5, <2>1, <2>2 DEF Recorded
<1> QED BY <1>7, <1>8, <1>9 DEF OutboxOK, EventsStay

LEMMA InvKept == IInv /\ [Next]_vars => IInv'
<1> SUFFICES ASSUME IInv, [Next]_vars PROVE IInv'
  OBVIOUS
<1>1. CASE UNCHANGED vars
  <2>1. EventsStay
    BY <1>1, RelaysKeepEvents DEF vars, outboxVars, IInv, RowsOK
  <2> QED BY <1>1, <2>1, NothingRecorded DEF vars, deliveryVars
<1>2. CASE Next
  BY <1>2, CommandsKeepInv, RelaysKeepInv, QueueKeepsInv, SendKeepsInv, RecordingKeepsInv DEF Next
<1> QED BY <1>1, <1>2

\* Every attempt of a message, by the job's worker, by one that has lost the job
\* and by a reconciliation, records under one rule: the run that waits is told
\* the first verdict, once, and a success only when the provider has delivered
\* (recordDeliveryAttempt).
THEOREM TerminalsAreTruthful == Spec => []TerminalMatchesVerdict
<1>1. IInv => TerminalMatchesVerdict
  BY DEF IInv
<1> QED BY <1>1, InvStarts, InvKept, PTL DEF Spec

(***************************************************************************)
(* The second invariant: what the rows, the jobs and the workers are, and  *)
(* the account of the deliveries.  A worker that has lost its job's lock   *)
(* has paid a mishap for the copy it may still add; a job that runs again  *)
(* under an attempt number that is taken will not be recorded, and the     *)
(* mishap of the worker that took the number pays for it.                  *)
(***************************************************************************)
Jobs == [state : {"absent", "waiting", "active", "completed", "failed"},
         made : 0 .. Attempts, stalls : 0 .. MaxStalls + 1]

Memories == [at : {"idle", "loaded", "answered", "ended"}, event : Nat, attempt : 0 .. Attempts,
             owns : BOOLEAN,
             answer : {"none", "sent", "unknown", "busy", "refused", "throws", "returns"}]

TypesOK ==
  /\ attempts \in [Msg -> SUBSET (1 .. Attempts)]
  /\ job \in [EventId -> Jobs]
  /\ worker \in [Worker -> Memories]
  /\ doubts \in [Msg -> Nat] /\ mishaps \in Nat

\* The relays' claims.
Claims == [event : Event, current : BOOLEAN, result : {"none", "added", "failed"}]
HeldOK == held = [w \in Relay |-> held[w]] /\ (\A w \in Relay : held[w] \subseteq Claims)
          /\ faults \in 0 .. MaxFaults

\* One event of a kind per message; a reconciliation is asked for a message that
\* is no longer queued, and a message without events has nothing else.
DeliversOnce == \A d, e \in Event : outbox[d].about = outbox[e].about => d = e

RowsStand ==
  /\ \A e \in Event : /\ message[MsgOf(e)].status # "absent"
                      /\ outbox[e].about[2] = "reconcile" => message[MsgOf(e)].status # "queued"
  /\ \A m \in Msg : /\ message[m].known => message[m].status \notin {"absent", "queued"}
                    /\ message[m].status = "absent" => copies[m] = 0 /\ attempts[m] = {}

Live(j) == j.state \in {"waiting", "active"}

JobsStand ==
  \A e \in EventId : /\ job[e].state = "absent" => job[e].made = 0 /\ job[e].stalls = 0
                     /\ Live(job[e]) => job[e].made < Attempts /\ job[e].stalls <= MaxStalls
                     /\ job[e].state # "absent" => e \in Event

\* The provider of these messages does not recognise one it has.
Plain(m) == message[m].mode # "telegram_mtproto_account"

Busy(p) == worker[p].at # "idle"

WorkerStands(p) ==
  IF ~Busy(p) THEN worker[p].event = 0 ELSE
    /\ worker[p].event \in Event /\ job[worker[p].event].state # "absent"
    /\ worker[p].attempt \in 1 .. job[worker[p].event].made + 1
    /\ worker[p].owns => /\ job[worker[p].event].state = "active"
                         /\ worker[p].attempt = job[worker[p].event].made + 1
    /\ Plain(MsgOf(worker[p].event)) => outbox[worker[p].event].about[2] = "deliver"

Owns(p, e) == Busy(p) /\ worker[p].owns /\ worker[p].event = e

WorkersStand ==
  /\ \A p \in Worker : WorkerStands(p)
  /\ \A p, q \in Worker : \A e \in Event : Owns(p, e) /\ Owns(q, e) => p = q

\* The delivery request of such a message.
Delivers(e) == outbox[e].about[2] = "deliver" /\ Plain(MsgOf(e))

AttemptsStand ==
  \A e \in Event : Delivers(e) =>
    /\ attempts[MsgOf(e)] \subseteq 1 .. job[e].made + 1
    /\ job[e].state = "absent" => attempts[MsgOf(e)] = {}

Base == /\ IInv /\ HeldOK /\ DeliversOnce /\ TypesOK /\ RowsStand /\ JobsStand
        /\ WorkersStand /\ AttemptsStand

(***************************************************************************)
(* Events.                                                                 *)
(***************************************************************************)
Appends(m, kind) == outbox' = Append(outbox, Row(<<m, kind>>)) /\ ~Requested(m, kind)

\* What a step does to the outbox: no event is lost, changed or doubled.
EventsGrow ==
  /\ EventsStay
  /\ Event' = Event \/ \E m \in Msg, kind \in {"deliver", "reconcile"} : Appends(m, kind)

LEMMA RequestsGrow ==
  ASSUME OutboxOK, NEW m \in Msg, NEW kind \in {"deliver", "reconcile"}, Request(m, kind)
  PROVE  EventsStay /\ (UNCHANGED outbox \/ Appends(m, kind))
<1>1. UNCHANGED outbox \/ Appends(m, kind)
  BY DEF Request, Appends
<1> QED BY <1>1, RequestsKeepEvents

LEMMA RelaysGrow ==
  ASSUME OutboxOK,
         \/ UNCHANGED outbox
         \/ \E w \in Relay : ClaimPending(w)
         \/ \E w \in Relay : \E c \in held[w] : Settle(w, c)
         \/ \E e \in Event : BecomesDue(e)
  PROVE  EventsStay /\ Event' = Event
<1>1. EventsStay
  BY RelaysKeepEvents
<1>2. ASSUME NEW w \in Relay, ClaimPending(w) PROVE Event' = Event
  BY <1>2 DEF ClaimPending, Event
<1>3. ASSUME NEW w \in Relay, NEW c \in held[w], Settle(w, c) PROVE Event' = Event
  BY <1>3 DEF Settle, Event
<1>4. ASSUME NEW e \in Event, BecomesDue(e) PROVE Event' = Event
  BY <1>4 DEF BecomesDue, Event
<1> QED BY <1>1, <1>2, <1>3, <1>4 DEF Event

LEMMA AppendGrows ==
  ASSUME OutboxOK, NEW m \in Msg, NEW kind \in {"deliver", "reconcile"}, Appends(m, kind)
  PROVE  /\ Event' = Event \cup {Len(outbox) + 1} /\ Len(outbox) + 1 \notin Event
         /\ outbox'[Len(outbox) + 1] = Row(<<m, kind>>) /\ EventsStay
         /\ Len(outbox) \in Nat /\ Len(outbox') = Len(outbox) + 1
<1>1. Row(<<m, kind>>) \in Rows
  BY DEF Row, Rows
<1>2. outbox \in Seq(Rows) /\ outbox' = Append(outbox, Row(<<m, kind>>))
  BY DEF OutboxOK, Appends
<1>3. Request(m, kind)
  BY DEF Appends, Request
<1> QED BY <1>1, <1>2, <1>3, RequestsKeepEvents DEF Event

LEMMA EventsStayDistinct ==
  ASSUME OutboxOK, DeliversOnce, EventsGrow
  PROVE  DeliversOnce'
<1>1. CASE Event' = Event
  BY <1>1 DEF DeliversOnce, EventsGrow, EventsStay
<1>2. ASSUME NEW m \in Msg, NEW kind \in {"deliver", "reconcile"}, Appends(m, kind)
      PROVE  DeliversOnce'
  <2>1. /\ Event' = Event \cup {Len(outbox) + 1} /\ Len(outbox) + 1 \notin Event
        /\ outbox'[Len(outbox) + 1] = Row(<<m, kind>>) /\ EventsStay
    BY <1>2, AppendGrows
  <2>0. Row(<<m, kind>>).about = <<m, kind>>
    BY DEF Row
  <2>2. \A e \in Event : outbox'[e].about = outbox[e].about /\ outbox[e].about # <<m, kind>>
    BY <1>2, <2>1 DEF Appends, Requested, EventsStay
  <2> QED BY <2>0, <2>1, <2>2 DEF DeliversOnce
<1> QED BY <1>1, <1>2 DEF EventsGrow

LEMMA TwoEventsAMessage ==
  /\ IsFiniteSet(Msg) /\ IsFiniteSet(Worker) /\ Cardinality(Msg) \in Nat
  /\ Cardinality(EventId) = 2 * Cardinality(Msg) /\ EventId = 1 .. 2 * Cardinality(Msg)
  /\ Attempts \in Nat \ {0} /\ MaxStalls \in Nat /\ MaxDoubts \in Nat
<1>1. Cardinality(Msg) \in Nat
  BY DeliveryAssumption, FS_CardinalityType
<1>2. Cardinality(1 .. 2 * Cardinality(Msg)) = 2 * Cardinality(Msg)
  BY <1>1, FS_Interval
<1> QED BY <1>1, <1>2, DeliveryAssumption DEF EventId

\* A message has two events at most, one of a kind.
LEMMA AFewEvents ==
  ASSUME NEW s \in Seq(Rows), \A d, e \in DOMAIN s : s[d].about = s[e].about => d = e
  PROVE  Len(s) <= Cardinality(EventId)
<1> DEFINE Kinds == Msg \X {"deliver", "reconcile"}
<1>1. IsFiniteSet(Kinds) /\ Cardinality(Kinds) = Cardinality(Msg) * 2
  <2>1. IsFiniteSet({"deliver"}) /\ Cardinality({"deliver"}) = 1
    BY FS_Singleton
  <2> DEFINE D == {"deliver"}
  <2>2. IsFiniteSet(D \cup {"reconcile"})
        /\ Cardinality(D \cup {"reconcile"}) = IF "reconcile" \in D THEN Cardinality(D) ELSE Cardinality(D) + 1
    <3> HIDE DEF D
    <3>1. IsFiniteSet(D)
      BY <2>1 DEF D
    <3> QED BY <3>1, FS_AddElement
  <2>4. {"deliver", "reconcile"} = D \cup {"reconcile"} /\ "reconcile" \notin D
    OBVIOUS
  <2>3. IsFiniteSet({"deliver", "reconcile"}) /\ Cardinality({"deliver", "reconcile"}) = 2
    BY <2>1, <2>2, <2>4
  <2> QED BY <2>3, TwoEventsAMessage, FS_Product
<1> DEFINE f == [e \in 1 .. Len(s) |-> s[e].about]
<1>2. f \in Injection(1 .. Len(s), Kinds)
  <2>0. \A e \in 1 .. Len(s) : s[e] \in Rows
    OBVIOUS
  <2>1. f \in [1 .. Len(s) -> Kinds]
    BY <2>0 DEF Rows
  <2>2. \A d, e \in 1 .. Len(s) : f[d] = f[e] => d = e
    OBVIOUS
  <2> HIDE DEF f, Kinds
  <2> QED BY <2>1, <2>2 DEF Injection, IsInjective
<1>3. Cardinality(1 .. Len(s)) = Len(s)
  <2>1. Len(s) \in Nat
    OBVIOUS
  <2> QED BY <2>1, FS_Interval
<1> HIDE DEF f, Kinds
<1> QED BY <1>1, <1>2, <1>3, FS_Injection, TwoEventsAMessage

LEMMA EventsAreIds ==
  ASSUME OutboxOK, DeliversOnce
  PROVE  Event \subseteq EventId /\ Len(outbox) \in Nat /\ Event = 1 .. Len(outbox)
         /\ Len(outbox) <= Cardinality(EventId)
<1>1. Len(outbox) <= Cardinality(EventId)
  BY AFewEvents DEF OutboxOK, DeliversOnce, Event
<1> QED BY <1>1, TwoEventsAMessage DEF OutboxOK, Event

LEMMA ClaimsKept ==
  ASSUME IInv, HeldOK, EventsStay, [Next]_vars
  PROVE  HeldOK'
<1> USE RelayAssumption
<1>0. Event \subseteq Event' /\ \A c \in Claims : c \in Claims'
  BY DEF EventsStay, Event, Claims
<1>1. CASE UNCHANGED held
  <2>1. UNCHANGED faults \/ Fault
    BY DEF Next, vars, outboxVars, CreateOutboundMessage, RecordStatusReport, RelayStep, Publish,
           ClaimPending, HandOverFails, Settle, RelayDies, BecomesDue, Stall, Pick, Send,
           RecordDeliveryAttempt, Throws, Finish, WorkerDies, Mishap
  <2> QED BY <1>0, <1>1, <2>1 DEF HeldOK, Fault
<1>2. ASSUME NEW w \in Relay, NEW h \in SUBSET Claims, held' = [held EXCEPT ![w] = h],
             faults' \in 0 .. MaxFaults
      PROVE  HeldOK'
  BY <1>0, <1>2 DEF HeldOK
<1>3. ASSUME NEW w \in Relay, ClaimPending(w) PROVE HeldOK'
  <2> DEFINE new == {[event |-> e, current |-> TRUE, result |-> "none"] : e \in Claimable}
             old(v) == {IF c.event \in Claimable THEN [c EXCEPT !.current = FALSE] ELSE c : c \in held[v]}
  <2>1. held' = [v \in Relay |-> IF v = w THEN new ELSE old(v)] /\ faults' = faults
    BY <1>3 DEF ClaimPending
  <2>2. new \subseteq Claims
    <3>1. \A e \in Claimable : e \in Event
      BY DEF Claimable, Due
    <3>2. \A e \in Claimable : [event |-> e, current |-> TRUE, result |-> "none"] \in Claims
      BY <3>1 DEF Claims
    <3> QED BY <3>2
  <2>3. \A v \in Relay : old(v) \subseteq Claims
    BY DEF HeldOK, Claims
  <2> HIDE DEF new, old
  <2> QED BY <1>0, <2>1, <2>2, <2>3 DEF HeldOK
<1>4. ASSUME NEW w \in Relay, NEW c \in held[w], Publish(w, c) \/ HandOverFails(w, c) PROVE HeldOK'
  <2>1. PICK result \in {"added", "failed"} :
          held' = [held EXCEPT ![w] = (@ \ {c}) \cup {[c EXCEPT !.result = result]}]
    BY <1>4 DEF Publish, HandOverFails, HandedOver
  <2>2. faults' \in 0 .. MaxFaults
    BY <1>4 DEF Publish, HandOverFails, Fault, HeldOK
  <2> DEFINE h == (held[w] \ {c}) \cup {[c EXCEPT !.result = result]}
  <2>3. h \in SUBSET Claims
    BY DEF HeldOK, Claims
  <2>4. held' = [held EXCEPT ![w] = h]
    BY <2>1 DEF HeldOK
  <2> HIDE DEF h
  <2> QED BY <1>2, <2>2, <2>3, <2>4
<1>5. ASSUME NEW w \in Relay, NEW c \in held[w], Settle(w, c) PROVE HeldOK'
  <2>1. \/ held' = [held EXCEPT ![w] = held[w] \ {c}]
        \/ held' = [held EXCEPT ![w] = {}]
    BY <1>5 DEF Settle, HeldOK
  <2>2. faults' \in 0 .. MaxFaults
    BY <1>5 DEF Settle, HeldOK
  <2> QED BY <1>2, <2>1, <2>2 DEF HeldOK
<1>6. ASSUME NEW w \in Relay, RelayDies(w) PROVE HeldOK'
  BY <1>2, <1>6 DEF RelayDies, Fault, HeldOK
<1>7. \/ UNCHANGED held
      \/ \E w \in Relay : ClaimPending(w) \/ RelayDies(w)
      \/ \E w \in Relay : \E c \in held[w] : Publish(w, c) \/ HandOverFails(w, c) \/ Settle(w, c)
  BY DEF Next, vars, outboxVars, CreateOutboundMessage, RecordStatusReport, RelayStep,
         BecomesDue, Stall, Pick, Send, RecordDeliveryAttempt, Throws, Finish, WorkerDies
<1> QED BY <1>1, <1>3, <1>4, <1>5, <1>6, <1>7

(***************************************************************************)
(* What the steps do to the jobs and to the workers' memory.               *)
(***************************************************************************)
WorkerBecomes(p, at, event, attempt, owns, answer) ==
  /\ worker' \in [Worker -> Memories] /\ \A q \in Worker \ {p} : worker'[q] = worker[q]
  /\ worker'[p].at = at /\ worker'[p].event = event /\ worker'[p].attempt = attempt
  /\ worker'[p].owns = owns /\ worker'[p].answer = answer

JobBecomes(e, state, made, stalls) ==
  /\ job' \in [EventId -> Jobs] /\ \A d \in EventId \ {e} : job'[d] = job[d]
  /\ job'[e].state = state /\ job'[e].made = made /\ job'[e].stalls = stalls

LEMMA MemoryBecomes ==
  ASSUME TypesOK, NEW p \in Worker, NEW r \in Memories, worker' = [worker EXCEPT ![p] = r]
  PROVE  WorkerBecomes(p, r.at, r.event, r.attempt, r.owns, r.answer)
  BY DEF TypesOK, WorkerBecomes

LEMMA JobChanges ==
  ASSUME TypesOK, NEW e \in EventId, NEW j \in Jobs, job' = [job EXCEPT ![e] = j]
  PROVE  JobBecomes(e, j.state, j.made, j.stalls)
  BY DEF TypesOK, JobBecomes

Remade(j, k, state) == [j EXCEPT !.made = k, !.state = state]
Stalled(j, n, state) == [j EXCEPT !.stalls = n, !.state = state]

LEMMA JobRemade ==
  ASSUME TypesOK, NEW e \in EventId, NEW k \in 0 .. Attempts, NEW state \in {"failed", "waiting"},
         job' = [job EXCEPT ![e] = Remade(job[e], k, state)]
  PROVE  JobBecomes(e, state, k, job[e].stalls)
<1> DEFINE x == job[e]
           T == 0 .. Attempts
           U == 0 .. MaxStalls + 1
           y == Remade(x, k, state)
<1>1. x \in [state : {"absent", "waiting", "active", "completed", "failed"}, made : T, stalls : U] /\ k \in T
  BY DEF TypesOK, Jobs
<1>2. job' = [job EXCEPT ![e] = y]
  OBVIOUS
<1>3. Jobs = [state : {"absent", "waiting", "active", "completed", "failed"}, made : T, stalls : U]
  BY DEF Jobs
<1> HIDE DEF x, T, U
<1>4. y \in Jobs /\ y.made = k /\ y.state = state /\ y.stalls = x.stalls
  BY <1>1, <1>3 DEF Remade
<1> HIDE DEF y
<1> QED BY <1>2, <1>4, JobChanges DEF x

LEMMA JobStalled ==
  ASSUME TypesOK, NEW e \in EventId, NEW n \in 0 .. MaxStalls + 1, NEW state \in {"failed", "waiting"},
         job' = [job EXCEPT ![e] = Stalled(job[e], n, state)]
  PROVE  JobBecomes(e, state, job[e].made, n)
<1> DEFINE x == job[e]
           T == 0 .. Attempts
           U == 0 .. MaxStalls + 1
           y == Stalled(x, n, state)
<1>1. x \in [state : {"absent", "waiting", "active", "completed", "failed"}, made : T, stalls : U] /\ n \in U
  BY DEF TypesOK, Jobs
<1>2. job' = [job EXCEPT ![e] = y]
  OBVIOUS
<1>3. Jobs = [state : {"absent", "waiting", "active", "completed", "failed"}, made : T, stalls : U]
  BY DEF Jobs
<1> HIDE DEF x, T, U
<1>4. y \in Jobs /\ y.stalls = n /\ y.state = state /\ y.made = x.made
  BY <1>1, <1>3 DEF Stalled
<1> HIDE DEF y
<1> QED BY <1>2, <1>4, JobChanges DEF x

LEMMA BusyWorker ==
  ASSUME Base, NEW p \in Worker, Busy(p)
  PROVE  /\ worker[p] \in Memories /\ worker[p].event \in Event /\ worker[p].event \in EventId
         /\ MsgOf(worker[p].event) \in Msg /\ job[worker[p].event] \in Jobs
         /\ message[MsgOf(worker[p].event)].status # "absent"
         /\ WorkerStands(p)
<1>1. worker[p] \in Memories /\ WorkerStands(p)
  BY DEF Base, TypesOK, WorkersStand
<1>2. worker[p].event \in Event /\ worker[p].event \in EventId
  BY <1>1, EventsAreIds DEF Base, IInv, RowsOK, WorkerStands
<1> QED BY <1>1, <1>2, EventsAreAboutMessages DEF Base, IInv, RowsOK, TypesOK, RowsStand

LEMMA PickEffect ==
  ASSUME Base, NEW e \in Event, NEW p \in Worker, Pick(p, e)
  PROVE  /\ e \in EventId /\ job[e].state = "waiting" /\ worker[p].at = "idle"
         /\ \/ /\ Eligible(e)
               /\ JobBecomes(e, "active", job[e].made, job[e].stalls)
               /\ WorkerBecomes(p, "loaded", e, job[e].made + 1, TRUE, "none")
            \/ /\ ~Eligible(e)
               /\ JobBecomes(e, "completed", job[e].made, job[e].stalls)
               /\ UNCHANGED worker
         /\ UNCHANGED <<outboxVars, message, attempts, terminal, copies, doubts, mishaps>>
<1> USE TwoEventsAMessage
<1>1. e \in EventId /\ job[e] \in Jobs /\ job[e].state = "waiting" /\ job[e].made < Attempts
  BY EventsAreIds DEF Pick, Base, IInv, RowsOK, TypesOK, JobsStand, Live
<1>2. e \in Nat
  BY <1>1
<1>3. CASE Eligible(e)
  <2> DEFINE r == [at |-> "loaded", event |-> e, answer |-> "none", attempt |-> job[e].made + 1, owns |-> TRUE]
             j == [job[e] EXCEPT !.state = "active"]
  <2>1. worker' = [worker EXCEPT ![p] = r] /\ job' = [job EXCEPT ![e] = j]
    BY <1>3 DEF Pick, Base, TypesOK
  <2>2. r \in Memories /\ j \in Jobs /\ j.state = "active" /\ j.made = job[e].made /\ j.stalls = job[e].stalls
    BY <1>1, <1>2 DEF Memories, Jobs
  <2>3. r.at = "loaded" /\ r.event = e /\ r.attempt = job[e].made + 1 /\ r.owns = TRUE /\ r.answer = "none"
    OBVIOUS
  <2> HIDE DEF r, j
  <2>4. WorkerBecomes(p, "loaded", e, job[e].made + 1, TRUE, "none")
    BY <2>1, <2>2, <2>3, MemoryBecomes DEF Base
  <2>5. JobBecomes(e, "active", job[e].made, job[e].stalls)
    BY <1>1, <2>1, <2>2, JobChanges DEF Base
  <2> QED BY <1>1, <1>3, <2>4, <2>5 DEF Pick
<1>4. CASE ~Eligible(e)
  <2> DEFINE j == [job[e] EXCEPT !.state = "completed"]
  <2>1. job' = [job EXCEPT ![e] = j]
    BY <1>4 DEF Pick, Base, TypesOK
  <2>2. j \in Jobs /\ j.state = "completed" /\ j.made = job[e].made /\ j.stalls = job[e].stalls
    BY <1>1 DEF Jobs
  <2> HIDE DEF j
  <2>5. JobBecomes(e, "completed", job[e].made, job[e].stalls)
    BY <1>1, <2>1, <2>2, JobChanges DEF Base
  <2> QED BY <1>1, <1>4, <2>5 DEF Pick
<1> QED BY <1>3, <1>4

LEMMA AnswersChange ==
  ASSUME TypesOK, NEW p \in Worker, NEW at \in {"answered", "ended"},
         NEW how \in {"sent", "unknown", "busy", "refused", "throws", "returns"},
         worker' = [worker EXCEPT ![p].at = at, ![p].answer = how]
  PROVE  WorkerBecomes(p, at, worker[p].event, worker[p].attempt, worker[p].owns, how)
<1> DEFINE r == [worker[p] EXCEPT !.at = at, !.answer = how]
<1>1. worker[p] \in Memories /\ worker \in [Worker -> Memories]
  BY DEF TypesOK
<1>2. worker' = [worker EXCEPT ![p] = r]
  BY <1>1 DEF Memories
<1>3. r \in Memories /\ r.at = at /\ r.answer = how /\ r.event = worker[p].event
      /\ r.attempt = worker[p].attempt /\ r.owns = worker[p].owns
  BY <1>1 DEF Memories
<1> HIDE DEF r
<1> QED BY <1>2, <1>3, MemoryBecomes

\* One answer of the provider: a copy more is confirmed or in doubt.
Answered(m, answer) ==
  LET doubted == doubts' = [doubts EXCEPT ![m] = @ + 1] IN
  /\ doubts' = doubts \/ doubted
  /\ \/ copies' = copies
     \/ /\ ~DropsDuplicates(m) /\ copies' = [copies EXCEPT ![m] = @ + 1]
        /\ answer = "sent" \/ doubted

LEMMA SendEffect ==
  ASSUME Base, NEW p \in Worker, Send(p), NEW m, m = MsgOf(worker[p].event)
  PROVE  /\ worker[p].at = "loaded" /\ UNCHANGED <<outboxVars, message, attempts, terminal, job, mishaps>>
         /\ \E answer \in {"sent", "unknown", "busy", "refused"} :
              /\ WorkerBecomes(p, "answered", worker[p].event, worker[p].attempt, worker[p].owns, answer)
              /\ Answered(m, answer)
<1>1. PICK delivered \in BOOLEAN, answer \in {"sent", "unknown", "busy", "refused"} :
        /\ doubts' = IF answer = "unknown" \/ (delivered /\ answer # "sent")
                     THEN [doubts EXCEPT ![m] = @ + 1] ELSE doubts
        /\ copies' = IF delivered /\ ~DropsDuplicates(m) THEN [copies EXCEPT ![m] = @ + 1] ELSE copies
        /\ worker' = [worker EXCEPT ![p].at = "answered", ![p].answer = answer]
  BY DEF Send
<1>2. WorkerBecomes(p, "answered", worker[p].event, worker[p].attempt, worker[p].owns, answer)
  BY <1>1, AnswersChange DEF Base
<1>3. Answered(m, answer)
  BY <1>1 DEF Answered
<1> QED BY <1>1, <1>2, <1>3 DEF Send

LEMMA RecordEffect ==
  ASSUME Base, NEW p \in Worker, RecordDeliveryAttempt(p), NEW m, m = MsgOf(worker[p].event)
  PROVE  /\ worker[p].at = "answered" /\ UNCHANGED <<held, faults, job, copies, doubts, mishaps>>
         /\ \/ /\ worker[p].attempt \in attempts[m] /\ UNCHANGED <<message, attempts, terminal, outbox>>
               /\ WorkerBecomes(p, "ended", worker[p].event, worker[p].attempt, worker[p].owns, "throws")
            \/ /\ worker[p].attempt \notin attempts[m]
               /\ attempts' = [attempts EXCEPT ![m] = @ \cup {worker[p].attempt}]
               /\ Recorded(m, Verdict(p))
               /\ \E how \in {"throws", "returns"} :
                    /\ how = "returns" <=> Verdict(p) # "retry"
                    /\ WorkerBecomes(p, "ended", worker[p].event, worker[p].attempt, worker[p].owns, how)
<1>1. CASE worker[p].attempt \in attempts[m]
  BY <1>1, AnswersChange DEF RecordDeliveryAttempt, Ended, Base
<1>2. CASE worker[p].attempt \notin attempts[m]
  <2> DEFINE how == IF Verdict(p) = "retry" THEN "throws" ELSE "returns"
  <2>1. worker' = [worker EXCEPT ![p].at = "ended", ![p].answer = how]
    BY <1>2 DEF RecordDeliveryAttempt, Ended
  <2>2. how \in {"throws", "returns"} /\ (how = "returns" <=> Verdict(p) # "retry")
    OBVIOUS
  <2> HIDE DEF how
  <2>3. WorkerBecomes(p, "ended", worker[p].event, worker[p].attempt, worker[p].owns, how)
    BY <2>1, <2>2, AnswersChange DEF Base
  <2> QED BY <1>2, <2>2, <2>3 DEF RecordDeliveryAttempt
<1> QED BY <1>1, <1>2

LEMMA ThrowsEffect ==
  ASSUME Base, NEW p \in Worker, Throws(p)
  PROVE  /\ worker[p].at \in {"loaded", "answered"}
         /\ WorkerBecomes(p, "ended", worker[p].event, worker[p].attempt, worker[p].owns, "throws")
         /\ mishaps' = mishaps + 1
         /\ UNCHANGED <<outbox, held, message, attempts, terminal, job, copies, doubts>>
  BY AnswersChange DEF Throws, Ended, Mishap, Base

LEMMA FinishEffect ==
  ASSUME Base, NEW p \in Worker, Finish(p), NEW e, e = worker[p].event
  PROVE  /\ worker[p].at = "ended" /\ WorkerBecomes(p, "idle", 0, 0, FALSE, "none")
         /\ \/ ~worker[p].owns /\ UNCHANGED job
            \/ /\ worker[p].owns /\ worker[p].answer = "throws"
               /\ JobBecomes(e, IF job[e].made + 1 >= Attempts THEN "failed" ELSE "waiting",
                             job[e].made + 1, job[e].stalls)
            \/ /\ worker[p].owns /\ worker[p].answer # "throws"
               /\ JobBecomes(e, "completed", job[e].made, job[e].stalls)
         /\ UNCHANGED <<outboxVars, message, attempts, terminal, copies, doubts, mishaps>>
<1> USE TwoEventsAMessage
<1>1. worker[p].at = "ended" /\ Busy(p)
  BY DEF Finish, Busy
<1>2. e \in EventId /\ job[e] \in Jobs /\ WorkerStands(p)
  BY <1>1, BusyWorker
<1>3. WorkerBecomes(p, "idle", 0, 0, FALSE, "none")
  <2>1. worker' = [worker EXCEPT ![p] = IdleWorker] /\ IdleWorker \in Memories
    BY DEF Finish, IdleWorker, Memories
  <2>2. IdleWorker.at = "idle" /\ IdleWorker.event = 0 /\ IdleWorker.attempt = 0
        /\ IdleWorker.owns = FALSE /\ IdleWorker.answer = "none"
    BY DEF IdleWorker
  <2> QED BY <2>1, <2>2, MemoryBecomes DEF Base
<1>4. CASE ~worker[p].owns
  BY <1>1, <1>3, <1>4 DEF Finish
<1>5. CASE worker[p].owns /\ worker[p].answer = "throws"
  <2> DEFINE state == IF job[e].made + 1 >= Attempts THEN "failed" ELSE "waiting"
             k == job[e].made + 1
  <2>1. job[e].made < Attempts
    BY <1>1, <1>2, <1>5 DEF WorkerStands, Base, JobsStand, Live
  <2>2. job' = [job EXCEPT ![e] = Remade(job[e], k, state)]
    BY <1>5 DEF Finish, Failed, Remade, Base, TypesOK
  <2>3. k \in 0 .. Attempts /\ state \in {"failed", "waiting"}
    BY <1>2, <2>1 DEF Jobs
  <2> HIDE DEF state, k
  <2>4. JobBecomes(e, state, k, job[e].stalls)
    BY <1>2, <2>2, <2>3, JobRemade DEF Base
  <2>5. JobBecomes(e, IF job[e].made + 1 >= Attempts THEN "failed" ELSE "waiting", job[e].made + 1, job[e].stalls)
    BY <2>4 DEF state, k
  <2> QED BY <1>1, <1>3, <1>5, <2>5 DEF Finish
<1>6. CASE worker[p].owns /\ worker[p].answer # "throws"
  <2> DEFINE j == [job[e] EXCEPT !.state = "completed"]
  <2>1. job' = [job EXCEPT ![e] = j]
    BY <1>6 DEF Finish, Base, TypesOK
  <2>2. j \in Jobs /\ j.state = "completed" /\ j.made = job[e].made /\ j.stalls = job[e].stalls
    BY <1>2 DEF Jobs
  <2> HIDE DEF j
  <2>5. JobBecomes(e, "completed", job[e].made, job[e].stalls)
    BY <1>2, <2>1, <2>2, JobChanges DEF Base
  <2> QED BY <1>1, <1>3, <1>6, <2>5 DEF Finish
<1> QED BY <1>4, <1>5, <1>6

LEMMA WorkerDiesEffect ==
  ASSUME Base, NEW p \in Worker, WorkerDies(p)
  PROVE  /\ Busy(p) /\ WorkerBecomes(p, "idle", 0, 0, FALSE, "none") /\ mishaps' = mishaps + 1
         /\ UNCHANGED <<outbox, held, message, attempts, terminal, job, copies, doubts>>
<1>1. worker' = [worker EXCEPT ![p] = IdleWorker] /\ IdleWorker \in Memories
  BY TwoEventsAMessage DEF WorkerDies, IdleWorker, Memories
<1>2. IdleWorker.at = "idle" /\ IdleWorker.event = 0 /\ IdleWorker.attempt = 0
      /\ IdleWorker.owns = FALSE /\ IdleWorker.answer = "none"
  BY DEF IdleWorker
<1> QED BY <1>1, <1>2, MemoryBecomes DEF Base, WorkerDies, Busy, Mishap

LEMMA StallEffect ==
  ASSUME Base, NEW e \in Event, Stall(e)
  PROVE  /\ e \in EventId /\ job[e].state = "active" /\ worker' \in [Worker -> Memories]
         /\ \A p \in Worker : ~Owns(p, e) => worker'[p] = worker[p]
         /\ \A p \in Worker : Owns(p, e) =>
              /\ worker'[p].at = worker[p].at /\ worker'[p].event = e /\ ~worker'[p].owns
              /\ worker'[p].attempt = worker[p].attempt /\ worker'[p].answer = worker[p].answer
         /\ \E state \in {"failed", "waiting"} :
              /\ state = "waiting" => job[e].stalls < MaxStalls
              /\ JobBecomes(e, state, job[e].made, job[e].stalls + 1)
         /\ IF \E p \in Worker : Owns(p, e) THEN mishaps' = mishaps + 1 ELSE mishaps' = mishaps
         /\ UNCHANGED <<outbox, held, message, attempts, terminal, copies, doubts>>
<1> USE TwoEventsAMessage
<1>1. e \in EventId /\ job[e] \in Jobs /\ job[e].state = "active" /\ job[e].stalls <= MaxStalls
  BY EventsAreIds DEF Stall, Base, IInv, RowsOK, TypesOK, JobsStand, Live
<1>2. \A p \in Worker : p \in Owner(e) <=> Owns(p, e)
  BY DEF Owner, Owns, Busy
<1>3. worker' = [p \in Worker |-> IF p \in Owner(e) THEN [worker[p] EXCEPT !.owns = FALSE] ELSE worker[p]]
  BY DEF Stall
<1>4. ASSUME NEW p \in Worker
      PROVE  /\ worker'[p] \in Memories
             /\ ~Owns(p, e) => worker'[p] = worker[p]
             /\ Owns(p, e) =>
                  /\ worker'[p].at = worker[p].at /\ worker'[p].event = e /\ ~worker'[p].owns
                  /\ worker'[p].attempt = worker[p].attempt /\ worker'[p].answer = worker[p].answer
  <2>1. worker[p] \in Memories
    BY DEF Base, TypesOK
  <2>2. CASE ~Owns(p, e)
    BY <1>2, <1>3, <2>1, <2>2
  <2>3. CASE Owns(p, e)
    <3>1. worker'[p] = [worker[p] EXCEPT !.owns = FALSE]
      BY <1>2, <1>3, <2>3
    <3> QED BY <2>1, <2>3, <3>1 DEF Memories, Owns
  <2> QED BY <2>2, <2>3
<1>5. worker' \in [Worker -> Memories]
  BY <1>3, <1>4
<1>6. \E state \in {"failed", "waiting"} :
         /\ state = "waiting" => job[e].stalls < MaxStalls
         /\ JobBecomes(e, state, job[e].made, job[e].stalls + 1)
  <2> DEFINE state == IF job[e].stalls >= MaxStalls THEN "failed" ELSE "waiting"
             n == job[e].stalls + 1
  <2>1. job' = [job EXCEPT ![e].stalls = @ + 1, ![e].state = state]
    BY DEF Stall
  <2>2. job' = [job EXCEPT ![e] = Stalled(job[e], n, state)]
    BY <1>1, <2>1 DEF Base, TypesOK, Jobs, Stalled
  <2>3. state \in {"failed", "waiting"} /\ (state = "waiting" => job[e].stalls < MaxStalls)
        /\ n \in 0 .. MaxStalls + 1
    BY <1>1 DEF Jobs
  <2> HIDE DEF state, n
  <2>4. JobBecomes(e, state, job[e].made, n)
    BY <1>1, <2>2, <2>3, JobStalled DEF Base
  <2>5. JobBecomes(e, state, job[e].made, job[e].stalls + 1)
    BY <2>4 DEF n
  <2> QED BY <2>3, <2>5
<1>7. IF \E p \in Worker : Owns(p, e) THEN mishaps' = mishaps + 1 ELSE mishaps' = mishaps
  <2>1. Owner(e) \subseteq Worker
    BY DEF Owner
  <2> QED BY <1>2, <2>1 DEF Stall, Mishap
<1>8. UNCHANGED <<outbox, held, message, attempts, terminal, copies, doubts>>
  BY DEF Stall
<1> QED BY <1>1, <1>4, <1>5, <1>6, <1>7, <1>8

LEMMA PublishEffect ==
  ASSUME Base, NEW w \in Relay, NEW c \in held[w], Publish(w, c)
  PROVE  /\ c.event \in Event /\ c.event \in EventId
         /\ \/ UNCHANGED job
            \/ job[c.event].state = "absent" /\ JobBecomes(c.event, "waiting", job[c.event].made, job[c.event].stalls)
         /\ UNCHANGED <<outbox, message, attempts, terminal, worker, copies, doubts, mishaps>>
<1>1. c \in Claims
  BY DEF Base, HeldOK
<1>2. c.event \in Event /\ c.event \in EventId
  BY <1>1, EventsAreIds DEF Claims, Base, IInv, RowsOK
<1> DEFINE j == [job[c.event] EXCEPT !.state = "waiting"]
<1>3. UNCHANGED job \/ (job[c.event].state = "absent" /\ job' = [job EXCEPT ![c.event] = j])
  BY <1>2 DEF Publish, Added, Base, TypesOK
<1>4. j \in Jobs /\ j.state = "waiting" /\ j.made = job[c.event].made /\ j.stalls = job[c.event].stalls
  BY <1>2 DEF Base, TypesOK, Jobs
<1> HIDE DEF j
<1>5. job' = [job EXCEPT ![c.event] = j] => JobBecomes(c.event, "waiting", job[c.event].made, job[c.event].stalls)
  BY <1>2, <1>4, JobChanges DEF Base
<1> QED BY <1>2, <1>3, <1>5 DEF Publish

(***************************************************************************)
(* Rows and events.                                                        *)
(***************************************************************************)
LEMMA EventsKnown ==
  ASSUME Base
  PROVE  /\ OutboxOK /\ MessageOK /\ DeliversOnce /\ Event \subseteq EventId /\ Event = 1 .. Len(outbox)
         /\ \A e \in Event : /\ MsgOf(e) \in Msg /\ outbox[e].about[2] \in {"deliver", "reconcile"}
                             /\ outbox[e].about = <<MsgOf(e), outbox[e].about[2]>>
<1>1. OutboxOK /\ MessageOK /\ DeliversOnce
  BY DEF Base, IInv, RowsOK
<1>2. ASSUME NEW e \in Event
      PROVE  /\ MsgOf(e) \in Msg /\ outbox[e].about[2] \in {"deliver", "reconcile"}
             /\ outbox[e].about = <<MsgOf(e), outbox[e].about[2]>>
  <2>1. outbox[e] \in Rows
    BY <1>1 DEF OutboxOK, Event
  <2> QED BY <2>1 DEF Rows, MsgOf
<1> QED BY <1>1, <1>2, EventsAreIds

LEMMA OneDelivery ==
  ASSUME Base, NEW d \in Event, NEW e \in Event, MsgOf(d) = MsgOf(e), Delivers(d),
         outbox[e].about[2] = "deliver"
  PROVE  d = e
  BY EventsKnown DEF DeliversOnce, Delivers

LEMMA NoEventYet ==
  ASSUME Base, NEW m \in Msg, message[m].status = "absent"
  PROVE  /\ \A e \in Event : MsgOf(e) # m
         /\ \A kind : ~Requested(m, kind)
<1>1. \A e \in Event : MsgOf(e) # m
  BY DEF Base, RowsStand
<1>2. ASSUME NEW kind, NEW e \in Event, outbox[e].about = <<m, kind>> PROVE FALSE
  BY <1>1, <1>2 DEF MsgOf
<1> QED BY <1>1, <1>2 DEF Requested

LEMMA NewEvent ==
  ASSUME Base, NEW m \in Msg, NEW kind \in {"deliver", "reconcile"}, Appends(m, kind)
  PROVE  \E e \in Nat : /\ Event' = Event \cup {e} /\ e \notin Event /\ e = Len(outbox) + 1
                        /\ outbox'[e].about[2] = kind /\ MsgOf(e)' = m
<1>1. PICK e \in Nat : e = Len(outbox) + 1
  BY EventsKnown, AppendGrows
<1>2. Event' = Event \cup {e} /\ e \notin Event /\ outbox'[e] = Row(<<m, kind>>)
  BY <1>1, EventsKnown, AppendGrows
<1>3. outbox'[e].about = <<m, kind>>
  BY <1>2 DEF Row
<1> QED BY <1>1, <1>2, <1>3 DEF MsgOf

\* What a recorded verdict changes of a message.
Tells(m, v) ==
  /\ \A n \in Msg : n # m => message'[n] = message[n]
  /\ message'[m].status = v /\ message'[m].mode = message[m].mode /\ message'[m].flow = message[m].flow
  /\ message'[m].known <=> v = "sent"

LEMMA MessageRecorded ==
  ASSUME MessageOK, NEW m \in Msg, NEW v,
         message' = [message EXCEPT ![m].status = v, ![m].known = v = "sent"]
  PROVE  Tells(m, v)
  BY DEF MessageOK, Tells

LEMMA StepsOnEvents ==
  ASSUME Base, [Next]_vars
  PROVE  EventsGrow
<1> USE EventsKnown
<1>1. ASSUME NEW m \in Msg, NEW kind \in {"deliver", "reconcile"}, Request(m, kind) PROVE EventsGrow
  BY <1>1, RequestsGrow DEF EventsGrow, Event
<1>2. ASSUME UNCHANGED outbox PROVE EventsGrow
  BY <1>2, RelaysGrow DEF EventsGrow
<1>3. ASSUME NEW m \in Msg, CreateOutboundMessage(m) PROVE EventsGrow
  BY <1>1, <1>3 DEF CreateOutboundMessage
<1>4. ASSUME NEW p \in Worker, RecordDeliveryAttempt(p) PROVE EventsGrow
  <2>1. Busy(p)
    BY <1>4 DEF RecordDeliveryAttempt, Busy
  <2>2. MsgOf(worker[p].event) \in Msg
    BY <2>1, BusyWorker
  <2>3. UNCHANGED outbox \/ Request(MsgOf(worker[p].event), "reconcile")
    BY <1>4 DEF RecordDeliveryAttempt, Recorded
  <2> QED BY <1>1, <1>2, <2>2, <2>3
<1>5. CASE RelayStep
  <2>1. \/ UNCHANGED outbox \/ \E w \in Relay : ClaimPending(w)
        \/ \E w \in Relay : \E c \in held[w] : Settle(w, c)
    BY <1>5 DEF RelayStep, Publish, HandOverFails, RelayDies
  <2> QED BY <2>1, RelaysGrow DEF EventsGrow
<1>6. ASSUME NEW e \in Event, BecomesDue(e) PROVE EventsGrow
  BY <1>6, RelaysGrow DEF EventsGrow
<1>7. \/ UNCHANGED outbox \/ RelayStep \/ \E e \in Event : BecomesDue(e)
      \/ \E m \in Msg : CreateOutboundMessage(m)
      \/ \E p \in Worker : RecordDeliveryAttempt(p)
  BY DEF Next, vars, outboxVars, RecordStatusReport, Stall, Pick, Send, Throws, Finish, WorkerDies
<1> QED BY <1>2, <1>3, <1>4, <1>5, <1>6, <1>7

\* What a step may do to a message's row.
KeepsMode(m) == message'[m].mode = message[m].mode

LEMMA ModesStay ==
  ASSUME Base, [Next]_vars
  PROVE  \A m \in Msg : KeepsMode(m)
<1> USE EventsKnown DEF KeepsMode, MessageOK
<1>1. ASSUME NEW n \in Msg, NEW status, message' = [message EXCEPT ![n].status = status]
      PROVE  \A m \in Msg : KeepsMode(m)
  BY <1>1
<1>4. ASSUME NEW n \in Msg, CreateOutboundMessage(n) \/ RecordStatusReport(n) PROVE \A m \in Msg : KeepsMode(m)
  <2>1. \E status : message' = [message EXCEPT ![n].status = status]
    BY <1>4 DEF CreateOutboundMessage, RecordStatusReport
  <2> QED BY <1>1, <2>1
<1>2. ASSUME NEW p \in Worker, RecordDeliveryAttempt(p) PROVE \A m \in Msg : KeepsMode(m)
  <2> DEFINE m == MsgOf(worker[p].event)
             v == Verdict(p)
  <2>1. UNCHANGED message \/ message' = [message EXCEPT ![m].status = v, ![m].known = v = "sent"]
    BY <1>2 DEF RecordDeliveryAttempt, Recorded
  <2>2. m \in Msg
    BY <1>2, BusyWorker DEF RecordDeliveryAttempt, Busy
  <2> HIDE DEF m, v
  <2>3. UNCHANGED message \/ Tells(m, v)
    BY <2>1, <2>2, MessageRecorded
  <2> QED BY <2>2, <2>3 DEF Tells
<1>3. \/ UNCHANGED message
      \/ \E m \in Msg : CreateOutboundMessage(m) \/ RecordStatusReport(m)
      \/ \E p \in Worker : RecordDeliveryAttempt(p)
  BY DEF Next, vars, deliveryVars, RelayStep, Publish, BecomesDue, Stall, Pick, Send, Throws, Finish, WorkerDies
<1> QED BY <1>2, <1>3, <1>4

LEMMA EventsKeepTheirMessage ==
  ASSUME Base, [Next]_vars, NEW e \in Event
  PROVE  /\ MsgOf(e)' = MsgOf(e) /\ e \in Event' /\ outbox'[e].about = outbox[e].about
         /\ Delivers(e)' <=> Delivers(e)
         /\ Plain(MsgOf(e))' <=> Plain(MsgOf(e))
<1>1. MsgOf(e)' = MsgOf(e) /\ e \in Event' /\ outbox'[e].about = outbox[e].about
  BY StepsOnEvents DEF EventsGrow, EventsStay, Event, MsgOf
<1>2. message'[MsgOf(e)].mode = message[MsgOf(e)].mode
  BY EventsKnown, ModesStay DEF KeepsMode
<1> QED BY <1>1, <1>2 DEF Delivers, Plain

LEMMA RecordedRows ==
  ASSUME Base, NEW p \in Worker, RecordDeliveryAttempt(p), NEW m, m = MsgOf(worker[p].event),
         NEW v, v = Verdict(p)
  PROVE  /\ m \in Msg /\ message[m].status # "absent"
         /\ \/ UNCHANGED <<message, outbox>>
            \/ /\ Open(m) /\ v \in {"sent", "failed", "unknown"} /\ Tells(m, v)
               /\ UNCHANGED outbox \/ (v = "unknown" /\ Appends(m, "reconcile"))
         /\ \A n \in Msg : n # m => attempts'[n] = attempts[n]
         /\ attempts' \in [Msg -> SUBSET (1 .. Attempts)]
<1>0. Busy(p)
  BY DEF RecordDeliveryAttempt, Busy
<1>1. m \in Msg /\ message[m].status # "absent" /\ worker[p] \in Memories /\ WorkerStands(p)
  BY <1>0, BusyWorker
<1>2. worker[p].attempt \in 1 .. Attempts
  BY <1>0, <1>1 DEF WorkerStands, Memories
<1>3. attempts' = attempts \/ attempts' = [attempts EXCEPT ![m] = @ \cup {worker[p].attempt}]
  BY DEF RecordDeliveryAttempt
<1>4. /\ \A n \in Msg : n # m => attempts'[n] = attempts[n]
      /\ attempts' \in [Msg -> SUBSET (1 .. Attempts)]
  BY <1>1, <1>2, <1>3 DEF Base, TypesOK
<1>5. v \in {"sent", "failed", "unknown", "retry"}
  BY DEF Verdict
<1>6. \/ UNCHANGED <<message, outbox>>
      \/ /\ Open(m) /\ v # "retry"
         /\ message' = [message EXCEPT ![m].status = v, ![m].known = v = "sent"]
         /\ UNCHANGED outbox \/ (v = "unknown" /\ Appends(m, "reconcile"))
  BY DEF RecordDeliveryAttempt, Recorded, Request, Appends
<1>7. message' = [message EXCEPT ![m].status = v, ![m].known = v = "sent"] => Tells(m, v)
  BY <1>1, EventsKnown, MessageRecorded
<1> QED BY <1>1, <1>4, <1>5, <1>6, <1>7

LEMMA RowsKept ==
  ASSUME Base, [Next]_vars
  PROVE  RowsStand'
<1> USE EventsKnown
<1>0. RowsStand /\ \A e \in Event : MsgOf(e)' = MsgOf(e) /\ outbox'[e].about = outbox[e].about
  BY EventsKeepTheirMessage DEF Base
<1>1. ASSUME NEW m \in Msg, CreateOutboundMessage(m) PROVE RowsStand'
  <2>1. /\ message[m].status = "absent" /\ message' = [message EXCEPT ![m].status = "queued"]
        /\ UNCHANGED <<attempts, copies>> /\ Appends(m, "deliver")
    BY <1>1, NoEventYet DEF CreateOutboundMessage, Request, Appends
  <2>2. PICK d \in Nat : Event' = Event \cup {d} /\ outbox'[d].about[2] = "deliver" /\ MsgOf(d)' = m
    BY <2>1, NewEvent
  <2>4. \A n \in Msg : /\ message'[n].status = IF n = m THEN "queued" ELSE message[n].status
                       /\ message'[n].known = message[n].known
    BY <2>1 DEF MessageOK
  <2>5. ~message[m].known
    BY <1>0, <2>1 DEF RowsStand
  <2>6. ASSUME NEW e \in Event' PROVE message'[MsgOf(e)'].status # "absent"
           /\ (outbox'[e].about[2] = "reconcile" => message'[MsgOf(e)'].status # "queued")
    <3>1. CASE e \in Event
      BY <1>0, <2>1, <2>4, <3>1, NoEventYet DEF RowsStand
    <3>2. CASE e = d
      BY <2>2, <2>4, <3>2
    <3> QED BY <2>2, <2>6, <3>1, <3>2
  <2> QED BY <1>0, <2>1, <2>4, <2>5, <2>6 DEF RowsStand
<1>2. ASSUME NEW m \in Msg, RecordStatusReport(m) PROVE RowsStand'
  <2>1. PICK reported \in {"sent", "delivered", "read", "failed"} :
          message' = [message EXCEPT ![m].status = reported]
    BY <1>2 DEF RecordStatusReport
  <2>2. \A n \in Msg : /\ message'[n].status = IF n = m THEN reported ELSE message[n].status
                       /\ message'[n].known = message[n].known
    BY <2>1 DEF MessageOK
  <2>3. UNCHANGED <<outbox, attempts, copies>> /\ Event' = Event
    BY <1>2 DEF RecordStatusReport, outboxVars, Event
  <2> QED BY <1>0, <2>2, <2>3 DEF RowsStand
<1>3. ASSUME NEW p \in Worker, RecordDeliveryAttempt(p) PROVE RowsStand'
  <2> DEFINE m == MsgOf(worker[p].event)
             v == Verdict(p)
  <2>1. /\ m \in Msg /\ message[m].status # "absent"
         /\ \/ UNCHANGED <<message, outbox>>
            \/ /\ v \in {"sent", "failed", "unknown"} /\ Tells(m, v)
               /\ UNCHANGED outbox \/ (v = "unknown" /\ Appends(m, "reconcile"))
         /\ \A n \in Msg : n # m => attempts'[n] = attempts[n]
    BY <1>3, RecordedRows
  <2>2. UNCHANGED copies
    BY <1>3 DEF RecordDeliveryAttempt
  <2> HIDE DEF m, v
  <2>3. CASE UNCHANGED <<message, outbox>>
    <3>1. Event' = Event
      BY <2>3 DEF Event
    <3> QED BY <1>0, <2>1, <2>2, <2>3, <3>1 DEF RowsStand
  <2>4. CASE /\ v \in {"sent", "failed", "unknown"} /\ Tells(m, v)
             /\ UNCHANGED outbox \/ (v = "unknown" /\ Appends(m, "reconcile"))
    <3>1. \A n \in Msg : message'[n].status = IF n = m THEN v ELSE message[n].status
      BY <2>1, <2>4 DEF Tells
    <3>4. \A n \in Msg : message'[n].known => message'[n].status \notin {"absent", "queued"}
      BY <1>0, <2>1, <2>4 DEF Tells, RowsStand
    <3>2. \A e \in Event' : e \in Event \/ (MsgOf(e)' = m /\ v = "unknown")
      <4>1. CASE UNCHANGED outbox
        BY <4>1 DEF Event
      <4>2. CASE Appends(m, "reconcile") /\ v = "unknown"
        BY <2>1, <4>2, NewEvent
      <4> QED BY <2>4, <4>1, <4>2
    <3>3. ASSUME NEW e \in Event' PROVE message'[MsgOf(e)'].status # "absent"
             /\ (outbox'[e].about[2] = "reconcile" => message'[MsgOf(e)'].status # "queued")
      <4>1. CASE e \in Event
        BY <1>0, <2>4, <3>1, <4>1 DEF RowsStand
      <4>2. CASE MsgOf(e)' = m /\ v = "unknown"
        BY <2>1, <3>1, <4>2
      <4> QED BY <3>2, <4>1, <4>2
    <3> QED BY <1>0, <2>1, <2>2, <2>4, <3>1, <3>3, <3>4 DEF RowsStand
  <2> QED BY <2>1, <2>3, <2>4
<1>4. ASSUME NEW p \in Worker, Send(p) PROVE RowsStand'
  <2> DEFINE m == MsgOf(worker[p].event)
  <2>1. m \in Msg /\ message[m].status # "absent"
    BY <1>4, BusyWorker DEF Send, Busy
  <2>2. \A n \in Msg : n # m => copies'[n] = copies[n]
    BY <1>4, <2>1 DEF Send, MessageOK
  <2>3. UNCHANGED <<outbox, message, attempts>> /\ Event' = Event
    BY <1>4 DEF Send, outboxVars, Event
  <2> HIDE DEF m
  <2> QED BY <1>0, <2>1, <2>2, <2>3 DEF RowsStand
<1>5. ASSUME UNCHANGED <<message, attempts, copies>>, Event' = Event PROVE RowsStand'
  BY <1>0, <1>5 DEF RowsStand
<1>6. CASE RelayStep \/ \E e \in Event : BecomesDue(e) /\ UNCHANGED deliveryVars
  <2>1. UNCHANGED <<message, attempts, copies>>
    BY <1>6 DEF RelayStep, Publish, deliveryVars
  <2>2. \/ UNCHANGED outbox
        \/ \E w \in Relay : ClaimPending(w)
        \/ \E w \in Relay : \E c \in held[w] : Settle(w, c)
        \/ \E e \in Event : BecomesDue(e)
    BY <1>6 DEF RelayStep, Publish, HandOverFails, RelayDies
  <2> QED BY <1>5, <2>1, <2>2, RelaysGrow
<1>7. CASE \/ UNCHANGED vars
           \/ \E e \in Event : Stall(e) \/ \E p \in Worker : Pick(p, e)
           \/ \E p \in Worker : Throws(p) \/ Finish(p) \/ WorkerDies(p)
  <2>1. UNCHANGED <<outbox, message, attempts, copies>>
    BY <1>7 DEF vars, outboxVars, deliveryVars, Stall, Pick, Throws, Finish, WorkerDies
  <2> QED BY <1>5, <2>1 DEF Event
<1> QED BY <1>1, <1>2, <1>3, <1>4, <1>6, <1>7 DEF Next

LEMMA IdsLater ==
  ASSUME Base, [Next]_vars
  PROVE  /\ Event' \subseteq EventId /\ Event' = 1 .. Len(outbox') /\ Len(outbox') \in Nat
         /\ Len(outbox') <= Cardinality(EventId) /\ DeliversOnce' /\ IInv'
<1>1. IInv'
  BY InvKept DEF Base
<1>2. DeliversOnce'
  BY EventsKnown, StepsOnEvents, EventsStayDistinct
<1>3. PICK s : s = outbox'
  OBVIOUS
<1>4. s \in Seq(Rows) /\ \A d, e \in DOMAIN s : s[d].about = s[e].about => d = e
  BY <1>1, <1>2, <1>3 DEF IInv, RowsOK, OutboxOK, DeliversOnce, Event
<1>5. Len(s) <= Cardinality(EventId)
  BY <1>4, AFewEvents
<1>6. Event' = 1 .. Len(s) /\ Len(s) \in Nat
  BY <1>3, <1>4 DEF Event
<1> QED BY <1>1, <1>2, <1>3, <1>5, <1>6, TwoEventsAMessage

\* Only a command asks for a delivery.
LEMMA DeliveriesAreAsked ==
  ASSUME Base, [Next]_vars, NEW m \in Msg, Appends(m, "deliver")
  PROVE  message[m].status = "absent"
<1>1. /\ Event' # Event /\ outbox'[Len(outbox) + 1] = Row(<<m, "deliver">>)
      /\ Row(<<m, "deliver">>).about = <<m, "deliver">>
  BY EventsKnown, AppendGrows DEF Row
<1>2. ASSUME NEW n \in Msg, NEW kind \in {"deliver", "reconcile"}, Request(n, kind)
      PROVE  n = m /\ kind = "deliver"
  <2>1. Appends(n, kind)
    BY <1>1, <1>2 DEF Request, Appends, Event
  <2>2. outbox'[Len(outbox) + 1] = Row(<<n, kind>>) /\ Row(<<n, kind>>).about = <<n, kind>>
    BY <2>1, EventsKnown, AppendGrows DEF Row
  <2> QED BY <1>1, <2>2
<1>3. ASSUME NEW n \in Msg, CreateOutboundMessage(n) PROVE message[m].status = "absent"
  BY <1>2, <1>3 DEF CreateOutboundMessage
<1>4. ASSUME NEW p \in Worker, RecordDeliveryAttempt(p) PROVE FALSE
  <2>1. MsgOf(worker[p].event) \in Msg
    BY <1>4, BusyWorker DEF RecordDeliveryAttempt, Busy
  <2>2. UNCHANGED outbox \/ Request(MsgOf(worker[p].event), "reconcile")
    BY <1>4 DEF RecordDeliveryAttempt, Recorded
  <2> QED BY <1>1, <1>2, <2>1, <2>2 DEF Event
<1>5. UNCHANGED outbox => FALSE
  BY <1>1 DEF Event
<1>6. ASSUME RelayStep \/ \E e \in Event : BecomesDue(e) PROVE FALSE
  <2>1. \/ UNCHANGED outbox \/ \E w \in Relay : ClaimPending(w)
        \/ \E w \in Relay : \E c \in held[w] : Settle(w, c)
        \/ \E e \in Event : BecomesDue(e)
    BY <1>6 DEF RelayStep, Publish, HandOverFails, RelayDies
  <2> QED BY <1>1, <2>1, EventsKnown, RelaysGrow
<1> QED
  BY <1>3, <1>4, <1>5, <1>6
  DEF Next, vars, outboxVars, RecordStatusReport, Stall, Pick, Send, Throws, Finish, WorkerDies

LEMMA NothingMoves ==
  ASSUME Base, [Next]_vars, UNCHANGED <<job, worker>>
  PROVE  JobsStand' /\ WorkersStand'
<1>1. \A d \in Event : d \in Event' /\ MsgOf(d)' = MsgOf(d) /\ outbox'[d].about = outbox[d].about
                      /\ (Plain(MsgOf(d))' <=> Plain(MsgOf(d)))
  BY EventsKeepTheirMessage
<1>2. JobsStand'
  BY <1>1 DEF JobsStand, Base
<1>3. ASSUME NEW p \in Worker PROVE WorkerStands(p)'
  <2>1. WorkerStands(p)
    BY DEF Base, WorkersStand
  <2>2. CASE Busy(p)
    <3>1. PICK d \in Event : d = worker[p].event
      BY <2>1, <2>2 DEF WorkerStands
    <3>2. (Plain(MsgOf(d))' <=> Plain(MsgOf(d))) /\ d \in Event' /\ outbox'[d].about = outbox[d].about
      BY <1>1
    <3>3. Plain(MsgOf(worker[p].event))' <=> Plain(MsgOf(d))'
      BY <3>1 DEF Plain, MsgOf
    <3> QED BY <2>1, <2>2, <3>1, <3>2, <3>3 DEF WorkerStands, Busy
  <2> QED BY <2>1, <2>2 DEF WorkerStands, Busy
<1>4. ASSUME NEW p \in Worker, NEW q \in Worker, NEW d, Owns(p, d)', Owns(q, d)' PROVE p = q
  <2>1. Owns(p, d) /\ Owns(q, d)
    BY <1>4 DEF Owns, Busy
  <2>2. d \in Event
    BY <2>1 DEF Owns, Base, WorkersStand, WorkerStands
  <2> QED BY <2>1, <2>2 DEF Base, WorkersStand
<1> QED BY <1>2, <1>3, <1>4 DEF WorkersStand

(***************************************************************************)
(* Jobs and workers.                                                       *)
(***************************************************************************)
\* A step changes one job at most, of an event that exists, ...
JobMoves(e) ==
  /\ job' \in [EventId -> Jobs] /\ \A d \in EventId \ {e} : job'[d] = job[d]
  /\ job'[e].made >= job[e].made
  /\ job[e].state # "absent" => job'[e].state # "absent"
  /\ job'[e].state = "absent" => job'[e].made = 0 /\ job'[e].stalls = 0
  /\ Live(job'[e]) => job'[e].made < Attempts /\ job'[e].stalls <= MaxStalls
  /\ job'[e].state # "absent" => e \in Event

\* ... and the memory of some workers, among them the owner of a job that stops.
WorkersMove(P, e) ==
  /\ worker' \in [Worker -> Memories] /\ \A q \in Worker \ P : worker'[q] = worker[q]
  /\ \/ job'[e].made = job[e].made /\ (job[e].state = "active" => job'[e].state = "active")
     \/ \A q \in Worker \ P : ~Owns(q, e)
  /\ \A p \in P : WorkerStands(p)'
  /\ \A p \in P, q \in Worker, d \in Event : Owns(p, d)' /\ Owns(q, d)' => p = q

LEMMA JobsAndWorkersMove ==
  ASSUME Base, [Next]_vars, NEW e \in EventId, NEW P \in SUBSET Worker,
         JobMoves(e), WorkersMove(P, e)
  PROVE  JobsStand' /\ WorkersStand'
<1>0. \A d \in Event : /\ MsgOf(d)' = MsgOf(d) /\ d \in Event' /\ outbox'[d].about = outbox[d].about
                       /\ Plain(MsgOf(d))' <=> Plain(MsgOf(d))
  BY EventsKeepTheirMessage
<1>1. JobsStand'
  BY <1>0 DEF JobsStand, JobMoves, Base
<1>2. ASSUME NEW q \in Worker, q \notin P PROVE WorkerStands(q)'
  <2>1. worker'[q] = worker[q] /\ WorkerStands(q) /\ worker[q] \in Memories
    BY <1>2 DEF WorkersMove, Base, WorkersStand, TypesOK
  <2> SUFFICES ASSUME Busy(q)' PROVE WorkerStands(q)'
    BY <2>1 DEF WorkerStands, Busy
  <2>2. Busy(q)
    BY <2>1 DEF Busy
  <2>0. PICK d : d = worker[q].event
    OBVIOUS
  <2>3. /\ d \in Event /\ d \in EventId /\ job[d] \in Jobs /\ job'[d] \in Jobs
        /\ job[d].state # "absent" /\ worker[q].attempt \in 1 .. job[d].made + 1
        /\ worker[q].owns => job[d].state = "active" /\ worker[q].attempt = job[d].made + 1
        /\ Plain(MsgOf(d)) => outbox[d].about[2] = "deliver"
    BY <2>0, <2>1, <2>2, EventsKnown DEF WorkerStands, JobMoves, Base, TypesOK
  <2>4. job'[d].state # "absent" /\ worker[q].attempt \in 1 .. job'[d].made + 1
    BY <2>3 DEF JobMoves, Jobs, Base, TypesOK
  <2>5. worker[q].owns => job'[d].state = "active" /\ worker[q].attempt = job'[d].made + 1
    <3>1. CASE d = e /\ worker[q].owns
      BY <1>2, <2>0, <2>2, <2>3, <3>1 DEF WorkersMove, Owns
    <3>2. CASE d # e
      BY <2>3, <3>2 DEF JobMoves
    <3> QED BY <3>1, <3>2
  <2>6. Plain(MsgOf(d))' => outbox'[d].about[2] = "deliver"
    BY <1>0, <2>3
  <2>7. d \in Event' /\ worker'[q].event = d /\ worker'[q].owns = worker[q].owns
        /\ worker'[q].attempt = worker[q].attempt
    BY <1>0, <2>0, <2>1, <2>3
  <2>8. Plain(MsgOf(worker[q].event))' => outbox'[worker'[q].event].about[2] = "deliver"
    BY <2>6, <2>7 DEF Plain, MsgOf
  <2> QED BY <2>0, <2>4, <2>5, <2>7, <2>8 DEF WorkerStands, Busy
<1>3. \A q \in Worker : WorkerStands(q)'
  BY <1>2 DEF WorkersMove
<1>4. ASSUME NEW p \in Worker, NEW q \in Worker, NEW d \in Event', Owns(p, d)', Owns(q, d)'
      PROVE  p = q
  <2>1. CASE d \notin Event
    <3>1. (p \in P /\ q \in P) \/ p \notin P \/ q \notin P
      OBVIOUS
    <3>2. ASSUME NEW x \in Worker, x \notin P, Owns(x, d)' PROVE FALSE
      BY <2>1, <3>2 DEF WorkersMove, Owns, Busy, Base, WorkersStand, WorkerStands
    <3>3. d \notin EventId \/ job'[d].state = "absent"
      BY <2>1, EventsKnown DEF JobMoves, Base, JobsStand
    <3>4. job'[d].state # "absent" /\ d \in EventId
      <4>1. WorkerStands(p)' /\ Busy(p)' /\ worker'[p].event = d
        BY <1>3, <1>4 DEF Owns
      <4>2. Event' \subseteq EventId
        BY IdsLater
      <4> QED BY <4>1, <4>2 DEF WorkerStands
    <3> QED BY <3>3, <3>4
  <2>2. CASE d \in Event /\ (p \in P \/ q \in P)
    BY <1>4, <2>2 DEF WorkersMove
  <2>3. CASE d \in Event /\ p \notin P /\ q \notin P
    <3>1. Owns(p, d) /\ Owns(q, d)
      BY <1>4, <2>3 DEF WorkersMove, Owns, Busy
    <3> QED BY <2>3, <3>1 DEF Base, WorkersStand
  <2> QED BY <2>1, <2>2, <2>3
<1> QED BY <1>1, <1>3, <1>4 DEF WorkersStand

\* Attempts of a message are recorded by the workers of its delivery request.
LEMMA AttemptsMove ==
  ASSUME Base, [Next]_vars, NEW e \in EventId, JobMoves(e),
         \A m \in Msg : message[m].status = "absent" => attempts'[m] = {},
         \A d \in Event : Delivers(d) =>
           \/ attempts'[MsgOf(d)] = attempts[MsgOf(d)]
           \/ \E n \in 1 .. job[d].made + 1 :
                attempts'[MsgOf(d)] = attempts[MsgOf(d)] \cup {n} /\ job[d].state # "absent"
  PROVE  AttemptsStand'
<1>1. EventsGrow
  BY StepsOnEvents
<1>2. ASSUME NEW d \in Event, Delivers(d)'
      PROVE  /\ attempts'[MsgOf(d)'] \subseteq 1 .. job'[d].made + 1
             /\ job'[d].state = "absent" => attempts'[MsgOf(d)'] = {}
  <2>1. MsgOf(d)' = MsgOf(d) /\ Delivers(d) /\ d \in EventId
    BY <1>2, EventsKeepTheirMessage, EventsKnown
  <2>2. job[d] \in Jobs /\ job'[d] \in Jobs /\ job'[d].made >= job[d].made
        /\ (job'[d].state = "absent" => job[d].state = "absent")
    BY <2>1 DEF JobMoves, Jobs, Base, TypesOK
  <2>3. attempts[MsgOf(d)] \subseteq 1 .. job[d].made + 1
        /\ (job[d].state = "absent" => attempts[MsgOf(d)] = {})
    BY <2>1 DEF Base, AttemptsStand
  <2>4. 1 .. job[d].made + 1 \subseteq 1 .. job'[d].made + 1
    BY <2>2 DEF Jobs
  <2> QED BY <2>1, <2>2, <2>3, <2>4
<1>3. ASSUME NEW m \in Msg, NEW kind \in {"deliver", "reconcile"}, Appends(m, kind),
             NEW d \in Event', d \notin Event, Delivers(d)'
      PROVE  /\ attempts'[MsgOf(d)'] \subseteq 1 .. job'[d].made + 1
             /\ job'[d].state = "absent" => attempts'[MsgOf(d)'] = {}
  <2>1. MsgOf(d)' = m /\ kind = "deliver"
    BY <1>3, NewEvent DEF Delivers
  <2>2. message[m].status = "absent"
    BY <1>3, <2>1, DeliveriesAreAsked
  <2> QED BY <2>1, <2>2
<1> QED BY <1>1, <1>2, <1>3 DEF AttemptsStand, EventsGrow

\* A worker with an answer, or with the outcome of its job, keeps the job.
LEMMA AnswersMove ==
  ASSUME Base, [Next]_vars, NEW p \in Worker, Busy(p), NEW e, e = worker[p].event, UNCHANGED job,
         NEW at \in {"answered", "ended"}, NEW how,
         WorkerBecomes(p, at, worker[p].event, worker[p].attempt, worker[p].owns, how)
  PROVE  e \in EventId /\ JobMoves(e) /\ JobsStand' /\ WorkersStand'
<1>1. e \in Event /\ e \in EventId /\ job[e] \in Jobs /\ WorkerStands(p)
  BY BusyWorker
<1>2. JobMoves(e)
  BY <1>1 DEF JobMoves, Jobs, Base, TypesOK, JobsStand
<1>3. WorkersMove({p}, e)
  <2>1. e \in Event' /\ (Plain(MsgOf(e))' <=> Plain(MsgOf(e))) /\ outbox'[e].about = outbox[e].about
    BY <1>1, EventsKeepTheirMessage
  <2>2. Plain(MsgOf(worker[p].event))' <=> Plain(MsgOf(e))'
    BY DEF WorkerBecomes, Plain, MsgOf
  <2>3. WorkerStands(p)'
    BY <1>1, <2>1, <2>2 DEF WorkerStands, WorkerBecomes, Busy
  <2>4. \A q \in Worker, d \in Event : Owns(p, d)' /\ Owns(q, d)' => p = q
    BY DEF WorkerBecomes, Owns, Busy, Base, WorkersStand
  <2> QED BY <2>3, <2>4 DEF WorkersMove, WorkerBecomes
<1> QED BY <1>1, <1>2, <1>3, JobsAndWorkersMove

\* A worker that puts its job down, or dies with it.
LEMMA IdleMoves ==
  ASSUME Base, [Next]_vars, NEW p \in Worker, NEW e \in EventId, JobMoves(e),
         \/ job'[e].made = job[e].made /\ (job[e].state = "active" => job'[e].state = "active")
         \/ Owns(p, e),
         WorkerBecomes(p, "idle", 0, 0, FALSE, "none")
  PROVE  JobsStand' /\ WorkersStand'
<1>1. WorkerStands(p)' /\ ~Busy(p)'
  BY DEF WorkerStands, WorkerBecomes, Busy
<1>2. \A q \in Worker, d \in Event : Owns(p, d)' /\ Owns(q, d)' => p = q
  BY <1>1 DEF Owns
<1>3. Owns(p, e) => \A q \in Worker \ {p} : ~Owns(q, e)
  BY DEF Base, WorkersStand, WorkerStands, Owns
<1>4. WorkersMove({p}, e)
  BY <1>1, <1>2, <1>3 DEF WorkersMove, WorkerBecomes
<1> QED BY <1>4, JobsAndWorkersMove

JobsNext == TypesOK' /\ JobsStand' /\ WorkersStand' /\ AttemptsStand'

\* Attempts that no step records.
LEMMA AttemptsStay ==
  ASSUME Base, [Next]_vars, NEW e \in EventId, JobMoves(e), UNCHANGED attempts
  PROVE  AttemptsStand'
  BY AttemptsMove DEF Base, RowsStand

LEMMA PickStands ==
  ASSUME Base, [Next]_vars, NEW e \in Event, NEW p \in Worker, Pick(p, e)
  PROVE  JobsNext
<1> USE TwoEventsAMessage
<1>1. /\ e \in EventId /\ job[e].state = "waiting" /\ worker[p].at = "idle"
      /\ \/ /\ Eligible(e)
            /\ JobBecomes(e, "active", job[e].made, job[e].stalls)
            /\ WorkerBecomes(p, "loaded", e, job[e].made + 1, TRUE, "none")
         \/ /\ ~Eligible(e)
            /\ JobBecomes(e, "completed", job[e].made, job[e].stalls)
            /\ UNCHANGED worker
      /\ UNCHANGED <<outboxVars, message, attempts, terminal, copies, doubts, mishaps>>
  BY PickEffect
<1>2. /\ job[e] \in Jobs /\ job[e].made < Attempts /\ job[e].stalls <= MaxStalls
      /\ ~\E q \in Worker : Owns(q, e)
  BY <1>1 DEF Base, TypesOK, JobsStand, Live, WorkersStand, WorkerStands, Owns
<1>3. JobMoves(e)
  <2>1. PICK state \in {"active", "completed"} : JobBecomes(e, state, job[e].made, job[e].stalls)
    BY <1>1
  <2> QED BY <1>1, <1>2, <2>1 DEF JobMoves, JobBecomes, Jobs, Live
<1>4. CASE Eligible(e)
  <2>1. e \in Event' /\ (Plain(MsgOf(e))' <=> Plain(MsgOf(e))) /\ outbox'[e].about = outbox[e].about
    BY EventsKeepTheirMessage
  <2>2. Plain(MsgOf(worker[p].event))' <=> Plain(MsgOf(e))'
    BY <1>1, <1>4 DEF WorkerBecomes, Plain, MsgOf
  <2>3. Plain(MsgOf(e)) => outbox[e].about[2] = "deliver"
    BY <1>4, EventsKnown DEF Eligible, Plain, Base, RowsStand
  <2>4. WorkerStands(p)'
    <3>1. /\ worker'[p].at = "loaded" /\ worker'[p].event = e /\ worker'[p].attempt = job[e].made + 1
          /\ job'[e].state = "active" /\ job'[e].made = job[e].made
      BY <1>1, <1>4 DEF WorkerBecomes, JobBecomes
    <3>2. job[e].made \in Nat
      BY <1>2 DEF Jobs
    <3>3. worker'[p].attempt \in 1 .. job'[e].made + 1
      BY <3>1, <3>2
    <3>4. Plain(MsgOf(worker[p].event))' => outbox'[e].about[2] = "deliver"
      BY <2>1, <2>2, <2>3
    <3> QED BY <2>1, <3>1, <3>3, <3>4 DEF WorkerStands, Busy
  <2>5. \A q \in Worker, d \in Event : Owns(p, d)' /\ Owns(q, d)' => p = q
    BY <1>1, <1>2, <1>4 DEF WorkerBecomes, Owns, Busy
  <2>6. WorkersMove({p}, e)
    BY <1>1, <1>2, <1>4, <2>4, <2>5 DEF WorkersMove, WorkerBecomes, JobBecomes
  <2> QED BY <1>1, <1>3, <1>4, <2>6, JobsAndWorkersMove, AttemptsStay
          DEF JobsNext, Base, TypesOK, JobBecomes, WorkerBecomes
<1>5. CASE ~Eligible(e)
  <2>1. WorkersMove({}, e)
    BY <1>1, <1>2, <1>5 DEF WorkersMove, Base, TypesOK, JobBecomes
  <2> QED BY <1>1, <1>3, <1>5, <2>1, JobsAndWorkersMove, AttemptsStay
          DEF JobsNext, Base, TypesOK, JobBecomes
<1> QED BY <1>4, <1>5

LEMMA SendStands ==
  ASSUME Base, [Next]_vars, NEW p \in Worker, Send(p)
  PROVE  JobsNext
<1>1. PICK m : m = MsgOf(worker[p].event)
  OBVIOUS
<1>2. Busy(p)
  BY DEF Send, Busy
<1>3. m \in Msg
  BY <1>1, <1>2, BusyWorker
<1>4. PICK answer :
        /\ WorkerBecomes(p, "answered", worker[p].event, worker[p].attempt, worker[p].owns, answer)
        /\ Answered(m, answer) /\ UNCHANGED <<attempts, job, mishaps>>
  BY <1>1, SendEffect
<1>5. doubts' \in [Msg -> Nat]
  BY <1>3, <1>4 DEF Base, TypesOK, Answered
<1>6. PICK e : e = worker[p].event
  OBVIOUS
<1>7. e \in EventId /\ JobMoves(e) /\ JobsStand' /\ WorkersStand'
  BY <1>2, <1>4, <1>6, AnswersMove
<1>8. AttemptsStand'
  BY <1>4, <1>7, AttemptsStay
<1> QED BY <1>4, <1>5, <1>7, <1>8 DEF JobsNext, Base, TypesOK, WorkerBecomes

LEMMA RecordStands ==
  ASSUME Base, [Next]_vars, NEW p \in Worker, RecordDeliveryAttempt(p)
  PROVE  JobsNext
<1>1. PICK m, e, v : m = MsgOf(worker[p].event) /\ e = worker[p].event /\ v = Verdict(p)
  OBVIOUS
<1>2. Busy(p)
  BY DEF RecordDeliveryAttempt, Busy
<1>3. /\ m \in Msg /\ e \in Event /\ message[m].status # "absent"
      /\ WorkerStands(p) /\ job[e].state # "absent"
  BY <1>1, <1>2, BusyWorker DEF WorkerStands
<1>4. PICK how :
        /\ WorkerBecomes(p, "ended", worker[p].event, worker[p].attempt, worker[p].owns, how)
        /\ attempts' = attempts \/ attempts' = [attempts EXCEPT ![m] = @ \cup {worker[p].attempt}]
        /\ UNCHANGED <<job, doubts, mishaps>>
  BY <1>1, RecordEffect
<1>5. e \in EventId /\ JobMoves(e) /\ JobsStand' /\ WorkersStand'
  BY <1>1, <1>2, <1>4, AnswersMove
<1>6. attempts' \in [Msg -> SUBSET (1 .. Attempts)] /\ \A n \in Msg : n # m => attempts'[n] = attempts[n]
  BY <1>1, RecordedRows
<1>7. \A n \in Msg : message[n].status = "absent" => attempts'[n] = {}
  BY <1>3, <1>6 DEF Base, RowsStand
<1>8. ASSUME NEW d \in Event, Delivers(d)
      PROVE  \/ attempts'[MsgOf(d)] = attempts[MsgOf(d)]
             \/ \E n \in 1 .. job[d].made + 1 :
                  attempts'[MsgOf(d)] = attempts[MsgOf(d)] \cup {n} /\ job[d].state # "absent"
  <2>1. CASE MsgOf(d) # m
    BY <1>6, <2>1, EventsKnown
  <2>2. CASE MsgOf(d) = m
    <3>0. MsgOf(e) = m
      BY <1>1
    <3>1. outbox[e].about[2] = "deliver"
      BY <1>1, <1>3, <1>8, <2>2, <3>0, <1>2 DEF WorkerStands, Delivers
    <3>2. d = e
      BY <1>3, <1>8, <2>2, <3>0, <3>1, OneDelivery
    <3>3. worker[p].attempt \in 1 .. job[d].made + 1
      BY <1>1, <1>2, <1>3, <3>2 DEF WorkerStands
    <3>4. attempts'[m] = attempts[m] \/ attempts'[m] = attempts[m] \cup {worker[p].attempt}
      BY <1>3, <1>4 DEF Base, TypesOK
    <3> QED BY <1>3, <2>2, <3>2, <3>3, <3>4
  <2> QED BY <2>1, <2>2
<1>9. AttemptsStand'
  BY <1>5, <1>7, <1>8, AttemptsMove
<1> QED BY <1>4, <1>5, <1>6, <1>9 DEF JobsNext, Base, TypesOK, WorkerBecomes

LEMMA ThrowsStands ==
  ASSUME Base, [Next]_vars, NEW p \in Worker, Throws(p)
  PROVE  JobsNext
<1>1. /\ WorkerBecomes(p, "ended", worker[p].event, worker[p].attempt, worker[p].owns, "throws")
      /\ mishaps' = mishaps + 1 /\ UNCHANGED <<attempts, job, doubts>> /\ Busy(p)
  BY ThrowsEffect DEF Busy
<1>2. PICK e : e = worker[p].event
  OBVIOUS
<1>3. e \in EventId /\ JobMoves(e) /\ JobsStand' /\ WorkersStand'
  BY <1>1, <1>2, AnswersMove
<1> QED BY <1>1, <1>3, AttemptsStay DEF JobsNext, Base, TypesOK, WorkerBecomes

LEMMA FinishStands ==
  ASSUME Base, [Next]_vars, NEW p \in Worker, Finish(p)
  PROVE  JobsNext
<1> USE TwoEventsAMessage
<1>1. PICK e : e = worker[p].event
  OBVIOUS
<1>2. Busy(p)
  BY DEF Finish, Busy
<1>3. /\ e \in Event /\ e \in EventId /\ job[e] \in Jobs /\ WorkerStands(p) /\ job[e].state # "absent"
  BY <1>1, <1>2, BusyWorker DEF WorkerStands
<1>4. /\ WorkerBecomes(p, "idle", 0, 0, FALSE, "none")
      /\ \/ ~worker[p].owns /\ UNCHANGED job
         \/ /\ worker[p].owns /\ worker[p].answer = "throws"
            /\ JobBecomes(e, IF job[e].made + 1 >= Attempts THEN "failed" ELSE "waiting", job[e].made + 1, job[e].stalls)
         \/ /\ worker[p].owns /\ worker[p].answer # "throws"
            /\ JobBecomes(e, "completed", job[e].made, job[e].stalls)
      /\ UNCHANGED <<outboxVars, message, attempts, terminal, copies, doubts, mishaps>>
  BY <1>1, FinishEffect
<1>5. worker[p].owns => /\ Owns(p, e) /\ job[e].state = "active" /\ job[e].stalls <= MaxStalls
  BY <1>1, <1>2, <1>3 DEF Owns, WorkerStands, Base, JobsStand, Live
<1>6. JobMoves(e) /\ job' \in [EventId -> Jobs]
  <2>1. CASE UNCHANGED job
    BY <1>3, <2>1 DEF JobMoves, Base, TypesOK, Jobs, JobsStand
  <2>2. CASE worker[p].owns /\ ~UNCHANGED job
    BY <1>3, <1>4, <1>5, <2>2 DEF JobMoves, JobBecomes, Jobs, Live
  <2> QED BY <1>4, <2>1, <2>2
<1>7. \/ job'[e].made = job[e].made /\ (job[e].state = "active" => job'[e].state = "active")
      \/ Owns(p, e)
  BY <1>4, <1>5
<1>8. JobsStand' /\ WorkersStand'
  BY <1>3, <1>4, <1>6, <1>7, IdleMoves
<1> QED BY <1>3, <1>4, <1>6, <1>8, AttemptsStay DEF JobsNext, Base, TypesOK, WorkerBecomes

LEMMA WorkerDiesStands ==
  ASSUME Base, [Next]_vars, NEW p \in Worker, WorkerDies(p)
  PROVE  JobsNext
<1>1. /\ Busy(p) /\ WorkerBecomes(p, "idle", 0, 0, FALSE, "none") /\ mishaps' = mishaps + 1
      /\ UNCHANGED <<attempts, job, doubts>>
  BY WorkerDiesEffect
<1>2. PICK e : e = worker[p].event
  OBVIOUS
<1>3. e \in EventId /\ job[e] \in Jobs
  BY <1>1, <1>2, BusyWorker
<1>4. JobMoves(e)
  BY <1>1, <1>3 DEF JobMoves, Base, TypesOK, Jobs, JobsStand
<1>5. JobsStand' /\ WorkersStand'
  BY <1>1, <1>3, <1>4, IdleMoves
<1> QED BY <1>1, <1>3, <1>4, <1>5, AttemptsStay DEF JobsNext, Base, TypesOK, WorkerBecomes

LEMMA StallStands ==
  ASSUME Base, [Next]_vars, NEW e \in Event, Stall(e)
  PROVE  JobsNext
<1> USE TwoEventsAMessage
<1>1. /\ e \in EventId /\ job[e].state = "active" /\ worker' \in [Worker -> Memories]
      /\ \A p \in Worker : ~Owns(p, e) => worker'[p] = worker[p]
      /\ \A p \in Worker : Owns(p, e) =>
           /\ worker'[p].at = worker[p].at /\ worker'[p].event = e /\ ~worker'[p].owns
           /\ worker'[p].attempt = worker[p].attempt /\ worker'[p].answer = worker[p].answer
      /\ mishaps' = mishaps + 1 \/ mishaps' = mishaps
      /\ UNCHANGED <<outbox, held, message, attempts, terminal, copies, doubts>>
  BY StallEffect
<1>2. PICK state \in {"failed", "waiting"} :
              /\ state = "waiting" => job[e].stalls < MaxStalls
              /\ JobBecomes(e, state, job[e].made, job[e].stalls + 1)
  BY StallEffect
<1>3. job[e] \in Jobs /\ job[e].made < Attempts /\ job[e].stalls <= MaxStalls
  BY <1>1 DEF Base, TypesOK, JobsStand, Live
<1>4. JobMoves(e)
  BY <1>1, <1>2, <1>3 DEF JobMoves, JobBecomes, Jobs, Live
<1> DEFINE P == {p \in Worker : Owns(p, e)}
<1>5. WorkersMove(P, e)
  <2>1. e \in Event' /\ (Plain(MsgOf(e))' <=> Plain(MsgOf(e))) /\ outbox'[e].about = outbox[e].about
    BY EventsKeepTheirMessage
  <2>2. ASSUME NEW p \in Worker, Owns(p, e) PROVE WorkerStands(p)' /\ ~worker'[p].owns
    <3>1. WorkerStands(p) /\ worker[p].event = e /\ Busy(p) /\ worker[p].owns
      BY <2>2 DEF Base, WorkersStand, Owns
    <3>2. Plain(MsgOf(worker[p].event))' <=> Plain(MsgOf(e))'
      BY <1>1, <2>2 DEF Plain, MsgOf
    <3> QED BY <1>1, <1>2, <2>1, <2>2, <3>1, <3>2 DEF WorkerStands, JobBecomes, Busy
  <2>3. \A p \in P, q \in Worker, d \in Event : Owns(p, d)' /\ Owns(q, d)' => p = q
    BY <2>2 DEF Owns
  <2>4. \A q \in Worker \ P : ~Owns(q, e)
    OBVIOUS
  <2> QED BY <1>1, <2>2, <2>3, <2>4 DEF WorkersMove
<1>6. P \in SUBSET Worker
  OBVIOUS
<1> HIDE DEF P
<1>7. JobsStand' /\ WorkersStand' /\ AttemptsStand'
  BY <1>1, <1>4, <1>5, <1>6, JobsAndWorkersMove, AttemptsStay
<1>8. TypesOK'
  BY <1>1, <1>2 DEF Base, TypesOK, JobBecomes
<1> QED BY <1>7, <1>8 DEF JobsNext

LEMMA PublishStands ==
  ASSUME Base, [Next]_vars, NEW w \in Relay, NEW c \in held[w], Publish(w, c)
  PROVE  JobsNext
<1> USE TwoEventsAMessage
<1>1. PICK e : e = c.event
  OBVIOUS
<1>2. /\ e \in Event /\ e \in EventId
      /\ \/ UNCHANGED job
         \/ job[e].state = "absent" /\ JobBecomes(e, "waiting", job[e].made, job[e].stalls)
      /\ UNCHANGED <<outbox, message, attempts, terminal, worker, copies, doubts, mishaps>>
  BY <1>1, PublishEffect
<1>3. CASE UNCHANGED job
  <2>1. JobMoves(e)
    BY <1>2, <1>3 DEF JobMoves, Base, TypesOK, Jobs, JobsStand
  <2> QED BY <1>2, <1>3, <2>1, NothingMoves, AttemptsStay DEF JobsNext, Base, TypesOK
<1>4. CASE job[e].state = "absent" /\ JobBecomes(e, "waiting", job[e].made, job[e].stalls)
  <2>1. JobMoves(e) /\ job' \in [EventId -> Jobs]
    BY <1>2, <1>4 DEF JobMoves, JobBecomes, Base, TypesOK, Jobs, JobsStand, Live
  <2>2. WorkersMove({}, e)
    BY <1>2, <1>4 DEF WorkersMove, JobBecomes, Base, TypesOK
  <2> QED BY <1>2, <2>1, <2>2, JobsAndWorkersMove, AttemptsStay DEF JobsNext, Base, TypesOK
<1> QED BY <1>2, <1>3, <1>4

LEMMA NothingStands ==
  ASSUME Base, [Next]_vars, UNCHANGED <<attempts, job, worker, doubts, mishaps>>
  PROVE  JobsNext
<1>1. JobsStand' /\ WorkersStand'
  BY NothingMoves
<1>2. AttemptsStand'
  <2>1. CASE EventId = {}
    BY <2>1, IdsLater DEF AttemptsStand
  <2>2. ASSUME NEW e \in EventId PROVE AttemptsStand'
    <3>1. JobMoves(e)
      BY <1>1, <2>2, EventsKnown DEF JobMoves, Base, TypesOK, Jobs, JobsStand
    <3> QED BY <3>1, AttemptsStay
  <2> QED BY <2>1, <2>2
<1> QED BY <1>1, <1>2 DEF JobsNext, Base, TypesOK

LEMMA BaseKept == Base /\ [Next]_vars => Base'
<1> SUFFICES ASSUME Base, [Next]_vars PROVE Base'
  OBVIOUS
<1>1. JobsNext
  <2>1. \/ UNCHANGED <<attempts, job, worker, doubts, mishaps>>
        \/ \E w \in Relay : \E c \in held[w] : Publish(w, c)
        \/ \E e \in Event : Stall(e) \/ \E p \in Worker : Pick(p, e)
        \/ \E p \in Worker : Send(p) \/ RecordDeliveryAttempt(p) \/ Throws(p) \/ Finish(p) \/ WorkerDies(p)
    BY DEF Next, vars, deliveryVars, RelayStep, CreateOutboundMessage, RecordStatusReport
  <2> QED BY <2>1, NothingStands, PublishStands, StallStands, PickStands, SendStands, RecordStands,
             ThrowsStands, FinishStands, WorkerDiesStands
<1>2. HeldOK'
  BY ClaimsKept, StepsOnEvents DEF Base, EventsGrow
<1> QED BY <1>1, <1>2, IdsLater, RowsKept DEF Base, JobsNext

LEMMA BaseStarts == Init => Base
<1> SUFFICES ASSUME Init PROVE Base
  OBVIOUS
<1> USE TwoEventsAMessage
<1>1. IInv
  BY InvStarts
<1>2. Event = {} /\ held = [w \in Relay |-> {}] /\ faults = 0
  BY DEF Init, RelayInit, Event
<1>3. HeldOK
  BY <1>2, RelayAssumption DEF HeldOK
<1>4. TypesOK /\ JobsStand /\ \A p \in Worker : worker[p].at = "idle" /\ worker[p].event = 0
  <2>1. NoJob \in Jobs /\ NoJob.state = "absent" /\ NoJob.made = 0 /\ NoJob.stalls = 0
    BY DEF NoJob, Jobs
  <2>2. IdleWorker \in Memories /\ IdleWorker.at = "idle" /\ IdleWorker.event = 0
    BY DEF IdleWorker, Memories
  <2>3. TypesOK
    BY <2>1, <2>2 DEF Init, TypesOK
  <2>4. JobsStand
    BY <2>1 DEF Init, JobsStand, Live
  <2> QED BY <2>2, <2>3, <2>4 DEF Init
<1>5. RowsStand
  <2>1. \A m \in Msg : ~message[m].known /\ copies[m] = 0 /\ attempts[m] = {}
    BY DEF Init
  <2> QED BY <1>2, <2>1 DEF RowsStand
<1>6. WorkersStand
  BY <1>2, <1>4 DEF WorkersStand, WorkerStands, Busy
<1> QED BY <1>1, <1>2, <1>3, <1>4, <1>5, <1>6 DEF Base, DeliversOnce, AttemptsStand

\* The rows, the jobs and the workers' memory have their types.
THEOREM DeliveryTypes == Spec => []TypeOK
<1>1. Base => TypeOK
  <2> SUFFICES ASSUME Base PROVE TypeOK
    OBVIOUS
  <2> USE EventsKnown
  <2>1. Event = 1 .. Len(outbox) /\ Len(outbox) \in Nat /\ Len(outbox) <= Cardinality(EventId)
    BY EventsAreIds
  <2>2. RelayTypeOK(Msg \X {"deliver", "reconcile"})
    <3>1. \A e \in Event : outbox[e] \in Rows
      BY <2>1 DEF OutboxOK
    <3>2. \A w \in Relay : \A c \in held[w] : c \in Claims
      BY DEF Base, HeldOK
    <3>3. faults \in 0 .. MaxFaults
      BY DEF Base, HeldOK
    <3> QED BY <3>1, <3>2, <3>3 DEF RelayTypeOK, Rows, Claims
  <2>3. worker \in [Worker -> [at : {"idle", "loaded", "answered", "ended"}, event : 0 .. Len(outbox),
                            attempt : 0 .. Attempts, owns : BOOLEAN,
                            answer : {"none", "sent", "unknown", "busy", "refused", "throws", "returns"}]]
    BY <2>1 DEF Base, TypesOK, Memories, WorkersStand, WorkerStands
  <2> QED BY <2>1, <2>2, <2>3 DEF TypeOK, MessageOK, Base, TypesOK, Jobs
<1> QED BY <1>1, BaseStarts, BaseKept, PTL DEF Spec

(***************************************************************************)
(* The account of a message's deliveries.                                  *)
(***************************************************************************)
\* Where the provider recognises the message it delivers it once.
RecognisedOnce == \A m \in Msg : ~Plain(m) => copies[m] <= 1

\* The workers that have lost the job and may still deliver, or have delivered
\* and will not be believed: a mishap is set aside for each.
MayAdd(e) ==
  {p \in Worker : /\ Busy(p) /\ worker[p].event = e /\ ~worker[p].owns
                  /\ \/ worker[p].at = "loaded"
                     \/ /\ worker[p].at = "answered" /\ worker[p].answer # "sent"
                        /\ worker[p].attempt \notin attempts[MsgOf(e)]}

\* The number of the job's next attempt is taken.
Taken(e) == job[e].made + 1 \in attempts[MsgOf(e)]

Sends(e) == \E p \in Worker : Owns(p, e) /\ worker[p].at = "loaded"
Answers(e) == \E p \in Worker : Owns(p, e) /\ worker[p].at \in {"answered", "ended"}

\* The job will deliver, and its attempt cannot be recorded.
Wasted(e) == Taken(e) /\ (job[e].state = "waiting" \/ (job[e].state = "active" /\ ~Answers(e)))

\* The job has delivered, and the verdict will be recorded.
Sure(e) == \E p \in Worker : Owns(p, e) /\ worker[p].at = "answered" /\ worker[p].answer = "sent"
WillRecord(e) == ~Taken(e) /\ Sure(e)

One(b) == IF b THEN 1 ELSE 0

Queued(e) == message[MsgOf(e)].status = "queued"

\* What is still to come, and what the first delivery is worth.
Owed(e) == One(IF Queued(e) THEN Wasted(e) ELSE Sends(e))
Free(e) == One(Queued(e) => WillRecord(e))

Account(e) ==
  LET m == MsgOf(e) IN
  copies[m] + Cardinality(MayAdd(e)) + Owed(e) <= doubts[m] + mishaps + Free(e)

AccountsStand == \A e \in Event : Delivers(e) => Account(e)

LEMMA Counts ==
  ASSUME NEW S \in SUBSET Worker, NEW T \in SUBSET Worker, NEW p \in Worker
  PROVE  /\ Cardinality(S) \in Nat /\ Cardinality(T) \in Nat
         /\ T \subseteq S => Cardinality(T) <= Cardinality(S)
         /\ p \in S /\ T \subseteq S \ {p} => Cardinality(T) + 1 <= Cardinality(S)
         /\ T \subseteq S \cup {p} => Cardinality(T) <= Cardinality(S) + 1
<1>1. IsFiniteSet(S) /\ IsFiniteSet(T)
  BY TwoEventsAMessage, FS_Subset
<1>2. Cardinality(S) \in Nat /\ Cardinality(T) \in Nat
  BY <1>1, FS_CardinalityType
<1>3. ASSUME T \subseteq S PROVE Cardinality(T) <= Cardinality(S)
  BY <1>1, <1>3, FS_Subset
<1>4. ASSUME p \in S, T \subseteq S \ {p} PROVE Cardinality(T) + 1 <= Cardinality(S)
  <2>1. IsFiniteSet(S \ {p}) /\ Cardinality(S \ {p}) = Cardinality(S) - 1
    BY <1>1, <1>4, FS_RemoveElement
  <2>2. Cardinality(T) <= Cardinality(S \ {p})
    BY <1>4, <2>1, FS_Subset
  <2> QED BY <1>2, <2>1, <2>2
<1>5. ASSUME T \subseteq S \cup {p} PROVE Cardinality(T) <= Cardinality(S) + 1
  <2>0. /\ IsFiniteSet(S \cup {p})
        /\ Cardinality(S \cup {p}) = IF p \in S THEN Cardinality(S) ELSE Cardinality(S) + 1
    BY <1>1, FS_AddElement
  <2>1. IsFiniteSet(S \cup {p}) /\ Cardinality(S \cup {p}) <= Cardinality(S) + 1
    BY <1>2, <2>0
  <2>2. Cardinality(T) <= Cardinality(S \cup {p})
    BY <1>5, <2>1, FS_Subset
  <2>3. Cardinality(S \cup {p}) \in Nat
    BY <2>1, FS_CardinalityType
  <2> QED BY <1>2, <2>1, <2>2, <2>3
<1> QED BY <1>2, <1>3, <1>4, <1>5

\* What the owner of a job is doing decides what the job owes.
OwnerDecides ==
  \A e \in Event, p \in Worker :
    Owns(p, e) => /\ Wasted(e) <=> Taken(e) /\ worker[p].at = "loaded"
                  /\ Sends(e) <=> worker[p].at = "loaded"
                  /\ WillRecord(e) <=> /\ ~Taken(e) /\ worker[p].at = "answered"
                                       /\ worker[p].answer = "sent"

LEMMA OwnersDecide == Base => OwnerDecides
<1> SUFFICES ASSUME Base, NEW e \in Event, NEW p \in Worker, Owns(p, e)
             PROVE  /\ Wasted(e) <=> Taken(e) /\ worker[p].at = "loaded"
                    /\ Sends(e) <=> worker[p].at = "loaded"
                    /\ WillRecord(e) <=> /\ ~Taken(e) /\ worker[p].at = "answered"
                                         /\ worker[p].answer = "sent"
  BY DEF OwnerDecides
<1>1. \A q \in Worker : Owns(q, e) => q = p
  BY DEF Base, WorkersStand
<1>2. job[e].state = "active" /\ worker[p].at \in {"loaded", "answered", "ended"}
  BY DEF Owns, Base, WorkersStand, WorkerStands, TypesOK, Memories, Busy
<1> QED BY <1>1, <1>2 DEF Wasted, Sends, Answers, WillRecord, Sure

LEMMA OwnersDecideNext ==
  ASSUME Base, [Next]_vars
  PROVE  OwnerDecides'
<1>1. (Base => OwnerDecides)'
  BY OwnersDecide, PTL
<1> QED BY <1>1, BaseKept

\* The sums of an event that was there: numbers, and a rigid event.
LEMMA Sums ==
  ASSUME Base, [Next]_vars, NEW e \in Event, NEW m, m = MsgOf(e)
  PROVE  /\ MsgOf(e)' = m /\ m \in Msg
         /\ copies[m] \in Nat /\ doubts[m] \in Nat /\ mishaps \in Nat
         /\ copies'[m] \in Nat /\ doubts'[m] \in Nat /\ mishaps' \in Nat
         /\ MayAdd(e) \in SUBSET Worker /\ MayAdd(e)' \in SUBSET Worker
         /\ Cardinality(MayAdd(e)) \in Nat /\ Cardinality(MayAdd(e)') \in Nat
         /\ Owed(e) = IF IF Queued(e) THEN Wasted(e) ELSE Sends(e) THEN 1 ELSE 0
         /\ Owed(e)' = IF IF Queued(e)' THEN Wasted(e)' ELSE Sends(e)' THEN 1 ELSE 0
         /\ Free(e) = IF Queued(e) => WillRecord(e) THEN 1 ELSE 0
         /\ Free(e)' = IF Queued(e)' => WillRecord(e)' THEN 1 ELSE 0
         /\ Account(e) <=> copies[m] + Cardinality(MayAdd(e)) + Owed(e) <= doubts[m] + mishaps + Free(e)
         /\ Account(e)' <=> copies'[m] + Cardinality(MayAdd(e)') + Owed(e)' <= doubts'[m] + mishaps' + Free(e)'
         /\ Queued(e) <=> message[m].status = "queued"
         /\ Queued(e)' <=> message'[m].status = "queued"
<1>1. MsgOf(e)' = m /\ m \in Msg
  BY EventsKeepTheirMessage, EventsKnown
<1>2. Base'
  BY BaseKept
<1>3. MayAdd(e) \in SUBSET Worker /\ MayAdd(e)' \in SUBSET Worker
  BY DEF MayAdd
<1>4. Cardinality(MayAdd(e)) \in Nat /\ Cardinality(MayAdd(e)') \in Nat
  BY <1>3, TwoEventsAMessage, FS_Subset, FS_CardinalityType
<1>5. /\ copies[m] \in Nat /\ doubts[m] \in Nat /\ mishaps \in Nat
      /\ copies'[m] \in Nat /\ doubts'[m] \in Nat /\ mishaps' \in Nat
  BY <1>1, <1>2 DEF Base, IInv, RowsOK, MessageOK, TypesOK
<1> QED BY <1>1, <1>3, <1>4, <1>5 DEF Owed, Free, One, Account, Queued

\* A step that touches nothing of the account.
LEMMA AccountUntouched ==
  ASSUME Base, [Next]_vars, NEW e \in Event, Account(e), NEW m, m = MsgOf(e),
         copies'[m] = copies[m], doubts'[m] = doubts[m], mishaps' >= mishaps,
         Queued(e)' <=> Queued(e), MayAdd(e)' \subseteq MayAdd(e),
         Wasted(e)' => Wasted(e), Sends(e)' => Sends(e), WillRecord(e) => WillRecord(e)'
  PROVE  Account(e)'
<1>1. Cardinality(MayAdd(e)') <= Cardinality(MayAdd(e))
  BY Sums, TwoEventsAMessage, FS_Subset
<1> QED BY <1>1, Sums

\* The workers P work on another job, d.
LEMMA OtherAccount ==
  ASSUME Base, [Next]_vars, NEW e \in Event, Account(e), NEW m, m = MsgOf(e),
         NEW d, d # e, NEW P \in SUBSET Worker,
         \A q \in Worker \ P : worker'[q] = worker[q],
         \A p \in P : (Busy(p) => worker[p].event = d) /\ (Busy(p)' => worker'[p].event = d),
         job'[e] = job[e], attempts'[m] = attempts[m], copies'[m] = copies[m],
         doubts'[m] = doubts[m], mishaps' >= mishaps, message'[m].status = message[m].status
  PROVE  Account(e)'
<1>1. MsgOf(e)' = m
  BY Sums
<1>2. MayAdd(e)' \subseteq MayAdd(e)
  BY <1>1 DEF MayAdd, Busy
<1>3. ASSUME NEW p \in Worker
      PROVE  /\ Owns(p, e)' <=> Owns(p, e)
             /\ Owns(p, e) => worker'[p] = worker[p]
  BY DEF Owns, Busy
<1>4. Taken(e)' <=> Taken(e)
  BY <1>1 DEF Taken
<1>5. /\ Sends(e)' <=> Sends(e)
      /\ Answers(e)' <=> Answers(e)
      /\ Sure(e)' <=> Sure(e)
  BY <1>3 DEF Sends, Answers, Sure
<1>6. (Wasted(e)' <=> Wasted(e)) /\ (WillRecord(e)' <=> WillRecord(e))
  BY <1>4, <1>5 DEF Wasted, WillRecord
<1>7. Queued(e)' <=> Queued(e)
  BY Sums
<1> QED BY <1>2, <1>5, <1>6, <1>7, AccountUntouched

LEMMA OtherAccountOfOne ==
  ASSUME Base, [Next]_vars, NEW e \in Event, Account(e), NEW m, m = MsgOf(e),
         NEW d, d # e, NEW p \in Worker,
         \A q \in Worker \ {p} : worker'[q] = worker[q],
         Busy(p) => worker[p].event = d, Busy(p)' => worker'[p].event = d,
         job'[e] = job[e], attempts'[m] = attempts[m], copies'[m] = copies[m],
         doubts'[m] = doubts[m], mishaps' >= mishaps, message'[m].status = message[m].status
  PROVE  Account(e)'
<1>1. PICK P \in SUBSET Worker : P = {p}
  OBVIOUS
<1>2. \A q \in P : (Busy(q) => worker[q].event = d) /\ (Busy(q)' => worker'[q].event = d)
  BY <1>1
<1>3. \A q \in Worker \ P : worker'[q] = worker[q]
  BY <1>1
<1> QED BY <1>2, <1>3, OtherAccount

LEMMA OtherMessage ==
  ASSUME Base, NEW p \in Worker, Busy(p), NEW e \in Event, Delivers(e), worker[p].event # e
  PROVE  MsgOf(worker[p].event) # MsgOf(e)
<1>1. PICK d \in Event : d = worker[p].event /\ (Plain(MsgOf(d)) => outbox[d].about[2] = "deliver")
  BY BusyWorker DEF WorkerStands
<1> QED BY <1>1, OneDelivery DEF Delivers

\* A worker that has lost its job does not change what the owner is doing.
LEMMA OwnersStay ==
  ASSUME NEW e \in Event, NEW p \in Worker, \A q \in Worker \ {p} : worker'[q] = worker[q],
         ~Owns(p, e), ~Owns(p, e)'
  PROVE  (Sends(e)' <=> Sends(e)) /\ (Answers(e)' <=> Answers(e)) /\ (Sure(e)' <=> Sure(e))
<1>1. \A q \in Worker : (Owns(q, e)' <=> Owns(q, e)) /\ (Owns(q, e) => worker'[q] = worker[q])
  BY DEF Owns, Busy
<1> QED BY <1>1 DEF Sends, Answers, Sure

LEMMA PickCounted ==
  ASSUME Base, [Next]_vars, NEW d \in Event, NEW p \in Worker, Pick(p, d),
         NEW e \in Event, Delivers(e), Account(e)
  PROVE  Account(e)'
<1>1. PICK m : m = MsgOf(e)
  OBVIOUS
<1>2. /\ d \in EventId /\ job[d].state = "waiting" /\ worker[p].at = "idle"
      /\ \/ /\ Eligible(d)
            /\ JobBecomes(d, "active", job[d].made, job[d].stalls)
            /\ WorkerBecomes(p, "loaded", d, job[d].made + 1, TRUE, "none")
         \/ /\ ~Eligible(d)
            /\ JobBecomes(d, "completed", job[d].made, job[d].stalls)
            /\ UNCHANGED worker
      /\ UNCHANGED <<message, attempts, copies, doubts, mishaps>>
  BY PickEffect
<1>3. mishaps' >= mishaps /\ e \in EventId /\ MsgOf(e)' = m
  BY <1>1, <1>2, Sums, EventsKnown
<1>4. CASE d # e
  <2>1. job'[e] = job[e]
    BY <1>2, <1>3, <1>4 DEF JobBecomes
  <2>2. \A q \in Worker \ {p} : worker'[q] = worker[q]
    BY <1>2 DEF WorkerBecomes
  <2>3. ~Busy(p) /\ (Busy(p)' => worker'[p].event = d)
    BY <1>2 DEF WorkerBecomes, Busy
  <2> QED BY <1>1, <1>2, <1>3, <1>4, <2>1, <2>2, <2>3, OtherAccountOfOne
<1>5. CASE d = e
  <2>1. ~\E q \in Worker : Owns(q, e)
    BY <1>2, <1>5 DEF Base, WorkersStand, WorkerStands, Owns
  <2>2. ~Sends(e) /\ ~Sure(e) /\ ~Answers(e)
    BY <2>1 DEF Sends, Sure, Answers
  <2>3. Queued(e)' <=> Queued(e)
    BY <1>1, <1>2, Sums
  <2>4. MayAdd(e)' \subseteq MayAdd(e)
    BY <1>1, <1>2, <1>3 DEF MayAdd, Busy, WorkerBecomes
  <2>5. Taken(e)' <=> Taken(e)
    BY <1>1, <1>2, <1>3, <1>5 DEF Taken, JobBecomes
  <2>6. CASE Eligible(d)
    <3>1. Queued(e)
      BY <1>5, <2>6 DEF Eligible, Queued, Delivers
    <3>2. Owns(p, e)' /\ worker'[p].at = "loaded" /\ e \in Event'
      BY <1>2, <1>5, <2>6, EventsKeepTheirMessage DEF WorkerBecomes, Owns, Busy
    <3>3. (Wasted(e)' <=> Taken(e)') /\ ~WillRecord(e)'
      BY <3>2, OwnersDecideNext DEF OwnerDecides
    <3>4. Wasted(e) <=> Taken(e)
      BY <1>2, <1>5, <2>2 DEF Wasted
    <3>5. Cardinality(MayAdd(e)') <= Cardinality(MayAdd(e))
      BY <2>4, Sums, Counts
    <3> QED BY <1>1, <1>2, <2>2, <2>3, <2>5, <3>1, <3>3, <3>4, <3>5, Sums DEF WillRecord
  <2>7. CASE ~Eligible(d)
    <3>1. ~Queued(e)
      BY <1>5, <2>7 DEF Eligible, Queued
    <3>2. ~Sends(e)'
      BY <1>2, <1>5, <2>1, <2>7 DEF Sends, Owns, Busy
    <3>5. Cardinality(MayAdd(e)') <= Cardinality(MayAdd(e))
      BY <2>4, Sums, Counts
    <3> QED BY <1>1, <1>2, <2>2, <2>3, <3>1, <3>2, <3>5, Sums
  <2> QED BY <2>6, <2>7
<1> QED BY <1>4, <1>5

LEMMA SendCounted ==
  ASSUME Base, [Next]_vars, NEW p \in Worker, Send(p), NEW e \in Event, Delivers(e), Account(e)
  PROVE  Account(e)'
<1>1. PICK m, d : m = MsgOf(e) /\ d = worker[p].event
  OBVIOUS
<1>0. PICK n : n = MsgOf(worker[p].event)
  OBVIOUS
<1>2. worker[p].at = "loaded" /\ UNCHANGED <<message, attempts, job, mishaps>> /\ Busy(p)
  BY <1>0, SendEffect DEF Busy
<1>3. PICK answer \in {"sent", "unknown", "busy", "refused"} :
        /\ WorkerBecomes(p, "answered", worker[p].event, worker[p].attempt, worker[p].owns, answer)
        /\ Answered(n, answer)
  BY <1>0, SendEffect
<1>4. /\ m \in Msg /\ n \in Msg /\ copies \in [Msg -> Nat] /\ doubts \in [Msg -> Nat]
      /\ MsgOf(e)' = m /\ mishaps' >= mishaps
  BY <1>0, <1>1, <1>2, Sums, BusyWorker DEF Base, IInv, RowsOK, MessageOK, TypesOK
<1>5. CASE d # e
  <2>1. m # n
    BY <1>0, <1>1, <1>2, <1>5, OtherMessage
  <2>2. copies'[m] = copies[m] /\ doubts'[m] = doubts[m]
    BY <1>3, <1>4, <2>1 DEF Answered
  <2>3. worker[p].event = d /\ worker'[p].event = d /\ \A q \in Worker \ {p} : worker'[q] = worker[q]
    BY <1>1, <1>3 DEF WorkerBecomes
  <2> QED BY <1>1, <1>2, <1>4, <1>5, <2>2, <2>3, OtherAccountOfOne
<1>6. CASE d = e
  <2>1. n = m
    BY <1>0, <1>1, <1>6
  <2>2. /\ doubts'[m] \in {doubts[m], doubts[m] + 1}
        /\ \/ copies'[m] = copies[m]
           \/ copies'[m] = copies[m] + 1 /\ (answer = "sent" \/ doubts'[m] = doubts[m] + 1)
    BY <1>3, <1>4, <2>1 DEF Answered
  <2>3. (Taken(e)' <=> Taken(e)) /\ (Queued(e)' <=> Queued(e))
    BY <1>1, <1>2, <1>4, Sums DEF Taken
  <2>4. CASE worker[p].owns
    <3>1. Owns(p, e) /\ Owns(p, e)' /\ e \in Event' /\ worker'[p].at = "answered" /\ worker'[p].answer = answer
      BY <1>1, <1>2, <1>3, <1>6, <2>4, EventsKeepTheirMessage DEF Owns, Busy, WorkerBecomes
    <3>2. (Wasted(e) <=> Taken(e)) /\ Sends(e) /\ ~WillRecord(e)
      BY <1>2, <3>1, OwnersDecide DEF OwnerDecides
    <3>3. ~Wasted(e)' /\ ~Sends(e)' /\ (WillRecord(e)' <=> ~Taken(e) /\ answer = "sent")
      BY <2>3, <3>1, OwnersDecideNext DEF OwnerDecides
    <3>4. MayAdd(e)' \subseteq MayAdd(e)
      BY <1>1, <1>2, <1>3, <1>4, <2>4 DEF MayAdd, Busy, WorkerBecomes
    <3>5. Cardinality(MayAdd(e)') <= Cardinality(MayAdd(e))
      BY <3>4, Sums, Counts
    <3> QED BY <1>1, <1>2, <1>4, <2>2, <2>3, <3>2, <3>3, <3>5, Sums
  <2>5. CASE ~worker[p].owns
    <3>1. ~Owns(p, e) /\ ~Owns(p, e)'
      BY <1>3, <2>5 DEF Owns, WorkerBecomes
    <3>2. (Sends(e)' <=> Sends(e)) /\ (Answers(e)' <=> Answers(e)) /\ (Sure(e)' <=> Sure(e))
      BY <1>3, <3>1, OwnersStay DEF WorkerBecomes
    <3>3. (Wasted(e)' <=> Wasted(e)) /\ (WillRecord(e)' <=> WillRecord(e))
      BY <1>2, <2>3, <3>2 DEF Wasted, WillRecord
    <3>4. p \in MayAdd(e) /\ MayAdd(e)' \subseteq MayAdd(e)
      BY <1>1, <1>2, <1>3, <1>4, <1>6, <2>5 DEF MayAdd, Busy, WorkerBecomes
    <3>5. answer = "sent" => MayAdd(e)' \subseteq MayAdd(e) \ {p}
      BY <1>3, <3>4 DEF MayAdd, WorkerBecomes
    <3>6. /\ Cardinality(MayAdd(e)') <= Cardinality(MayAdd(e))
          /\ answer = "sent" => Cardinality(MayAdd(e)') + 1 <= Cardinality(MayAdd(e))
      BY <3>4, <3>5, Sums, Counts
    <3> QED BY <1>1, <1>2, <1>4, <2>2, <2>3, <3>2, <3>3, <3>6, Sums
  <2> QED BY <2>4, <2>5
<1> QED BY <1>5, <1>6

LEMMA RecordCounted ==
  ASSUME Base, [Next]_vars, NEW p \in Worker, RecordDeliveryAttempt(p),
         NEW e \in Event, Delivers(e), Account(e)
  PROVE  Account(e)'
<1>1. PICK m, d, n, v, a :
        /\ m = MsgOf(e) /\ d = worker[p].event /\ n = MsgOf(worker[p].event) /\ v = Verdict(p)
        /\ a = worker[p].attempt
  OBVIOUS
<1>2. worker[p].at = "answered" /\ UNCHANGED <<job, copies, doubts, mishaps>> /\ Busy(p)
  BY <1>1, RecordEffect DEF Busy
<1>3. PICK how : WorkerBecomes(p, "ended", d, a, worker[p].owns, how)
  BY <1>1, RecordEffect
<1>4. /\ \/ a \in attempts[n] /\ UNCHANGED <<message, attempts>>
         \/ a \notin attempts[n] /\ attempts' = [attempts EXCEPT ![n] = @ \cup {a}]
      /\ \/ UNCHANGED message
         \/ Tells(n, v) /\ v \in {"sent", "failed", "unknown"}
      /\ n \in Msg
  BY <1>1, RecordEffect, RecordedRows
<1>5. m \in Msg /\ MsgOf(e)' = m /\ mishaps' >= mishaps /\ attempts \in [Msg -> SUBSET (1 .. Attempts)]
  BY <1>1, <1>2, Sums DEF Base, TypesOK
<1>6. CASE d # e
  <2>1. m # n
    BY <1>1, <1>2, <1>6, OtherMessage
  <2>2. attempts'[m] = attempts[m] /\ message'[m].status = message[m].status
    BY <1>4, <1>5, <2>1 DEF Tells
  <2>3. worker[p].event = d /\ worker'[p].event = d /\ \A q \in Worker \ {p} : worker'[q] = worker[q]
    BY <1>1, <1>3 DEF WorkerBecomes
  <2> QED BY <1>1, <1>2, <1>5, <1>6, <2>2, <2>3, OtherAccountOfOne
<1>7. CASE d = e
  <2>1. n = m /\ a \in 1 .. job[e].made + 1
    BY <1>1, <1>2, <1>7, BusyWorker DEF WorkerStands
  <2>2. /\ attempts[m] \subseteq attempts'[m] /\ a \in attempts'[m]
        /\ \A k : k \in attempts'[m] => k \in attempts[m] \/ k = a
    BY <1>4, <1>5, <2>1
  <2>3. MayAdd(e)' \subseteq MayAdd(e) \ {p}
    <3>1. ASSUME NEW q \in MayAdd(e)' PROVE q \in MayAdd(e) \ {p}
      <4>1. q \in Worker /\ q # p /\ worker'[q] = worker[q]
        BY <1>3, <3>1 DEF MayAdd, WorkerBecomes
      <4> QED BY <1>1, <1>5, <2>2, <3>1, <4>1 DEF MayAdd, Busy
    <3> QED BY <3>1
  <2>4. MayAdd(e)' \subseteq MayAdd(e)
    BY <2>3
  <2>5. /\ Cardinality(MayAdd(e)') <= Cardinality(MayAdd(e))
        /\ p \in MayAdd(e) => Cardinality(MayAdd(e)') + 1 <= Cardinality(MayAdd(e))
    BY <2>3, <2>4, Sums, Counts
  <2>6. Taken(e) => Taken(e)'
    BY <1>1, <1>2, <1>5, <2>2 DEF Taken
  <2>7. Queued(e)' => Queued(e) /\ UNCHANGED message
    BY <1>1, <1>4, <1>5, <2>1, Sums DEF Tells
  <2>8. CASE worker[p].owns
    <3>1. Owns(p, e) /\ Owns(p, e)' /\ e \in Event' /\ worker'[p].at = "ended"
      BY <1>1, <1>2, <1>3, <1>7, <2>8, EventsKeepTheirMessage DEF Owns, Busy, WorkerBecomes
    <3>2. /\ ~Wasted(e) /\ ~Sends(e)
          /\ WillRecord(e) <=> ~Taken(e) /\ worker[p].answer = "sent"
      BY <1>2, <3>1, OwnersDecide DEF OwnerDecides
    <3>3. ~Wasted(e)' /\ ~Sends(e)' /\ ~WillRecord(e)'
      BY <3>1, OwnersDecideNext DEF OwnerDecides
    <3>4. ASSUME Queued(e)' PROVE ~WillRecord(e)
      <4>1. CASE Taken(e)
        BY <4>1 DEF WillRecord
      <4>2. CASE worker[p].answer = "sent" /\ ~Taken(e)
        <5>1. a = job[e].made + 1
          BY <1>1, <1>7, <2>8, <1>2, BusyWorker DEF WorkerStands
        <5>2. a \notin attempts[n]
          BY <1>1, <2>1, <4>2, <5>1 DEF Taken
        <5>3. v = "sent" /\ Recorded(n, v)
          BY <1>1, <4>2, <5>2 DEF Verdict, RecordDeliveryAttempt
        <5>4. Open(n)
          BY <1>1, <2>1, <2>7, <3>4 DEF Open, Queued
        <5>5. message' = [message EXCEPT ![n].status = v, ![n].known = v = "sent"]
          BY <5>3, <5>4 DEF Recorded
        <5>6. message'[n].status = "sent"
          BY <1>4, <5>3, <5>5, EventsKnown, MessageRecorded DEF Tells
        <5> QED BY <1>1, <2>1, <3>4, <5>6, Sums
      <4> QED BY <3>2, <4>1, <4>2
    <3> QED BY <1>1, <1>2, <2>5, <2>7, <3>2, <3>3, <3>4, Sums
  <2>9. CASE ~worker[p].owns
    <3>1. ~Owns(p, e) /\ ~Owns(p, e)'
      BY <1>3, <2>9 DEF Owns, WorkerBecomes
    <3>2. (Sends(e)' <=> Sends(e)) /\ (Answers(e)' <=> Answers(e)) /\ (Sure(e)' <=> Sure(e))
      BY <1>3, <3>1, OwnersStay DEF WorkerBecomes
    <3>3. Sends(e) => ~Sure(e)
      BY DEF Sends, Sure, Owns, Base, WorkersStand
    <3>4. ASSUME Queued(e), ~Queued(e)' PROVE Account(e)'
      BY <1>1, <1>2, <2>5, <3>2, <3>3, <3>4, Sums DEF WillRecord
    <3>5. ASSUME Taken(e)' <=> Taken(e), Queued(e)' <=> Queued(e) PROVE Account(e)'
      <4>1. (Wasted(e)' <=> Wasted(e)) /\ (WillRecord(e)' <=> WillRecord(e))
        BY <1>2, <3>2, <3>5 DEF Wasted, WillRecord
      <4> QED BY <1>1, <1>2, <1>5, <2>4, <3>2, <3>5, <4>1, AccountUntouched
    <3>6. ASSUME Queued(e), Queued(e)', ~Taken(e), Taken(e)' PROVE Account(e)'
      <4>1. a \notin attempts[n]
        BY <1>1, <1>2, <1>5, <1>4, <2>1, <2>2, <3>6 DEF Taken
      <4>2. worker[p].answer # "sent"
        <5>1. SUFFICES ASSUME worker[p].answer = "sent" PROVE FALSE
          OBVIOUS
        <5>3. v = "sent" /\ Recorded(n, v)
          BY <1>1, <4>1, <5>1 DEF Verdict, RecordDeliveryAttempt
        <5>4. Open(n)
          BY <1>1, <2>1, <3>6 DEF Open, Queued
        <5>5. message' = [message EXCEPT ![n].status = v, ![n].known = v = "sent"]
          BY <5>3, <5>4 DEF Recorded
        <5>6. message'[n].status = "sent"
          BY <1>4, <5>3, <5>5, EventsKnown, MessageRecorded DEF Tells
        <5> QED BY <1>1, <2>1, <3>6, <5>6, Sums
      <4>3. p \in MayAdd(e)
        BY <1>1, <1>2, <1>7, <2>1, <2>9, <4>1, <4>2 DEF MayAdd
      <4>4. ~Wasted(e) /\ (WillRecord(e) => ~Wasted(e)')
        <5>1. Sure(e) => Answers(e)
          BY DEF Sure, Answers
        <5>2. Sure(e) => job[e].state = "active"
          BY DEF Sure, Owns, Base, WorkersStand, WorkerStands
        <5> QED BY <1>2, <3>2, <3>6, <5>1, <5>2 DEF Wasted, WillRecord
      <4> QED BY <1>1, <1>2, <2>5, <3>6, <4>3, <4>4, Sums
    <3>7. ~Queued(e) => ~Queued(e)'
      BY <2>7
    <3>8. ASSUME ~Queued(e), ~Queued(e)' PROVE Account(e)'
      BY <1>1, <1>2, <2>5, <3>2, <3>8, Sums
    <3> QED BY <2>6, <3>4, <3>5, <3>6, <3>7, <3>8
  <2> QED BY <2>8, <2>9
<1> QED BY <1>6, <1>7

\* A worker that throws or dies: the mishap pays for what it was about to record.
LEMMA ThrowsOrDiesCounted ==
  ASSUME Base, [Next]_vars, NEW p \in Worker, Throws(p) \/ WorkerDies(p),
         NEW e \in Event, Delivers(e), Account(e)
  PROVE  Account(e)'
<1>1. PICK m, d : m = MsgOf(e) /\ d = worker[p].event
  OBVIOUS
<1>2. /\ Busy(p) /\ mishaps' = mishaps + 1
      /\ UNCHANGED <<message, attempts, job, copies, doubts>>
      /\ \/ /\ worker[p].at \in {"loaded", "answered"}
            /\ WorkerBecomes(p, "ended", d, worker[p].attempt, worker[p].owns, "throws")
         \/ WorkerBecomes(p, "idle", 0, 0, FALSE, "none")
  BY <1>1, ThrowsEffect, WorkerDiesEffect DEF Busy
<1>3. MsgOf(e)' = m /\ mishaps' >= mishaps /\ \A q \in Worker \ {p} : worker'[q] = worker[q]
  BY <1>1, <1>2, Sums DEF WorkerBecomes
<1>4. CASE d # e
  <2>1. worker[p].event = d /\ (Busy(p)' => worker'[p].event = d)
    BY <1>1, <1>2 DEF WorkerBecomes, Busy
  <2> QED BY <1>1, <1>2, <1>3, <1>4, <2>1, OtherAccountOfOne
<1>5. CASE d = e
  <2>1. (Taken(e)' <=> Taken(e)) /\ (Queued(e)' <=> Queued(e))
    BY <1>1, <1>2, <1>3, Sums DEF Taken
  <2>2. MayAdd(e)' \subseteq MayAdd(e)
    <3>1. p \notin MayAdd(e)'
      BY <1>2 DEF MayAdd, Busy, WorkerBecomes
    <3> QED BY <1>1, <1>2, <1>3, <3>1 DEF MayAdd, Busy
  <2>3. Cardinality(MayAdd(e)') <= Cardinality(MayAdd(e))
    BY <2>2, Sums, Counts
  <2>5. CASE Owns(p, e)
    <3>1. /\ Wasted(e) <=> Taken(e) /\ worker[p].at = "loaded"
          /\ Sends(e) <=> worker[p].at = "loaded"
          /\ WillRecord(e) => ~Taken(e)
      BY <2>5, OwnersDecide DEF OwnerDecides
    <3>2. ~Sends(e)'
      BY <1>2, <1>3, <2>5 DEF Sends, Owns, Busy, WorkerBecomes, Base, WorkersStand
    <3>3. Wasted(e)' => Taken(e)
      BY <2>1 DEF Wasted
    <3> QED BY <1>1, <1>2, <2>1, <2>3, <3>1, <3>2, <3>3, Sums
  <2>6. CASE ~Owns(p, e)
    <3>1. ~Owns(p, e)'
      BY <1>1, <1>2, <1>5, <2>6 DEF Owns, Busy, WorkerBecomes
    <3>2. (Sends(e)' <=> Sends(e)) /\ (Answers(e)' <=> Answers(e)) /\ (Sure(e)' <=> Sure(e))
      BY <1>3, <2>6, <3>1, OwnersStay
    <3>3. (Wasted(e)' <=> Wasted(e)) /\ (WillRecord(e)' <=> WillRecord(e))
      BY <1>2, <2>1, <3>2 DEF Wasted, WillRecord
    <3> QED BY <1>1, <1>2, <1>3, <2>1, <2>2, <3>2, <3>3, AccountUntouched
  <2> QED BY <2>5, <2>6
<1> QED BY <1>4, <1>5

LEMMA FinishCounted ==
  ASSUME Base, [Next]_vars, NEW p \in Worker, Finish(p), NEW e \in Event, Delivers(e), Account(e)
  PROVE  Account(e)'
<1>1. PICK m, d : m = MsgOf(e) /\ d = worker[p].event
  OBVIOUS
<1>2. /\ worker[p].at = "ended" /\ WorkerBecomes(p, "idle", 0, 0, FALSE, "none")
      /\ \/ ~worker[p].owns /\ UNCHANGED job
         \/ worker[p].owns /\ JobBecomes(d, IF job[d].made + 1 >= Attempts THEN "failed" ELSE "waiting", job[d].made + 1, job[d].stalls)
         \/ worker[p].owns /\ JobBecomes(d, "completed", job[d].made, job[d].stalls)
      /\ UNCHANGED <<message, attempts, copies, doubts, mishaps>>
  BY <1>1, FinishEffect
<1>3. /\ MsgOf(e)' = m /\ mishaps' >= mishaps /\ \A q \in Worker \ {p} : worker'[q] = worker[q]
      /\ Busy(p) /\ ~Busy(p)' /\ e \in EventId
  BY <1>1, <1>2, Sums, EventsKnown DEF WorkerBecomes, Busy
<1>4. CASE d # e
  <2>1. job'[e] = job[e]
    BY <1>2, <1>3, <1>4 DEF JobBecomes
  <2> QED BY <1>1, <1>2, <1>3, <1>4, <2>1, OtherAccountOfOne
<1>5. CASE d = e
  <2>1. Queued(e)' <=> Queued(e)
    BY <1>1, <1>2, Sums
  <2>2. MayAdd(e)' \subseteq MayAdd(e)
    BY <1>1, <1>2, <1>3 DEF MayAdd, Busy
  <2>3. Cardinality(MayAdd(e)') <= Cardinality(MayAdd(e))
    BY <2>2, Sums, Counts
  <2>5. CASE worker[p].owns
    <3>1. Owns(p, e)
      BY <1>1, <1>3, <1>5, <2>5 DEF Owns
    <3>2. ~WillRecord(e)
      BY <1>2, <3>1, OwnersDecide DEF OwnerDecides
    <3>3. ~Sends(e)'
      BY <1>3, <3>1 DEF Sends, Owns, Busy, Base, WorkersStand
    <3>4. ~Wasted(e)'
      <4>1. CASE JobBecomes(d, "completed", job[d].made, job[d].stalls)
        BY <1>5, <4>1 DEF Wasted, JobBecomes
      <4>2. CASE job'[e].made = job[e].made + 1
        <5>1. attempts[m] \subseteq 1 .. job[e].made + 1 /\ job[e].made \in Nat
          BY <1>1, <1>3 DEF Base, AttemptsStand, TypesOK, Jobs
        <5>2. job[e].made + 2 \notin attempts[m]
          BY <5>1
        <5>3. ~Taken(e)'
          BY <1>2, <1>3, <4>2, <5>1, <5>2 DEF Taken
        <5> QED BY <5>3 DEF Wasted
      <4> QED BY <1>2, <1>5, <2>5, <4>1, <4>2 DEF JobBecomes
    <3> QED BY <1>1, <1>2, <2>1, <2>3, <3>2, <3>3, <3>4, Sums
  <2>6. CASE ~worker[p].owns
    <3>1. ~Owns(p, e) /\ ~Owns(p, e)' /\ UNCHANGED job
      BY <1>2, <1>3, <2>6 DEF Owns
    <3>2. (Sends(e)' <=> Sends(e)) /\ (Answers(e)' <=> Answers(e)) /\ (Sure(e)' <=> Sure(e))
      BY <1>3, <3>1, OwnersStay
    <3>0. Taken(e)' <=> Taken(e)
      BY <1>1, <1>2, <1>3, <3>1 DEF Taken
    <3>3. (Wasted(e)' <=> Wasted(e)) /\ (WillRecord(e)' <=> WillRecord(e))
      BY <3>0, <3>1, <3>2 DEF Wasted, WillRecord
    <3> QED BY <1>1, <1>2, <1>3, <2>1, <2>2, <3>2, <3>3, AccountUntouched
  <2> QED BY <2>5, <2>6
<1> QED BY <1>4, <1>5

\* A lock that runs out: the mishap pays for what the old owner may still do.
LEMMA StallCounted ==
  ASSUME Base, [Next]_vars, NEW d \in Event, Stall(d), NEW e \in Event, Delivers(e), Account(e)
  PROVE  Account(e)'
<1>1. PICK m : m = MsgOf(e)
  OBVIOUS
<1>2. /\ d \in EventId /\ job[d].state = "active"
      /\ \A p \in Worker : ~Owns(p, d) => worker'[p] = worker[p]
      /\ \A p \in Worker : Owns(p, d) =>
           /\ worker'[p].at = worker[p].at /\ worker'[p].event = d /\ ~worker'[p].owns
           /\ worker'[p].attempt = worker[p].attempt /\ worker'[p].answer = worker[p].answer
      /\ IF \E p \in Worker : Owns(p, d) THEN mishaps' = mishaps + 1 ELSE mishaps' = mishaps
      /\ UNCHANGED <<message, attempts, copies, doubts>>
  BY StallEffect
<1>3. PICK state \in {"failed", "waiting"} : JobBecomes(d, state, job[d].made, job[d].stalls + 1)
  BY StallEffect
<1>4. MsgOf(e)' = m /\ mishaps' >= mishaps /\ e \in EventId
  BY <1>1, <1>2, Sums, EventsKnown
<1>5. CASE d # e
  <2>1. job'[e] = job[e]
    BY <1>3, <1>4, <1>5 DEF JobBecomes
  <2>2. PICK P \in SUBSET Worker : P = {p \in Worker : Owns(p, d)}
    OBVIOUS
  <2>3. \A p \in P : (Busy(p) => worker[p].event = d) /\ (Busy(p)' => worker'[p].event = d)
    BY <1>2, <2>2 DEF Owns
  <2>4. \A q \in Worker \ P : worker'[q] = worker[q]
    BY <1>2, <2>2
  <2> QED BY <1>1, <1>2, <1>4, <1>5, <2>1, <2>3, <2>4, OtherAccount
<1>6. CASE d = e
  <2>1. (Taken(e)' <=> Taken(e)) /\ (Queued(e)' <=> Queued(e))
    BY <1>1, <1>2, <1>3, <1>4, <1>6, Sums DEF Taken, JobBecomes
  <2>2. \A q \in Worker : ~Owns(q, e)'
    <3>1. ASSUME NEW q \in Worker, Owns(q, e)' PROVE FALSE
      <4>1. ~Owns(q, e)
        BY <1>2, <1>6, <3>1 DEF Owns
      <4>2. worker'[q] = worker[q]
        BY <1>2, <1>6, <4>1
      <4> QED BY <3>1, <4>1, <4>2 DEF Owns, Busy
    <3> QED BY <3>1
  <2>3. ~Sends(e)' /\ ~Sure(e)' /\ ~WillRecord(e)'
    BY <2>2 DEF Sends, Sure, WillRecord
  <2>4. Wasted(e)' => Taken(e)
    BY <2>1 DEF Wasted
  <2>5. CASE \A p \in Worker : ~Owns(p, e)
    <3>1. mishaps' = mishaps /\ \A p \in Worker : worker'[p] = worker[p]
      BY <1>2, <1>6, <2>5
    <3>2. MayAdd(e)' \subseteq MayAdd(e)
      BY <1>1, <1>2, <1>4, <3>1 DEF MayAdd, Busy
    <3>3. ~Sends(e) /\ ~Sure(e) /\ ~Answers(e)
      BY <2>5 DEF Sends, Sure, Answers
    <3>4. Wasted(e)' => Wasted(e)
      BY <1>2, <1>6, <2>4, <3>3 DEF Wasted
    <3> QED BY <1>1, <1>2, <1>4, <2>1, <2>3, <3>2, <3>3, <3>4, AccountUntouched DEF WillRecord
  <2>6. ASSUME NEW p \in Worker, Owns(p, e) PROVE Account(e)'
    <3>1. mishaps' = mishaps + 1
      BY <1>2, <1>6, <2>6
    <3>2. \A q \in Worker \ {p} : worker'[q] = worker[q]
      BY <1>2, <1>6, <2>6 DEF Base, WorkersStand
    <3>3. /\ Wasted(e) <=> Taken(e) /\ worker[p].at = "loaded"
          /\ Sends(e) <=> worker[p].at = "loaded"
          /\ WillRecord(e) <=> ~Taken(e) /\ worker[p].at = "answered" /\ worker[p].answer = "sent"
      BY <2>6, OwnersDecide DEF OwnerDecides
    <3>4. /\ worker[p].event = e /\ worker[p].owns /\ worker[p].attempt = job[e].made + 1
          /\ worker[p].at \in {"loaded", "answered", "ended"}
      BY <2>6 DEF Owns, Busy, Base, WorkersStand, WorkerStands, TypesOK, Memories
    <3>5. MayAdd(e)' \subseteq MayAdd(e) \cup {p}
      BY <1>1, <1>2, <1>4, <3>2 DEF MayAdd, Busy
    <3>6. p \in MayAdd(e)' => \/ worker[p].at = "loaded"
                              \/ worker[p].at = "answered" /\ worker[p].answer # "sent" /\ ~Taken(e)
      BY <1>1, <1>2, <1>4, <1>6, <2>6, <3>4 DEF MayAdd, Taken
    <3>7. p \notin MayAdd(e)' => MayAdd(e)' \subseteq MayAdd(e)
      BY <3>5
    <3>8. /\ Cardinality(MayAdd(e)') <= Cardinality(MayAdd(e)) + 1
          /\ p \notin MayAdd(e)' => Cardinality(MayAdd(e)') <= Cardinality(MayAdd(e))
      BY <3>5, <3>7, Sums, Counts
    <3> QED BY <1>1, <1>2, <2>1, <2>3, <2>4, <3>1, <3>3, <3>6, <3>8, Sums
  <2> QED BY <2>5, <2>6
<1> QED BY <1>5, <1>6

LEMMA PublishCounted ==
  ASSUME Base, [Next]_vars, NEW w \in Relay, NEW c \in held[w], Publish(w, c),
         NEW e \in Event, Delivers(e), Account(e)
  PROVE  Account(e)'
<1>1. PICK m, d : m = MsgOf(e) /\ d = c.event
  OBVIOUS
<1>2. /\ UNCHANGED job \/ (job[d].state = "absent" /\ JobBecomes(d, "waiting", job[d].made, job[d].stalls))
      /\ UNCHANGED <<message, attempts, worker, copies, doubts, mishaps>>
  BY <1>1, PublishEffect
<1>3. MsgOf(e)' = m /\ e \in EventId /\ mishaps' >= mishaps
  BY <1>1, <1>2, Sums, EventsKnown
<1>4. job'[e] = job[e] \/ (job[e].state = "absent" /\ job'[e].made = job[e].made)
  BY <1>2, <1>3 DEF JobBecomes
<1>5. job[e].state = "absent" => ~Taken(e)
  BY DEF Base, AttemptsStand, Taken
<1>6. Taken(e)' <=> Taken(e)
  BY <1>1, <1>2, <1>3, <1>4 DEF Taken
<1>7. /\ Sends(e)' <=> Sends(e)
      /\ Answers(e)' <=> Answers(e)
      /\ Sure(e)' <=> Sure(e)
      /\ MayAdd(e)' \subseteq MayAdd(e)
  BY <1>1, <1>2, <1>3 DEF Sends, Answers, Sure, Owns, Busy, MayAdd
<1>8. (Wasted(e)' => Wasted(e)) /\ (WillRecord(e) => WillRecord(e)')
  BY <1>4, <1>5, <1>6, <1>7 DEF Wasted, WillRecord
<1>9. Queued(e)' <=> Queued(e)
  BY <1>1, <1>2, Sums
<1> QED BY <1>1, <1>2, <1>3, <1>7, <1>8, <1>9, AccountUntouched

\* A step that touches neither jobs nor workers, and no queued message.
LEMMA NothingCounted ==
  ASSUME Base, [Next]_vars, UNCHANGED <<attempts, job, worker, copies, doubts, mishaps>>,
         NEW e \in Event, Account(e), Queued(e)' <=> Queued(e)
  PROVE  Account(e)'
<1>1. PICK m : m = MsgOf(e)
  OBVIOUS
<1>2. MsgOf(e)' = m /\ mishaps' >= mishaps
  BY <1>1, Sums
<1>3. /\ Sends(e)' <=> Sends(e)
      /\ Answers(e)' <=> Answers(e)
      /\ Sure(e)' <=> Sure(e)
      /\ Taken(e)' <=> Taken(e)
      /\ MayAdd(e)' \subseteq MayAdd(e)
  BY <1>1, <1>2 DEF Sends, Answers, Sure, Owns, Busy, MayAdd, Taken
<1>4. (Wasted(e)' <=> Wasted(e)) /\ (WillRecord(e)' <=> WillRecord(e))
  BY <1>3 DEF Wasted, WillRecord
<1> QED BY <1>1, <1>2, <1>3, <1>4, AccountUntouched

\* The account of a message opens with its delivery request.
LEMMA NewAccount ==
  ASSUME Base, [Next]_vars, NEW e \in Event', e \notin Event, Delivers(e)'
  PROVE  Account(e)'
<1>1. PICK m \in Msg, kind \in {"deliver", "reconcile"} : Appends(m, kind)
  BY StepsOnEvents DEF EventsGrow
<1>2. MsgOf(e)' = m /\ kind = "deliver"
  BY <1>1, NewEvent DEF Delivers
<1>3. message[m].status = "absent"
  BY <1>1, <1>2, DeliveriesAreAsked
<1>4. PICK n \in Msg : CreateOutboundMessage(n)
  <2>1. CASE \E p \in Worker : RecordDeliveryAttempt(p)
    <3>1. PICK p \in Worker : RecordDeliveryAttempt(p)
      BY <2>1
    <3>2. UNCHANGED outbox \/ \E n \in Msg : Appends(n, "reconcile")
      BY <3>1, RecordedRows
    <3> QED BY <1>1, <1>2, <3>2, NewEvent DEF Event, Delivers
  <2>2. CASE UNCHANGED outbox
    BY <2>2 DEF Event
  <2>3. CASE RelayStep \/ \E d \in Event : BecomesDue(d)
    <3>1. \/ UNCHANGED outbox \/ \E w \in Relay : ClaimPending(w)
          \/ \E w \in Relay : \E c \in held[w] : Settle(w, c)
          \/ \E d \in Event : BecomesDue(d)
      BY <2>3 DEF RelayStep, Publish, HandOverFails, RelayDies
    <3> QED BY <3>1, EventsKnown, RelaysGrow
  <2> QED
    BY <2>1, <2>2, <2>3
    DEF Next, vars, outboxVars, RecordStatusReport, Stall, Pick, Send, Throws, Finish, WorkerDies
<1>5. UNCHANGED <<attempts, job, worker, copies, doubts, mishaps>>
  BY <1>4 DEF CreateOutboundMessage
<1>6. n = m
  <2>1. Appends(n, "deliver")
    BY <1>4, NoEventYet DEF CreateOutboundMessage, Request, Appends
  <2>2. MsgOf(e)' = n
    BY <2>1, NewEvent
  <2> QED BY <1>2, <2>2
<1>7. message'[m].status = "queued"
  BY <1>4, <1>6, EventsKnown DEF CreateOutboundMessage, MessageOK
<1>8. copies'[m] = 0 /\ attempts'[m] = {} /\ doubts'[m] \in Nat /\ mishaps' \in Nat
  BY <1>3, <1>5 DEF Base, RowsStand, TypesOK
<1>9. MayAdd(e)' = {}
  <2>1. \A p \in Worker : Busy(p) => worker[p].event # e
    BY BusyWorker
  <2> QED BY <1>5, <2>1 DEF MayAdd, Busy
<1>10. ~Taken(e)'
  BY <1>2, <1>8 DEF Taken
<1>11. Cardinality(MayAdd(e)') = 0
  BY <1>9, FS_EmptySet
<1>12. Queued(e)' /\ Owed(e)' = 0 /\ Free(e)' \in Nat
  <2>1. Queued(e)'
    BY <1>2, <1>7 DEF Queued
  <2>2. ~Wasted(e)'
    BY <1>10 DEF Wasted
  <2> QED BY <2>1, <2>2 DEF Owed, Free, One
<1>13. Account(e)' <=> copies'[m] + Cardinality(MayAdd(e)') + Owed(e)' <= doubts'[m] + mishaps' + Free(e)'
  BY <1>2 DEF Account
<1> QED BY <1>8, <1>11, <1>12, <1>13

LEMMA AccountsKept == Base /\ AccountsStand /\ [Next]_vars => AccountsStand'
<1> SUFFICES ASSUME Base, AccountsStand, [Next]_vars, NEW e \in Event', Delivers(e)'
             PROVE  Account(e)'
  BY DEF AccountsStand
<1>1. CASE e \notin Event
  BY <1>1, NewAccount
<1>2. CASE e \in Event
  <2>1. Delivers(e) /\ Account(e)
    BY <1>2, EventsKeepTheirMessage DEF AccountsStand
  <2>2. PICK m \in Msg : m = MsgOf(e) /\ message[m].status # "absent"
    BY <1>2, EventsKnown DEF Base, RowsStand
  <2>3. (Queued(e)' <=> Queued(e)) <=> (message'[m].status = "queued" <=> message[m].status = "queued")
    BY <1>2, <2>2, Sums
  <2>4. ASSUME NEW n \in Msg, CreateOutboundMessage(n) \/ RecordStatusReport(n) PROVE Account(e)'
    <3>1. UNCHANGED <<attempts, job, worker, copies, doubts, mishaps>>
      BY <2>4 DEF CreateOutboundMessage, RecordStatusReport
    <3>2. message'[m].status = message[m].status \/ (message'[m].status # "queued" /\ message[m].status # "queued")
      <4>1. CASE CreateOutboundMessage(n)
        BY <2>2, <4>1, EventsKnown DEF CreateOutboundMessage, MessageOK
      <4>2. CASE RecordStatusReport(n)
        <5>1. PICK reported \in {"sent", "delivered", "read", "failed"} :
                message' = [message EXCEPT ![n].status = reported]
          BY <4>2 DEF RecordStatusReport
        <5>2. message[n].status # "queued"
          BY <4>2 DEF RecordStatusReport, Base, RowsStand
        <5> QED BY <2>2, <5>1, <5>2, EventsKnown DEF MessageOK
      <4> QED BY <2>4, <4>1, <4>2
    <3> QED BY <1>2, <2>1, <2>3, <3>1, <3>2, NothingCounted
  <2>5. ASSUME UNCHANGED <<message, attempts, job, worker, copies, doubts, mishaps>> PROVE Account(e)'
    BY <1>2, <2>1, <2>3, <2>5, NothingCounted
  <2>6. \/ UNCHANGED <<message, attempts, job, worker, copies, doubts, mishaps>>
        \/ \E n \in Msg : CreateOutboundMessage(n) \/ RecordStatusReport(n)
        \/ \E w \in Relay : \E c \in held[w] : Publish(w, c)
        \/ \E d \in Event : Stall(d) \/ \E p \in Worker : Pick(p, d)
        \/ \E p \in Worker : Send(p) \/ RecordDeliveryAttempt(p) \/ Throws(p) \/ Finish(p) \/ WorkerDies(p)
    BY DEF Next, vars, deliveryVars, RelayStep
  <2> QED BY <1>2, <2>1, <2>4, <2>5, <2>6, PublishCounted, StallCounted, PickCounted, SendCounted,
             RecordCounted, ThrowsOrDiesCounted, FinishCounted
<1> QED BY <1>1, <1>2

LEMMA RecognisedKept == Base /\ RecognisedOnce /\ [Next]_vars => RecognisedOnce'
<1> SUFFICES ASSUME Base, RecognisedOnce, [Next]_vars PROVE RecognisedOnce'
  OBVIOUS
<1>1. \A m \in Msg : Plain(m)' <=> Plain(m)
  BY ModesStay DEF KeepsMode, Plain
<1>2. ASSUME NEW p \in Worker, Send(p) PROVE RecognisedOnce'
  <2>1. PICK n : n = MsgOf(worker[p].event)
    OBVIOUS
  <2>2. n \in Msg
    BY <1>2, <2>1, BusyWorker DEF Send, Busy
  <2>3. \/ copies' = copies
        \/ ~DropsDuplicates(n) /\ copies' = [copies EXCEPT ![n] = @ + 1]
    BY <1>2, <2>1, SendEffect DEF Answered
  <2>4. copies \in [Msg -> Nat]
    BY DEF Base, IInv, RowsOK, MessageOK
  <2>5. ASSUME NEW m \in Msg, ~Plain(m) PROVE copies'[m] <= 1
    BY <2>2, <2>3, <2>4, <2>5 DEF RecognisedOnce, DropsDuplicates, Plain
  <2> QED BY <1>1, <2>5 DEF RecognisedOnce
<1>3. UNCHANGED copies \/ \E p \in Worker : Send(p)
  BY DEF Next, vars, deliveryVars, CreateOutboundMessage, RecordStatusReport, RelayStep, Publish,
         BecomesDue, Stall, Pick, RecordDeliveryAttempt, Throws, Finish, WorkerDies
<1> QED BY <1>1, <1>2, <1>3 DEF RecognisedOnce

\* A message that exists has its delivery request.
Asked == \A m \in Msg : message[m].status # "absent" => Requested(m, "deliver")

LEMMA AskedKept == Base /\ Asked /\ [Next]_vars => Asked'
<1> SUFFICES ASSUME Base, Asked, [Next]_vars, NEW m \in Msg, message'[m].status # "absent"
             PROVE  Requested(m, "deliver")'
  BY DEF Asked
<1>1. Requested(m, "deliver") => Requested(m, "deliver")'
  BY EventsKeepTheirMessage DEF Requested
<1>2. CASE message[m].status # "absent"
  BY <1>1, <1>2 DEF Asked
<1>3. CASE message[m].status = "absent"
  <2>1. ASSUME NEW n \in Msg, CreateOutboundMessage(n) PROVE Requested(m, "deliver")'
    <3>1. n = m
      BY <1>3, <2>1, EventsKnown DEF CreateOutboundMessage, MessageOK
    <3>2. Requested(m, "deliver") \/ Appends(m, "deliver")
      BY <2>1, <3>1 DEF CreateOutboundMessage, Request, Appends
    <3>3. CASE Appends(m, "deliver")
      <4>1. PICK d : d = Len(outbox) + 1
        OBVIOUS
      <4>2. d \in Event' /\ outbox'[d] = Row(<<m, "deliver">>)
        BY <3>3, <4>1, EventsKnown, AppendGrows
      <4> QED BY <4>2 DEF Requested, Row
    <3> QED BY <1>1, <3>2, <3>3
  <2>2. ASSUME NEW n \in Msg, RecordStatusReport(n) PROVE FALSE
    <3>1. PICK reported : message' = [message EXCEPT ![n].status = reported]
      BY <2>2 DEF RecordStatusReport
    <3>2. message[n].status # "absent"
      BY <2>2 DEF RecordStatusReport, Base, RowsStand
    <3> QED BY <1>3, <3>1, <3>2, EventsKnown DEF MessageOK
  <2>3. ASSUME NEW p \in Worker, RecordDeliveryAttempt(p) PROVE FALSE
    <3>1. PICK n, v : n = MsgOf(worker[p].event) /\ v = Verdict(p)
      OBVIOUS
    <3>2. message[n].status # "absent" /\ (UNCHANGED message \/ Tells(n, v))
      BY <2>3, <3>1, RecordedRows
    <3> QED BY <1>3, <3>2 DEF Tells
  <2>4. CASE UNCHANGED message
    BY <1>3, <2>4
  <2>5. \/ UNCHANGED message
        \/ \E n \in Msg : CreateOutboundMessage(n) \/ RecordStatusReport(n)
        \/ \E p \in Worker : RecordDeliveryAttempt(p)
    BY DEF Next, vars, deliveryVars, RelayStep, Publish, BecomesDue, Stall, Pick, Send, Throws, Finish, WorkerDies
  <2> QED BY <2>1, <2>2, <2>3, <2>4, <2>5
<1> QED BY <1>2, <1>3

\* Relays that die, overlap or time out never duplicate a message: a copy beyond
\* the first is paid for by an answer that hid a delivery (lost, or a failure
\* reported for a message that was delivered) or by a worker that was lost, and
\* a Telegram account, which recognises the message, delivers it once.
THEOREM DuplicatesTakeDoubt == Spec => []DuplicatesNeedDoubt
<1> DEFINE Counted == Base /\ Asked /\ AccountsStand /\ RecognisedOnce
<1>1. Init => Counted
  <2> SUFFICES ASSUME Init PROVE Asked /\ AccountsStand /\ RecognisedOnce
    BY BaseStarts
  <2>1. Event = {}
    BY DEF Init, RelayInit, Event
  <2>2. \A m \in Msg : message[m].status = "absent" /\ copies[m] = 0
    BY DEF Init
  <2> QED BY <2>1, <2>2 DEF Asked, AccountsStand, RecognisedOnce
<1>2. Counted /\ [Next]_vars => Counted'
  BY BaseKept, AskedKept, AccountsKept, RecognisedKept
<1>3. Counted => DuplicatesNeedDoubt
  <2> SUFFICES ASSUME Counted, NEW m \in Msg
               PROVE  /\ copies[m] <= 1 + doubts[m] + mishaps
                      /\ message[m].mode = "telegram_mtproto_account" => copies[m] <= 1
    BY DEF DuplicatesNeedDoubt
  <2>1. copies[m] \in Nat /\ doubts[m] \in Nat /\ mishaps \in Nat
    BY DEF Base, IInv, RowsOK, MessageOK, TypesOK
  <2>2. CASE ~Plain(m)
    BY <2>1, <2>2 DEF RecognisedOnce, Plain
  <2>3. CASE Plain(m) /\ message[m].status = "absent"
    BY <2>1, <2>3 DEF Base, RowsStand, Plain
  <2>4. CASE Plain(m) /\ message[m].status # "absent"
    <3>1. PICK e \in Event : outbox[e].about = <<m, "deliver">>
      BY <2>4 DEF Asked, Requested
    <3>2. MsgOf(e) = m /\ Delivers(e)
      BY <2>4, <3>1 DEF MsgOf, Delivers
    <3>3. copies[m] + Cardinality(MayAdd(e)) + Owed(e) <= doubts[m] + mishaps + Free(e)
      BY <3>2 DEF AccountsStand, Account
    <3>4. MayAdd(e) \in SUBSET Worker
      BY DEF MayAdd
    <3>5. Cardinality(MayAdd(e)) \in Nat
      BY <3>4, TwoEventsAMessage, FS_Subset, FS_CardinalityType
    <3>6. Owed(e) \in {0, 1} /\ Free(e) \in {0, 1}
      BY DEF Owed, Free, One
    <3> QED BY <2>1, <2>4, <3>3, <3>5, <3>6 DEF Plain
  <2> QED BY <2>2, <2>3, <2>4
<1> HIDE DEF Counted
<1> QED BY <1>1, <1>2, <1>3, PTL DEF Spec
===============================================================================
