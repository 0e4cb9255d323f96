--------------------------- MODULE MessagingDelivery ---------------------------
(***************************************************************************)
(* Outbound messages: a command writes the message and a delivery request  *)
(* in one transaction, the relay turns the request into a queued job, a    *)
(* worker calls the provider outside any transaction and records the       *)
(* verdict in another one.  A message of a flow gets a terminal event for  *)
(* the run that waits, and a reconciliation request when the verdict is    *)
(* unknown.  The queue (BullMQ) and the providers are external.            *)
(***************************************************************************)
EXTENDS OutboxRelay

CONSTANTS
  Msg,         \* messages, each under an idempotency key of its own
  Worker,      \* places in the queue's workers (its concurrency)
  Attempts,    \* attempts of a job
  MaxStalls,   \* stalls BullMQ forgives a job (maxStalledCount)
  MaxDoubts,   \* bound: answers per message that leave its delivery in doubt
  Modes        \* modes of the channels messages may go through

ASSUME DeliveryAssumption ==
  /\ IsFiniteSet(Msg) /\ IsFiniteSet(Worker)
  /\ Attempts \in Nat \ {0} /\ MaxStalls \in Nat /\ MaxDoubts \in Nat
  /\ Modes \subseteq {"telegram_business_bot", "telegram_mtproto_account",
                      "instagram_graph", "whatsapp_cloud"}

VARIABLES
  message,   \* per message: its row, its channel's mode, whether a flow sent it
  attempts,  \* per message: the attempt numbers in message_delivery_attempts
  terminal,  \* per message: outcome of its terminal event
  job,       \* per event: its job in the queue
  worker,    \* per worker: the job it runs
  copies,    \* per message: how often the provider has delivered it
  doubts,    \* per message: the answers that left its delivery in doubt (history)
  mishaps    \* how many of the faults were dead, slow or failing workers (history)

deliveryVars == <<message, attempts, terminal, job, worker, copies, doubts, mishaps>>
vars == <<outboxVars, deliveryVars>>

NoJob == [state |-> "absent", made |-> 0, stalls |-> 0]
IdleWorker == [at |-> "idle", event |-> 0, attempt |-> 0, answer |-> "none", owns |-> FALSE]

\* At most two events per message.
EventId == 1 .. 2 * Cardinality(Msg)

Init ==
  /\ RelayInit
  /\ message \in [Msg -> [status : {"absent"}, known : {FALSE}, mode : Modes, flow : BOOLEAN]]
  /\ attempts = [m \in Msg |-> {}]
  /\ terminal = [m \in Msg |-> "none"]
  /\ job = [e \in EventId |-> NoJob]
  /\ worker = [p \in Worker |-> IdleWorker]
  /\ copies = [m \in Msg |-> 0]
  /\ doubts = [m \in Msg |-> 0]
  /\ mishaps = 0

Mishap == Fault /\ mishaps' = mishaps + 1

\* Unique index on event type and aggregate: a message has one event of a kind.
Requested(m, kind) == \E e \in Event : outbox[e].about = <<m, kind>>
Request(m, kind) ==
  outbox' = IF Requested(m, kind) THEN outbox ELSE Append(outbox, Row(<<m, kind>>))

\* createOutboundMessage; a repeated command finds the row and changes nothing.
CreateOutboundMessage(m) ==
  /\ message[m].status = "absent"
  /\ message' = [message EXCEPT ![m].status = "queued"]
  /\ Request(m, "deliver")
  /\ UNCHANGED <<held, faults, attempts, terminal, job, worker, copies, doubts, mishaps>>

(***************************************************************************)
(* The relay's hand-over: queue.add under a job id made from the event's   *)
(* id, which does nothing when the queue has that job already.             *)
(***************************************************************************)
\* Mutation of Added: the job id is not the event's.
Added_Again(e) == [job EXCEPT ![e] = [NoJob EXCEPT !.state = "waiting"]]

Added(e) == IF job[e].state = "absent"
            THEN [job EXCEPT ![e].state = "waiting"] ELSE job

Publish(w, c) ==
  /\ Handling(w, c)
  /\ job' = Added(c.event)
  /\ HandedOver(w, c, "added")
  /\ UNCHANGED <<outbox, faults, message, attempts, terminal, worker, copies, doubts, mishaps>>

(***************************************************************************)
(* processMessagingDeliveryJob.                                            *)
(***************************************************************************)
MsgOf(e) == outbox[e].about[1]

\* Queued, or unknown and asked to be reconciled where the provider drops
\* duplicates.
Eligible(e) ==
  \/ message[MsgOf(e)].status = "queued"
  \/ /\ outbox[e].about[2] = "reconcile"
     /\ message[MsgOf(e)].status = "unknown"
     /\ message[MsgOf(e)].mode = "telegram_mtproto_account"

\* A worker takes the job and reloads the work item by the event's id.
Pick(p, e) ==
  /\ worker[p].at = "idle" /\ job[e].state = "waiting"
  /\ IF Eligible(e)
       THEN /\ job' = [job EXCEPT ![e].state = "active"]
            /\ worker' = [worker EXCEPT ![p] = [at |-> "loaded", event |-> e, answer |-> "none",
                                                attempt |-> job[e].made + 1, owns |-> TRUE]]
       ELSE /\ job' = [job EXCEPT ![e].state = "completed"]
            /\ UNCHANGED worker
  /\ UNCHANGED <<outboxVars, message, attempts, terminal, copies, doubts, mishaps>>

\* telegramMtprotoRandomId is a function of the message id, and Telegram
\* delivers a random id once.  The other providers get no key.
DropsDuplicates(m) == message[m].mode = "telegram_mtproto_account" /\ copies[m] > 0

\* The HTTP adapters report a failure for every status that is no success, a
\* 408 or 5xx on the way back included, and the Telegram Business adapter also
\* for a success whose body it cannot read: the message may be delivered all the
\* same.  What the MTProto adapter reports as a failure (flood wait, revoked
\* session, session not leased) comes instead of a delivery.
FailsInDoubt(m) == message[m].mode # "telegram_mtproto_account"

\* The provider delivers the message or not, and its answer arrives, is lost, or
\* is a failure to be retried or not, which may hide a delivery.
Send(p) ==
  LET m == MsgOf(worker[p].event) IN
  /\ worker[p].at = "loaded"
  /\ \E delivered \in BOOLEAN, answer \in {"sent", "unknown", "busy", "refused"} :
       LET doubt == answer = "unknown" \/ (delivered /\ answer # "sent") IN
       /\ answer = "sent" => delivered
       /\ answer \in {"busy", "refused"} /\ delivered => FailsInDoubt(m)
       /\ doubt => doubts[m] < MaxDoubts
       /\ doubts' = IF doubt THEN [doubts EXCEPT ![m] = @ + 1] ELSE doubts
       /\ copies' = IF delivered /\ ~DropsDuplicates(m) THEN [copies EXCEPT ![m] = @ + 1] ELSE copies
       /\ worker' = [worker EXCEPT ![p].at = "answered", ![p].answer = answer]
  /\ UNCHANGED <<outboxVars, message, attempts, terminal, job, mishaps>>

Final(p) == worker[p].answer = "refused" \/ worker[p].attempt >= Attempts

\* Mutation of Verdict: an answer that was lost at the end counts as sent.
Verdict_UnknownIsSent(p) ==
  CASE worker[p].answer = "sent" \/ (worker[p].answer = "unknown" /\ Final(p)) -> "sent"
    [] worker[p].answer \in {"busy", "refused"} /\ Final(p) -> "failed"
    [] OTHER -> "retry"

\* The message status a processed answer leads to, if any.
Verdict(p) ==
  CASE worker[p].answer = "sent" -> "sent"
    [] worker[p].answer = "unknown" /\ Final(p) -> "unknown"
    [] worker[p].answer \in {"busy", "refused"} /\ Final(p) -> "failed"
    [] OTHER -> "retry"

\* Mutation of Open: the update does not look at the status.
Open_Always(m) == TRUE

Open(m) == message[m].status \in {"queued", "unknown"}

\* One transaction: attempt row, message, terminal event or reconciliation
\* request.  Both events take the flow's mark from the delivery request.
Recorded(m, verdict) ==
  IF verdict = "retry" \/ ~Open(m) THEN UNCHANGED <<message, terminal, outbox>>
  ELSE /\ message' = [message EXCEPT ![m].status = verdict, ![m].known = verdict = "sent"]
       /\ terminal' = IF message[m].flow /\ verdict # "unknown" /\ terminal[m] = "none"
                      THEN [terminal EXCEPT ![m] = IF verdict = "sent" THEN "succeeded" ELSE "failed"]
                      ELSE terminal
       /\ IF message[m].flow /\ verdict = "unknown" THEN Request(m, "reconcile") ELSE UNCHANGED outbox

Ended(p, how) == worker' = [worker EXCEPT ![p].at = "ended", ![p].answer = how]

\* recordDeliveryAttempt.  The attempt number is unique per message: a number
\* that is taken aborts the transaction, and the job throws.
RecordDeliveryAttempt(p) ==
  LET m == MsgOf(worker[p].event) IN
  /\ worker[p].at = "answered"
  /\ IF worker[p].attempt \in attempts[m]
       THEN /\ Ended(p, "throws")
            /\ UNCHANGED <<message, attempts, terminal, outbox>>
       ELSE /\ attempts' = [attempts EXCEPT ![m] = @ \cup {worker[p].attempt}]
            /\ Recorded(m, Verdict(p))
            /\ Ended(p, IF Verdict(p) = "retry" THEN "throws" ELSE "returns")
  /\ UNCHANGED <<held, faults, job, copies, doubts, mishaps>>

\* The database is away, or the work item cannot be loaded.
Throws(p) ==
  /\ worker[p].at \in {"loaded", "answered"} /\ Mishap
  /\ Ended(p, "throws")
  /\ UNCHANGED <<outbox, held, message, attempts, terminal, job, copies, doubts>>

(***************************************************************************)
(* The queue.  A worker that has lost the job's lock cannot finish it.     *)
(***************************************************************************)
\* Mutation of Failed: one attempt too many.
Failed_OffByOne(j) ==
  [j EXCEPT !.made = @ + 1, !.state = IF j.made >= Attempts THEN "failed" ELSE "waiting"]

Failed(j) ==
  [j EXCEPT !.made = @ + 1, !.state = IF j.made + 1 >= Attempts THEN "failed" ELSE "waiting"]

Finish(p) ==
  /\ worker[p].at = "ended"
  /\ job' = IF ~worker[p].owns THEN job
            ELSE IF worker[p].answer = "throws"
                 THEN [job EXCEPT ![worker[p].event] = Failed(@)]
                 ELSE [job EXCEPT ![worker[p].event].state = "completed"]
  /\ worker' = [worker EXCEPT ![p] = IdleWorker]
  /\ UNCHANGED <<outboxVars, message, attempts, terminal, copies, doubts, mishaps>>

WorkerDies(p) ==
  /\ worker[p].at # "idle" /\ Mishap
  /\ worker' = [worker EXCEPT ![p] = IdleWorker]
  /\ UNCHANGED <<outbox, held, message, attempts, terminal, job, copies, doubts>>

Owner(e) == {p \in Worker : worker[p].at # "idle" /\ worker[p].owns /\ worker[p].event = e}

\* The lock of an active job runs out.  It is a mishap when the owner is alive.
Stall(e) ==
  /\ job[e].state = "active"
  /\ IF Owner(e) = {} THEN UNCHANGED <<faults, mishaps>> ELSE Mishap
  /\ job' = [job EXCEPT ![e].stalls = @ + 1,
                        ![e].state = IF job[e].stalls >= MaxStalls THEN "failed" ELSE "waiting"]
  /\ worker' = [p \in Worker |-> IF p \in Owner(e) THEN [worker[p] EXCEPT !.owns = FALSE] ELSE worker[p]]
  /\ UNCHANGED <<outbox, held, message, attempts, terminal, copies, doubts>>

\* recordWhatsAppCloudStatus: a status report sets the message it names by the
\* provider's id, whatever its status is and in whatever order reports come.
RecordStatusReport(m) ==
  /\ message[m].mode = "whatsapp_cloud" /\ message[m].known
  /\ \E reported \in {"sent", "delivered", "read", "failed"} :
       /\ reported # message[m].status
       /\ message' = [message EXCEPT ![m].status = reported]
  /\ UNCHANGED <<outboxVars, attempts, terminal, job, worker, copies, doubts, mishaps>>

RelayStep ==
  \E w \in Relay :
    \/ \E c \in held[w] : Publish(w, c)
    \/ /\ \/ ClaimPending(w)
          \/ \E c \in held[w] : HandOverFails(w, c) \/ Settle(w, c)
          \/ RelayDies(w)
       /\ UNCHANGED deliveryVars

Next ==
  \/ \E m \in Msg : CreateOutboundMessage(m) \/ RecordStatusReport(m)
  \/ RelayStep
  \/ \E e \in Event : BecomesDue(e) /\ UNCHANGED deliveryVars
  \/ \E e \in Event : Stall(e) \/ \E p \in Worker : Pick(p, e)
  \/ \E p \in Worker : Send(p) \/ RecordDeliveryAttempt(p) \/ Throws(p) \/ Finish(p) \/ WorkerDies(p)

(***************************************************************************)
(* Relay rounds are started on a timer, locks and backoffs time out, and   *)
(* the queue runs what waits; a provider call returns or throws in the     *)
(* end.  Neither commands, faults nor reports are owed.                    *)
(***************************************************************************)
Fairness ==
  /\ \A w \in Relay :
       /\ WF_vars(ClaimPending(w) /\ UNCHANGED deliveryVars)
       /\ WF_vars(\E c \in held[w] : Publish(w, c) \/ (Settle(w, c) /\ UNCHANGED deliveryVars))
  /\ \A e \in EventId :
       /\ WF_vars(e \in Event /\ ~HeldNow(e) /\ BecomesDue(e) /\ UNCHANGED deliveryVars)
       /\ WF_vars(e \in Event /\ Owner(e) = {} /\ Stall(e))
       /\ WF_vars(e \in Event /\ \E p \in Worker : Pick(p, e))
  /\ \A p \in Worker : WF_vars(Send(p) \/ RecordDeliveryAttempt(p) \/ Finish(p))

Spec == Init /\ [][Next]_vars /\ Fairness

(***************************************************************************)
(* Properties.                                                             *)
(***************************************************************************)
\* The rows, the jobs and the workers' memory have their types.
TypeOK ==
  /\ RelayTypeOK(Msg \X {"deliver", "reconcile"}) /\ Len(outbox) <= Cardinality(EventId)
  /\ message \in [Msg -> [status : {"absent", "queued", "sent", "delivered", "read", "failed", "unknown"},
                          known : BOOLEAN, mode : Modes, flow : BOOLEAN]]
  /\ attempts \in [Msg -> SUBSET (1 .. Attempts)]
  /\ terminal \in [Msg -> {"none", "succeeded", "failed"}]
  /\ job \in [EventId -> [state : {"absent", "waiting", "active", "completed", "failed"},
                          made : 0 .. Attempts, stalls : 0 .. MaxStalls + 1]]
  /\ worker \in [Worker -> [at : {"idle", "loaded", "answered", "ended"}, event : 0 .. Len(outbox),
                            attempt : 0 .. Attempts, owns : BOOLEAN,
                            answer : {"none", "sent", "unknown", "busy", "refused", "throws", "returns"}]]

Settled(m) == message[m].status \in {"sent", "delivered", "read", "failed"}

\* The run that waits for a message is told what the first verdict was, once:
\* a late verdict of a worker that had lost its job changes neither the
\* message nor the event, an event exists as soon as the message settles, and a
\* success is reported only when the provider has the message.
TerminalMatchesVerdict ==
  \A m \in Msg : message[m].flow =>
    /\ Settled(m) <=> terminal[m] # "none"
    /\ message[m].known <=> terminal[m] = "succeeded"
    /\ terminal[m] = "succeeded" => copies[m] > 0

\* Relays that die, overlap or time out never duplicate a message: only an
\* answer that hid a delivery (it was lost, or reported as a failure), or a
\* worker that was lost, makes the provider deliver it again - and never where
\* the provider recognises it.
DuplicatesNeedDoubt ==
  \A m \in Msg : /\ copies[m] <= 1 + doubts[m] + mishaps
                 /\ message[m].mode = "telegram_mtproto_account" => copies[m] <= 1

GivenUp(m) == \E e \in Event : outbox[e].about = <<m, "deliver">> /\ job[e].state = "failed"

\* A queued message gets a verdict, or the queue has given its job up, which
\* takes a mishap: what a relay does cannot lose a message.
QueuedMessagesGetAVerdict ==
  \A m \in Msg : message[m].status = "queued" ~>
                 (Settled(m) \/ message[m].status = "unknown" \/ (GivenUp(m) /\ mishaps > 0))

\* What the flow editor's design surface says: the terminal signal leads the
\* run to its success or error branch.
ReconciledMessagesSettle ==
  \A m \in Msg : (message[m].flow /\ message[m].status = "unknown"
                  /\ message[m].mode = "telegram_mtproto_account") ~> terminal[m] # "none"
===============================================================================
