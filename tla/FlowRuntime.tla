----------------------------- MODULE FlowRuntime -----------------------------
(***************************************************************************)
(* The Postgres-authoritative execution of flow runs: one execution token  *)
(* per run, leased to workers, parked on waits, work items and approvals,  *)
(* and resumed by signals, owner commands and timer sweeps.                *)
(*                                                                         *)
(* One action is one database transaction: every transaction that moves a  *)
(* token locks its row first.  Two transactions meet without a common row  *)
(* lock, the finalize that opens a wait and the ingest of its signal: each *)
(* looks for the other's row in one action and commits in another when it  *)
(* has looked in vain.  FlowSignalRendezvous has them statement by         *)
(* statement; the booking event chain is FlowBookingLifecycle.             *)
(***************************************************************************)
EXTENDS Integers, Sequences, FiniteSets

CONSTANTS
  Run,                \* flow runs; each owns exactly one execution token
  BookingRun,         \* the runs enrolled by one booking, a subset of Run
  Worker, NoWorker,   \* lease owners
  NoClaim,            \* a worker that holds no claim
  Node, Entry,        \* the pinned graph: its nodes and the entry node
  Kind,               \* Node -> kind of node
  Target,             \* Node -> (handle -> node), the outgoing edges
  Expiring,           \* approval nodes configured with a deadline
  BookingDue,         \* work-item nodes whose deadline follows the booking
  MaxAttempts,        \* retry policy v1: attempts per activation
  MaxActivation,      \* bound: node activations of a run
  MaxRevision,        \* bound: revisions of a work item or approval
  MaxBookingRevision  \* bound: lifecycle revisions of the booking

Kinds == {"step", "terminal", "work_item", "chart", "message", "approval"}

\* The handles the executors of a kind may choose.
Handles(kind) ==
  CASE kind = "chart"     -> {"next"}
    [] kind = "message"   -> {"success", "error"}
    [] kind = "work_item" -> {"success"}
    [] kind = "approval"  -> {"approved", "rejected"}
    [] OTHER              -> {}

ASSUME GraphAssumption ==
  /\ BookingRun \subseteq Run
  /\ NoWorker \notin Worker
  /\ Kind \in [Node -> Kinds]
  /\ Entry \in Node
  /\ \A n \in Node :
       /\ Handles(Kind[n]) \subseteq DOMAIN Target[n]
       /\ n \in Expiring => "timeout" \in DOMAIN Target[n]
       /\ \A h \in DOMAIN Target[n] : Target[n][h] \in Node

ASSUME BoundAssumption ==
  /\ MaxAttempts \in Nat \ {0}
  /\ MaxActivation \in Nat \ {0}
  /\ MaxRevision \in Nat \ {0}
  /\ MaxBookingRevision \in Nat \ {0}

Act == 1 .. MaxActivation

\* An unexpected executor failure gets at most two attempts.
UnexpectedAttempts == IF MaxAttempts < 2 THEN MaxAttempts ELSE 2

VARIABLES
  token,     \* flow_execution_tokens
  run,       \* flow_runs: status and current node
  trace,     \* flow_run_events joined with flow_execution_attempts
  wait,      \* flow_execution_signal_waits, one per activation
  item,      \* flow_work_items, one per activation
  approval,  \* flow_approvals, one per activation
  job,       \* the chart jobs or the message an activation has requested
  inbox,     \* flow_execution_signal_inbox
  claim,     \* what each worker process holds in memory
  booking    \* the lifecycle head of the booking behind BookingRun

vars == <<token, run, trace, wait, item, approval, job, inbox, claim, booking>>
obligations == <<wait, item, approval>>

(***************************************************************************)
(* States.                                                                 *)
(***************************************************************************)
ClaimableTokenStates == {"runnable", "retry_scheduled"}
WaitingTokenStates ==
  {"waiting_signal", "waiting_external", "waiting_work_item", "waiting_approval"}
TerminalTokenStates == {"completed", "failed", "canceled"}
TokenStates ==
  ClaimableTokenStates \cup {"claimed"} \cup WaitingTokenStates \cup TerminalTokenStates

ClaimableRunStatuses == {"pending", "running", "failed_retryable"}
TerminalRunStatuses == {"completed", "failed_terminal", "canceled"}
RunStatuses == ClaimableRunStatuses \cup {"waiting"} \cup TerminalRunStatuses

ActiveItemStatuses == {"pending", "in_progress", "snoozed"}
OpenApprovalStatuses == {"pending", "snoozed"}

EventTypes ==
  {"run_enrolled", "token_advanced", "token_waiting", "token_signaled",
   "token_retry_scheduled", "token_lease_expired", "work_item_available",
   "approval_available", "approval_expired", "booking_rescheduled",
   "run_completed", "run_failed", "run_canceled"}

\* A claim in a worker's memory; "answer" is what the external system has
\* said to this execution, "gen" the job it named, "looked" whether its finalize
\* is under way and has found no signal for the wait it opens.
Answers == {"none", "queued", "existing", "rejected"}
Claims == [run : Run, node : Node, act : Act, attempt : Nat, fence : Nat,
           answer : Answers, gen : Nat, looked : BOOLEAN]

ASSUME NoClaimAssumption == NoClaim \notin Claims

(***************************************************************************)
(* Row updates shared by the transactions.                                 *)
(***************************************************************************)
\* Mutations of Advanced: the fence restarts with the activation, the attempt
\* counter survives it, the activation key does not move.
Advanced_ResetsFence(t, h) ==
  [t EXCEPT !.state = "runnable", !.node = Target[t.node][h], !.act = @ + 1,
            !.attempt = 0, !.fence = 0, !.owner = NoWorker, !.lease = "none"]
Advanced_KeepsAttempts(t, h) ==
  [t EXCEPT !.state = "runnable", !.node = Target[t.node][h], !.act = @ + 1,
            !.owner = NoWorker, !.lease = "none"]
Advanced_SameActivation(t, h) ==
  [t EXCEPT !.state = "runnable", !.node = Target[t.node][h],
            !.attempt = 0, !.owner = NoWorker, !.lease = "none"]

\* The token leaves its activation along handle h.
Advanced(t, h) ==
  [t EXCEPT !.state = "runnable", !.node = Target[t.node][h], !.act = @ + 1,
            !.attempt = 0, !.owner = NoWorker, !.lease = "none"]

\* Mutation of Released: the lease columns are not cleared.
Released_KeepsLease(t, state, fenceStep) ==
  [t EXCEPT !.state = state, !.fence = @ + fenceStep]

\* The token stays on its activation, or ends there, without a lease.
Released(t, state, fenceStep) ==
  [t EXCEPT !.state = state, !.fence = @ + fenceStep,
            !.owner = NoWorker, !.lease = "none"]

\* The token under a new lease: the next attempt, the next fence.
Claimed(t, w) ==
  [t EXCEPT !.state = "claimed", !.attempt = @ + 1, !.fence = @ + 1,
            !.owner = w, !.lease = "live"]

TraceRow(type, act, attempt, fence) ==
  [type |-> type, act |-> act, attempt |-> attempt, fence |-> fence]

\* A run event with the attempt row it points at, and one without.
AttemptEvent(type, t) == TraceRow(type, t.act, t.attempt, t.fence)
PlainEvent(type, t) == TraceRow(type, t.act, 0, 0)

\* The bound on activations; acyclic graphs stay below it.
CanAdvance(r) == token[r].act < MaxActivation

Idle(w) == claim' = [claim EXCEPT ![w] = NoClaim]

(***************************************************************************)
(* Enrollment: a pending run with a runnable token on the entry node.      *)
(***************************************************************************)
Init ==
  /\ token = [r \in Run |-> [state |-> "runnable", node |-> Entry, act |-> 1,
                             attempt |-> 0, fence |-> 0, owner |-> NoWorker,
                             lease |-> "none"]]
  /\ run = [r \in Run |-> [status |-> "pending", node |-> Entry]]
  /\ trace = [r \in Run |-> <<TraceRow("run_enrolled", 1, 0, 0)>>]
  /\ wait = [r \in Run |-> [a \in Act |->
               [status |-> "none", gen |-> 0, replay |-> FALSE]]]
  /\ item = [r \in Run |-> [a \in Act |-> [status |-> "none", rev |-> 0]]]
  /\ approval = [r \in Run |-> [a \in Act |->
                   [status |-> "none", rev |-> 0, deadline |-> "none"]]]
  /\ job = [r \in Run |-> [a \in Act |-> << >>]]
  /\ inbox = [r \in Run |-> {}]
  /\ claim = [w \in Worker |-> NoClaim]
  /\ booking = [state |-> "confirmed", revision |-> 1]

(***************************************************************************)
(* claimNext                                                               *)
(***************************************************************************)
Candidate(r) ==
  /\ token[r].state \in ClaimableTokenStates
  /\ run[r].status \in ClaimableRunStatuses

SoundCandidate(t) ==
  /\ t.attempt < MaxAttempts
  /\ t.fence >= t.attempt
  /\ t.state = "retry_scheduled" => t.attempt > 0

ContextReady(r) == r \in BookingRun => booking.state = "confirmed"

Claim(w, r) ==
  /\ claim[w] = NoClaim
  /\ Candidate(r) /\ SoundCandidate(token[r]) /\ ContextReady(r)
  /\ token' = [token EXCEPT ![r] = Claimed(@, w)]
  /\ run' = [run EXCEPT ![r] = [status |-> "running", node |-> token[r].node]]
  /\ claim' = [claim EXCEPT ![w] =
                 [run |-> r, node |-> token[r].node, act |-> token[r].act,
                  attempt |-> token[r].attempt + 1, fence |-> token[r].fence + 1,
                  answer |-> "none", gen |-> 0, looked |-> FALSE]]
  /\ UNCHANGED <<trace, obligations, job, inbox, booking>>

\* A candidate that can never run is failed instead of claimed.
QuarantinePoisonCandidate(r) ==
  /\ Candidate(r)
  /\ ~SoundCandidate(token[r]) \/ ~ContextReady(r)
  /\ token' = [token EXCEPT ![r] = Released(@, "failed", 0)]
  /\ run' = [run EXCEPT ![r] = [status |-> "failed_terminal", node |-> token[r].node]]
  /\ trace' = [trace EXCEPT ![r] = Append(@, PlainEvent("run_failed", token[r]))]
  /\ UNCHANGED <<obligations, job, inbox, claim, booking>>

(***************************************************************************)
(* The external request of a chart or message node.  It commits in its own *)
(* transaction, before finalize and without looking at the token.          *)
(***************************************************************************)
LastJob(r, a) == job[r][a][Len(job[r][a])]

Answered(w, answer, gen) ==
  claim' = [claim EXCEPT ![w].answer = answer, ![w].gen = gen]

StartsJob(w, status, answer) ==
  LET c == claim[w] IN
  /\ job' = [job EXCEPT ![c.run][c.act] = Append(@, status)]
  /\ Answered(w, answer, Len(job[c.run][c.act]) + 1)

\* A succeeded result is replayed, an active job joined, a failed one redone.
RequestChart(w) ==
  /\ claim[w] # NoClaim
  /\ Kind[claim[w].node] = "chart" /\ claim[w].answer = "none"
  /\ LET c == claim[w]
         known == job[c.run][c.act] IN
     IF known # << >> /\ LastJob(c.run, c.act) # "failed"
       THEN /\ Answered(w, IF LastJob(c.run, c.act) = "active" THEN "queued"
                                                              ELSE "existing", Len(known))
            /\ job' = job
       ELSE \/ StartsJob(w, "active", "queued")
            \/ known = << >> /\ StartsJob(w, "succeeded", "existing")
  /\ UNCHANGED <<token, run, trace, obligations, inbox, booking>>

\* Mutation of RequestMessage: a retried activation has no idempotency key.
RequestMessage_NoKey(w) ==
  /\ claim[w] # NoClaim
  /\ Kind[claim[w].node] = "message" /\ claim[w].answer = "none"
  /\ \/ StartsJob(w, "active", "queued")
     \/ Answered(w, "rejected", 0) /\ job' = job
  /\ UNCHANGED <<token, run, trace, obligations, inbox, booking>>

\* The message of an activation is created once, under its idempotency key.
RequestMessage(w) ==
  /\ claim[w] # NoClaim
  /\ Kind[claim[w].node] = "message" /\ claim[w].answer = "none"
  /\ LET c == claim[w] IN
     IF job[c.run][c.act] # << >>
       THEN Answered(w, "queued", 1) /\ job' = job
       ELSE \/ StartsJob(w, "active", "queued")
            \/ Answered(w, "rejected", 0) /\ job' = job
  /\ UNCHANGED <<token, run, trace, obligations, inbox, booking>>

(***************************************************************************)
(* finalize: applied only by the lease that is still on the token row.     *)
(***************************************************************************)
HoldsToken(w) ==
  LET c == claim[w]
      t == token[c.run] IN
  /\ t.state = "claimed" /\ t.owner = w /\ t.fence = c.fence
  /\ t.act = c.act /\ t.node = c.node
  /\ t.lease # "elapsed"

CanFinalize(w, kind) ==
  /\ claim[w] # NoClaim /\ HoldsToken(w)
  /\ Kind[claim[w].node] = kind
  /\ ContextReady(claim[w].run)
  /\ run[claim[w].run].status \in {"pending", "running"}

\* Mutation of ParksToken: the token state is written to the run row.
ParksToken_TokenStatus(r, state) ==
  /\ token' = [token EXCEPT ![r] = Released(@, state, 0)]
  /\ run' = [run EXCEPT ![r] = [status |-> state, node |-> token[r].node]]
  /\ trace' = [trace EXCEPT ![r] = Append(@, AttemptEvent("token_waiting", token[r]))]

\* Park the token in a waiting state and record the attempt.
ParksToken(r, state) ==
  /\ token' = [token EXCEPT ![r] = Released(@, state, 0)]
  /\ run' = [run EXCEPT ![r] = [status |-> "waiting", node |-> token[r].node]]
  /\ trace' = [trace EXCEPT ![r] = Append(@, AttemptEvent("token_waiting", token[r]))]

FinalizeTerminal(w) ==
  LET r == claim[w].run IN
  /\ CanFinalize(w, "terminal")
  /\ token' = [token EXCEPT ![r] = Released(@, "completed", 0)]
  /\ run' = [run EXCEPT ![r] = [status |-> "completed", node |-> token[r].node]]
  /\ trace' = [trace EXCEPT ![r] = Append(@, AttemptEvent("run_completed", token[r]))]
  /\ Idle(w)
  /\ UNCHANGED <<obligations, job, inbox, booking>>

\* A step chooses any of its edges; a message nobody can receive takes "error".
FinalizeAdvance(w) ==
  LET r == claim[w].run
      n == claim[w].node IN
  /\ \/ CanFinalize(w, "step")
     \/ CanFinalize(w, "message") /\ claim[w].answer = "rejected"
  /\ CanAdvance(r)
  /\ \E h \in IF Kind[n] = "step" THEN DOMAIN Target[n] ELSE {"error"} :
       /\ token' = [token EXCEPT ![r] = Advanced(@, h)]
       /\ run' = [run EXCEPT ![r] = [status |-> "running", node |-> Target[n][h]]]
  /\ trace' = [trace EXCEPT ![r] = Append(@, AttemptEvent("token_advanced", token[r]))]
  /\ Idle(w)
  /\ UNCHANGED <<obligations, job, inbox, booking>>

FinalizeWorkItem(w) ==
  LET r == claim[w].run IN
  /\ CanFinalize(w, "work_item")
  /\ ParksToken(r, "waiting_work_item")
  /\ item' = [item EXCEPT ![r][token[r].act] = [status |-> "pending", rev |-> 1]]
  /\ Idle(w)
  /\ UNCHANGED <<wait, approval, job, inbox, booking>>

FinalizeApproval(w) ==
  LET r == claim[w].run IN
  /\ CanFinalize(w, "approval")
  /\ ParksToken(r, "waiting_approval")
  /\ approval' = [approval EXCEPT ![r][token[r].act] =
                    [status |-> "pending", rev |-> 1,
                     deadline |-> IF token[r].node \in Expiring THEN "ahead" ELSE "none"]]
  /\ Idle(w)
  /\ UNCHANGED <<wait, item, job, inbox, booking>>

(***************************************************************************)
(* consumeFlowExecutionSignal: the row updates of a signal meeting a wait. *)
(* A failed chart ends the run; a failed message takes the "error" edge.   *)
(***************************************************************************)
Ends(n, outcome) == Kind[n] = "chart" /\ outcome = "failed"

SignalHandle(n, outcome) ==
  IF Kind[n] = "chart" THEN "next"
  ELSE IF outcome = "succeeded" THEN "success" ELSE "error"

SignaledToken(t, outcome) ==
  IF Ends(t.node, outcome) THEN Released(t, "failed", 0)
                           ELSE Advanced(t, SignalHandle(t.node, outcome))

SignaledRun(t, outcome) ==
  [status |-> IF Ends(t.node, outcome) THEN "failed_terminal" ELSE "running",
   node   |-> IF Ends(t.node, outcome) THEN t.node
              ELSE Target[t.node][SignalHandle(t.node, outcome)]]

SignaledEvent(t, outcome) ==
  PlainEvent(IF Ends(t.node, outcome) THEN "run_failed" ELSE "token_signaled", t)

\* "inserted" is the row of an ingest that is under way and has found no wait;
\* other transactions do not see it.  "raced" is history: the signal's ingest and
\* a finalize that looked for it were under way at the same time.
Signal(act, gen, source, outcome, state, raced) ==
  [act |-> act, gen |-> gen, source |-> source, outcome |-> outcome,
   state |-> state, raced |-> raced]

\* Mutation of StoredSignals: the inbox is not looked at when a wait opens.
StoredSignals_Ignored(r, gen) == {}

\* The unconsumed signals a new wait of the current activation can take.
StoredSignals(r, gen) ==
  {s \in inbox[r] : s.act = token[r].act /\ s.gen = gen /\ s.state = "stored"}

OpensWait(w) ==
  \/ CanFinalize(w, "chart") /\ claim[w].answer \in {"queued", "existing"}
  \/ CanFinalize(w, "message") /\ claim[w].answer = "queued"

\* The finalize of w, under way, has looked for the signals of a job in vain.
Looking(w, r, a, g) ==
  /\ claim[w] # NoClaim /\ claim[w].looked /\ HoldsToken(w)
  /\ claim[w].run = r /\ claim[w].act = a /\ claim[w].gen = g

\* The finalize has inserted its wait and looks for a signal.  It holds the
\* token's row until it commits: a step on the token in between makes it stale
\* here, as if the step had come first.
LookForSignal(w) ==
  LET r == claim[w].run
      c == claim[w] IN
  /\ OpensWait(w) /\ c.answer = "queued" /\ ~c.looked
  /\ StoredSignals(r, c.gen) = {}
  /\ claim' = [claim EXCEPT ![w].looked = TRUE]
  /\ inbox' = [inbox EXCEPT ![r] =
       {[s EXCEPT !.raced = @ \/ (s.act = c.act /\ s.gen = c.gen /\ s.state = "inserted")] :
          s \in inbox[r]}]
  /\ UNCHANGED <<token, run, trace, obligations, job, booking>>

\* A new wait takes a signal that is already in the inbox in the same
\* transaction, and is committed open when the look was in vain, whatever has
\* been stored since.  A result that existed before is replayed through the inbox
\* under the token's own id, of which the inbox can hold only one.
FinalizeSignalWait(w) ==
  LET r == claim[w].run
      t == token[r]
      c == claim[w]
      replay == c.answer = "existing"
      event == AttemptEvent("token_waiting", t)
      opened(status) == [status |-> status, gen |-> c.gen, replay |-> replay]
      parks == /\ ParksToken(r, IF Kind[t.node] = "chart" THEN "waiting_signal"
                                                          ELSE "waiting_external")
               /\ wait' = [wait EXCEPT ![r][t.act] = opened("waiting")]
               /\ inbox' = inbox
      consumes(outcome, rows) ==
               /\ CanAdvance(r)
               /\ token' = [token EXCEPT ![r] = SignaledToken(t, outcome)]
               /\ run' = [run EXCEPT ![r] = SignaledRun(t, outcome)]
               /\ trace' = [trace EXCEPT ![r] =
                              @ \o <<event, SignaledEvent(t, outcome)>>]
               /\ wait' = [wait EXCEPT ![r][t.act] = opened("consumed")]
               /\ inbox' = [inbox EXCEPT ![r] = rows] IN
  /\ OpensWait(w)
  /\ IF replay
       THEN /\ \A s \in inbox[r] : s.source # "token"
            /\ consumes("succeeded", inbox[r] \cup
                 {Signal(t.act, c.gen, "token", "succeeded", "consumed", FALSE)})
       ELSE \/ c.looked /\ parks
            \/ ~c.looked /\ \E s \in StoredSignals(r, c.gen) :
                 consumes(s.outcome,
                   (inbox[r] \ {s}) \cup {[s EXCEPT !.state = "consumed"]})
  /\ Idle(w)
  /\ UNCHANGED <<item, approval, job, booking>>

(***************************************************************************)
(* finalizeFailure, and the ways a worker ends up without an outcome.      *)
(***************************************************************************)
FailureClasses == {"retryable", "unexpected", "permanent"}

Retries(class, attempt) ==
  \/ class = "retryable" /\ attempt < MaxAttempts
  \/ class = "unexpected" /\ attempt < UnexpectedAttempts

FinalizeFailure(w) ==
  LET r == claim[w].run IN
  /\ claim[w] # NoClaim /\ HoldsToken(w) /\ ~claim[w].looked
  /\ run[r].status \in ClaimableRunStatuses
  /\ \E class \in FailureClasses :
       LET retry == Retries(class, token[r].attempt) IN
       /\ token' = [token EXCEPT ![r] =
                      Released(@, IF retry THEN "retry_scheduled" ELSE "failed", 0)]
       /\ run' = [run EXCEPT ![r] =
                    [status |-> IF retry THEN "failed_retryable" ELSE "failed_terminal",
                     node |-> token[r].node]]
       /\ trace' = [trace EXCEPT ![r] = Append(@, AttemptEvent(
                      IF retry THEN "token_retry_scheduled" ELSE "run_failed", token[r]))]
  /\ Idle(w)
  /\ UNCHANGED <<obligations, job, inbox, booking>>

\* finalize and finalizeFailure answer "stale" and the worker moves on.
FinalizeStale(w) ==
  /\ claim[w] # NoClaim /\ ~HoldsToken(w)
  /\ Idle(w)
  /\ UNCHANGED <<token, run, trace, obligations, job, inbox, booking>>

\* The process dies, its commit fails, or finalize throws: no outcome is
\* written and the lease is left to recovery.
Abandon(w) ==
  /\ claim[w] # NoClaim
  /\ Idle(w)
  /\ UNCHANGED <<token, run, trace, obligations, job, inbox, booking>>

(***************************************************************************)
(* Lease time and recoverOneExpired.                                       *)
(***************************************************************************)
LeaseElapses(r) ==
  /\ token[r].state = "claimed" /\ token[r].lease = "live"
  /\ token' = [token EXCEPT ![r].lease = "elapsed"]
  /\ UNCHANGED <<run, trace, obligations, job, inbox, claim, booking>>

\* The database clock steps back behind claimedAt.
ClockStepsBack(r) ==
  /\ token[r].state = "claimed" /\ token[r].lease = "live"
  /\ token' = [token EXCEPT ![r].lease = "future"]
  /\ UNCHANGED <<run, trace, obligations, job, inbox, claim, booking>>

SoundExpiredClaim(t) ==
  /\ t.attempt > 0 /\ t.attempt <= MaxAttempts
  /\ t.fence >= t.attempt
  /\ t.lease # "future"

\* Mutation of Expired: only claims with attempts left are recovered.
Expired_BudgetLeft(r) ==
  /\ token[r].state = "claimed" /\ token[r].lease \in {"elapsed", "future"}
  /\ run[r].status \in ClaimableRunStatuses
  /\ token[r].attempt < MaxAttempts

Expired(r) ==
  /\ token[r].state = "claimed" /\ token[r].lease \in {"elapsed", "future"}
  /\ run[r].status \in ClaimableRunStatuses

RecoverExpired(r) ==
  /\ Expired(r) /\ SoundExpiredClaim(token[r])
  /\ LET retry == token[r].attempt < MaxAttempts IN
     /\ token' = [token EXCEPT ![r] =
                    Released(@, IF retry THEN "retry_scheduled" ELSE "failed", 1)]
     /\ run' = [run EXCEPT ![r].status =
                  IF retry THEN "failed_retryable" ELSE "failed_terminal"]
     /\ trace' = [trace EXCEPT ![r] = Append(@, AttemptEvent(
                    IF retry THEN "token_lease_expired" ELSE "run_failed", token[r]))]
  /\ UNCHANGED <<obligations, job, inbox, claim, booking>>

QuarantineExpiredClaim(r) ==
  /\ Expired(r) /\ ~SoundExpiredClaim(token[r])
  /\ token' = [token EXCEPT ![r] = Released(@, "failed", 1)]
  /\ run' = [run EXCEPT ![r] = [status |-> "failed_terminal", node |-> token[r].node]]
  /\ trace' = [trace EXCEPT ![r] = Append(@, PlainEvent("run_failed", token[r]))]
  /\ UNCHANGED <<obligations, job, inbox, claim, booking>>

(***************************************************************************)
(* Chart jobs and messages end, and their terminal signals are delivered   *)
(* at least once, in any order, at any later time.                         *)
(***************************************************************************)
JobEnds(r, a) ==
  /\ job[r][a] # << >> /\ LastJob(r, a) = "active"
  /\ \E outcome \in {"succeeded", "failed"} :
       job' = [job EXCEPT ![r][a][Len(job[r][a])] = outcome]
  /\ UNCHANGED <<token, run, trace, obligations, inbox, claim, booking>>

\* Mutation of IngestSignal: an ingest does not look for a wait.
IngestSignal_NoLook(r, a, g) ==
  /\ job[r][a][g] # "active"
  /\ \A s \in inbox[r] : ~(s.act = a /\ s.gen = g /\ s.source = "job")
  /\ inbox' = [inbox EXCEPT ![r] = @ \cup
       {Signal(a, g, "job", job[r][a][g], "inserted", \E w \in Worker : Looking(w, r, a, g))}]
  /\ UNCHANGED <<token, run, trace, obligations, job, claim, booking>>

\* ingest: insert the signal once and look for an open wait; with one both are
\* consumed, without one the signal is committed as it is.  A redelivery is
\* answered "replayed", once the row is committed, and changes nothing.
IngestSignal(r, a, g) ==
  LET outcome == job[r][a][g]
      t == token[r]
      meets == /\ wait[r][a].status = "waiting" /\ wait[r][a].gen = g
               /\ ~wait[r][a].replay
               /\ t.state \in {"waiting_signal", "waiting_external"}
               /\ run[r].status = "waiting" IN
  /\ outcome # "active"
  /\ \A s \in inbox[r] : ~(s.act = a /\ s.gen = g /\ s.source = "job")
  /\ inbox' = [inbox EXCEPT ![r] = @ \cup
       {Signal(a, g, "job", outcome, IF meets THEN "consumed" ELSE "inserted",
               \E w \in Worker : Looking(w, r, a, g))}]
  /\ IF meets
       THEN /\ CanAdvance(r)
            /\ token' = [token EXCEPT ![r] = SignaledToken(t, outcome)]
            /\ run' = [run EXCEPT ![r] = SignaledRun(t, outcome)]
            /\ trace' = [trace EXCEPT ![r] = Append(@, SignaledEvent(t, outcome))]
            /\ wait' = [wait EXCEPT ![r][a].status = "consumed"]
       ELSE UNCHANGED <<token, run, trace, wait>>
  /\ UNCHANGED <<item, approval, job, claim, booking>>

\* The ingest that found no wait commits, or its process dies.
CommitSignal(r) ==
  /\ \E s \in inbox[r] :
       /\ s.state = "inserted"
       /\ inbox' = [inbox EXCEPT ![r] = (@ \ {s}) \cup {[s EXCEPT !.state = "stored"]}]
  /\ UNCHANGED <<token, run, trace, obligations, job, claim, booking>>

RollbackSignal(r) ==
  /\ \E s \in inbox[r] : s.state = "inserted" /\ inbox' = [inbox EXCEPT ![r] = @ \ {s}]
  /\ UNCHANGED <<token, run, trace, obligations, job, claim, booking>>

(***************************************************************************)
(* Work items: owner commands under a revision check, and the wake sweep.  *)
(***************************************************************************)
ItemRuntimeCoherent(r, a) ==
  /\ token[r].state = "waiting_work_item" /\ token[r].act = a
  /\ run[r].status = "waiting" /\ run[r].node = token[r].node

ItemBecomes(r, a, status) ==
  item' = [item EXCEPT ![r][a] = [status |-> status, rev |-> @.rev + 1]]

\* start: pending -> in_progress; snooze: any active status -> snoozed.
WorkItemCommand(r, a) ==
  /\ item[r][a].status \in ActiveItemStatuses
  /\ ContextReady(r) /\ ItemRuntimeCoherent(r, a)
  /\ item[r][a].rev < MaxRevision
  /\ \/ item[r][a].status = "pending" /\ ItemBecomes(r, a, "in_progress")
     \/ ItemBecomes(r, a, "snoozed")
  /\ UNCHANGED <<token, run, trace, wait, approval, job, inbox, claim, booking>>

CompleteWorkItem(r, a) ==
  /\ item[r][a].status = "in_progress"
  /\ ContextReady(r) /\ ItemRuntimeCoherent(r, a) /\ CanAdvance(r)
  /\ token' = [token EXCEPT ![r] = Advanced(@, "success")]
  /\ run' = [run EXCEPT ![r] = [status |-> "running",
                                node |-> Target[token[r].node]["success"]]]
  /\ ItemBecomes(r, a, "completed")
  /\ trace' = [trace EXCEPT ![r] = Append(@, PlainEvent("token_advanced", token[r]))]
  /\ UNCHANGED <<wait, approval, job, inbox, claim, booking>>

WakeWorkItem(r, a) ==
  /\ item[r][a].status = "snoozed" /\ ItemRuntimeCoherent(r, a)
  /\ ItemBecomes(r, a, "pending")
  /\ trace' = [trace EXCEPT ![r] = Append(@, PlainEvent("work_item_available", token[r]))]
  /\ UNCHANGED <<token, run, wait, approval, job, inbox, claim, booking>>

(***************************************************************************)
(* Approvals: decisions, snoozes, the deadline and the wake sweep.         *)
(***************************************************************************)
ApprovalRuntimeCoherent(r, a) ==
  /\ token[r].state = "waiting_approval" /\ token[r].act = a
  /\ run[r].status = "waiting" /\ run[r].node = token[r].node

ApprovalBecomes(r, a, status) ==
  approval' = [approval EXCEPT ![r][a].status = status, ![r][a].rev = @ + 1]

AdvancesApproval(r, a, handle, status, type) ==
  /\ ApprovalRuntimeCoherent(r, a) /\ CanAdvance(r)
  /\ token' = [token EXCEPT ![r] = Advanced(@, handle)]
  /\ run' = [run EXCEPT ![r] = [status |-> "running",
                                node |-> Target[token[r].node][handle]]]
  /\ trace' = [trace EXCEPT ![r] = Append(@, PlainEvent(type, token[r]))]
  /\ ApprovalBecomes(r, a, status)
  /\ UNCHANGED <<wait, item, job, inbox, claim, booking>>

\* A snooze never looks at the token.
SnoozeApproval(r, a) ==
  /\ approval[r][a].status = "pending" /\ approval[r][a].deadline # "passed"
  /\ approval[r][a].rev < MaxRevision
  /\ ApprovalBecomes(r, a, "snoozed")
  /\ UNCHANGED <<token, run, trace, wait, item, job, inbox, claim, booking>>

\* A decision needs a pending approval whose deadline is still ahead.
DecideApproval(r, a) ==
  /\ approval[r][a].status = "pending" /\ approval[r][a].deadline # "passed"
  /\ \E decision \in {"approved", "rejected"} :
       AdvancesApproval(r, a, decision, decision, "token_advanced")

DeadlinePasses(r, a) ==
  /\ approval[r][a].deadline = "ahead"
  /\ approval' = [approval EXCEPT ![r][a].deadline = "passed"]
  /\ UNCHANGED <<token, run, trace, wait, item, job, inbox, claim, booking>>

ExpireApproval(r, a) ==
  /\ approval[r][a].status \in OpenApprovalStatuses
  /\ approval[r][a].deadline = "passed"
  /\ AdvancesApproval(r, a, "timeout", "expired", "approval_expired")

WakeApproval(r, a) ==
  /\ approval[r][a].status = "snoozed" /\ approval[r][a].deadline # "passed"
  /\ ApprovalRuntimeCoherent(r, a)
  /\ ApprovalBecomes(r, a, "pending")
  /\ trace' = [trace EXCEPT ![r] = Append(@, PlainEvent("approval_available", token[r]))]
  /\ UNCHANGED <<token, run, wait, item, job, inbox, claim, booking>>

(***************************************************************************)
(* Cancellation by the owner and by the booking.                           *)
(***************************************************************************)
\* Mutations: the wait stays open, the trace does not record the ending.
CanceledWait_Forgotten(r) == wait[r]
CanceledTrace_Silent(r) == trace[r]

CanceledWait(r) ==
  [wait[r] EXCEPT ![token[r].act].status = IF @ = "waiting" THEN "canceled" ELSE @]

CanceledItems(r) ==
  [a \in Act |-> IF item[r][a].status \in ActiveItemStatuses
                   THEN [status |-> "canceled", rev |-> item[r][a].rev + 1]
                   ELSE item[r][a]]

CanceledTrace(r) ==
  Append(trace[r], IF token[r].state = "claimed"
                     THEN AttemptEvent("run_canceled", token[r])
                     ELSE PlainEvent("run_canceled", token[r]))

\* Every run of the set is canceled in one transaction, under a new fence.
\* Approvals are left as they are.
CancelsRuns(runs) ==
  /\ token' = [r \in Run |-> IF r \in runs THEN Released(token[r], "canceled", 1)
                                           ELSE token[r]]
  /\ run' = [r \in Run |-> IF r \in runs THEN [run[r] EXCEPT !.status = "canceled"]
                                         ELSE run[r]]
  /\ trace' = [r \in Run |-> IF r \in runs THEN CanceledTrace(r) ELSE trace[r]]
  /\ wait' = [r \in Run |-> IF r \in runs THEN CanceledWait(r) ELSE wait[r]]
  /\ item' = [r \in Run |-> IF r \in runs THEN CanceledItems(r) ELSE item[r]]

\* The owner cannot cancel a run that waits for a message or an approval, nor
\* one whose lease lies in the future.
CancelRun(r) ==
  /\ run[r].status \in RunStatuses \ TerminalRunStatuses
  /\ token[r].state \in {"runnable", "claimed", "retry_scheduled",
                         "waiting_signal", "waiting_work_item"}
  /\ token[r].state = "claimed" => token[r].lease # "future"
  /\ CancelsRuns({r})
  /\ UNCHANGED <<approval, job, inbox, claim, booking>>

\* Mutations of OpenBookingRuns: ended runs included, waiting runs left out.
OpenBookingRuns_Ended == BookingRun
OpenBookingRuns_NotWaiting == {r \in BookingRun : run[r].status \in ClaimableRunStatuses}

OpenBookingRuns == {r \in BookingRun : run[r].status \notin TerminalRunStatuses}

BookingMoves(state) ==
  /\ booking.state = "confirmed"
  /\ booking.revision < MaxBookingRevision
  /\ booking' = [state |-> state, revision |-> booking.revision + 1]

\* Deferred as a whole while one of its runs waits for an external effect.
BookingCancel ==
  /\ BookingMoves("cancelled")
  /\ \A r \in BookingRun : token[r].state # "waiting_external"
  /\ CancelsRuns(OpenBookingRuns)
  /\ UNCHANGED <<approval, job, inbox, claim>>

\* Deferred as a whole while one of its runs is claimed or waits externally.
\* A snoozed item whose new wake time has passed becomes pending.  The chain of
\* events may go on to the completion, which touches no run; a completion on its
\* own is never applied (FlowBookingLifecycle).
BookingReschedule ==
  /\ \E state \in {"confirmed", "completed"} : BookingMoves(state)
  /\ \A r \in OpenBookingRuns : token[r].state \notin {"claimed", "waiting_external"}
  /\ LET due == {r \in OpenBookingRuns : /\ token[r].state = "waiting_work_item"
                                         /\ token[r].node \in BookingDue} IN
     \E woken \in SUBSET {r \in due : item[r][token[r].act].status = "snoozed"} :
       item' = [r \in Run |-> IF r \in due
                  THEN [item[r] EXCEPT ![token[r].act] =
                          [status |-> IF r \in woken THEN "pending" ELSE @.status,
                           rev |-> @.rev + 1]]
                  ELSE item[r]]
  /\ trace' = [r \in Run |-> IF r \in OpenBookingRuns
                 THEN Append(trace[r], PlainEvent("booking_rescheduled", token[r]))
                 ELSE trace[r]]
  /\ UNCHANGED <<token, run, wait, approval, job, inbox, claim>>

(***************************************************************************)
(* The system.                                                             *)
(***************************************************************************)
WorkerStep(w) ==
  \/ \E r \in Run : Claim(w, r)
  \/ RequestChart(w) \/ RequestMessage(w)
  \/ FinalizeTerminal(w) \/ FinalizeAdvance(w) \/ FinalizeWorkItem(w)
  \/ FinalizeApproval(w) \/ LookForSignal(w) \/ FinalizeSignalWait(w)
  \/ FinalizeFailure(w) \/ FinalizeStale(w) \/ Abandon(w)

TokenStep(r) ==
  \/ QuarantinePoisonCandidate(r)
  \/ LeaseElapses(r) \/ ClockStepsBack(r)
  \/ RecoverExpired(r) \/ QuarantineExpiredClaim(r)
  \/ CommitSignal(r) \/ RollbackSignal(r)
  \/ CancelRun(r)

ObligationStep(r, a) ==
  \/ JobEnds(r, a)
  \/ \E g \in DOMAIN job[r][a] : IngestSignal(r, a, g)
  \/ WorkItemCommand(r, a) \/ CompleteWorkItem(r, a) \/ WakeWorkItem(r, a)
  \/ SnoozeApproval(r, a) \/ DecideApproval(r, a) \/ DeadlinePasses(r, a)
  \/ ExpireApproval(r, a) \/ WakeApproval(r, a)

Next ==
  \/ \E w \in Worker : WorkerStep(w)
  \/ \E r \in Run : TokenStep(r)
  \/ \E r \in Run, a \in Act : ObligationStep(r, a)
  \/ BookingCancel \/ BookingReschedule

Spec == Init /\ [][Next]_vars

(***************************************************************************)
(* Properties.                                                             *)
(***************************************************************************)
Leases == {"none", "live", "elapsed", "future"}
Tokens == [state : TokenStates, node : Node, act : Act, attempt : Nat, fence : Nat,
           owner : Worker \cup {NoWorker}, lease : Leases]
RunRows == [status : RunStatuses, node : Node]
Events == [type : EventTypes, act : Act, attempt : Nat, fence : Nat]
Waits == [status : {"none", "waiting", "consumed", "canceled"}, gen : Nat, replay : BOOLEAN]
Items == [status : {"none", "completed", "canceled"} \cup ActiveItemStatuses, rev : Nat]
Approvals == [status : {"none", "approved", "rejected", "expired"} \cup OpenApprovalStatuses,
              rev : Nat, deadline : {"none", "ahead", "passed"}]
Signals == [act : Act, gen : Nat, source : {"job", "token"},
            outcome : {"succeeded", "failed"}, state : {"inserted", "stored", "consumed"},
            raced : BOOLEAN]

\* The rows and the workers' memory have the types the schema gives them.
TypeOK ==
  /\ token \in [Run -> Tokens]
  /\ run \in [Run -> RunRows]
  /\ trace \in [Run -> Seq(Events)]
  /\ wait \in [Run -> [Act -> Waits]]
  /\ item \in [Run -> [Act -> Items]]
  /\ approval \in [Run -> [Act -> Approvals]]
  /\ job \in [Run -> [Act -> Seq({"active", "succeeded", "failed"})]]
  /\ inbox \in [Run -> SUBSET Signals]
  /\ claim \in [Worker -> Claims \cup {NoClaim}]
  /\ booking \in [state : {"confirmed", "cancelled", "completed"}, revision : Nat]

\* The run row a token state goes with.  Every command checks this pairing
\* (isCoherentWaitingRuntime, isCancelableRuntime, the claim filter) and refuses
\* to act without it, so a run outside it could never move again.
StatusOf(state) ==
  CASE state = "runnable"            -> {"pending", "running"}
    [] state = "claimed"             -> {"running"}
    [] state = "retry_scheduled"     -> {"failed_retryable"}
    [] state \in WaitingTokenStates  -> {"waiting"}
    [] state = "completed"           -> {"completed"}
    [] state = "failed"              -> {"failed_terminal"}
    [] OTHER                         -> {"canceled"}

\* In every reachable state run and token rows agree on status and node, and a
\* lease exists exactly while the token is claimed.
RunTokenCoherent ==
  \A r \in Run :
    /\ run[r].status \in StatusOf(token[r].state)
    /\ run[r].node = token[r].node
    /\ (token[r].owner # NoWorker) <=> (token[r].state = "claimed")
    /\ (token[r].lease # "none") <=> (token[r].state = "claimed")

\* A token waits if and only if the row it waits for is open, in the same
\* activation: a waiting token with no open obligation would never be resumed,
\* an open obligation without its token could resume the wrong activation.
\* (A booking cancellation leaves the approval of a canceled token open.)
ObligationMatchesToken ==
  \A r \in Run, a \in Act :
    LET current == token[r].act = a IN
    /\ (wait[r][a].status = "waiting")
         <=> (current /\ token[r].state \in {"waiting_signal", "waiting_external"})
    /\ (item[r][a].status \in ActiveItemStatuses)
         <=> (current /\ token[r].state = "waiting_work_item")
    /\ (current /\ token[r].state = "waiting_approval")
         => approval[r][a].status \in OpenApprovalStatuses
    /\ approval[r][a].status \in OpenApprovalStatuses
         => current /\ token[r].state \in {"waiting_approval", "canceled"}

Departures == {"token_advanced", "token_signaled", "approval_expired"}
Endings == {"run_completed", "run_failed", "run_canceled"}

\* No activation is left twice: the promise of the approval wake store ("without
\* ever taking two outgoing edges from the same token activation"), for signals,
\* work items and workers as well.  Departures are in the order of activations
\* and none is skipped.
OneDeparturePerActivation ==
  \A r \in Run :
    LET left == {i \in DOMAIN trace[r] : trace[r][i].type \in Departures} IN
    /\ {trace[r][i].act : i \in left} = 1 .. token[r].act - 1
    /\ \A i, j \in left : i < j => trace[r][i].act < trace[r][j].act

\* The trace of a run ends exactly when the run does, with one ending event.
TraceEndsTheRun ==
  \A r \in Run :
    \A i \in DOMAIN trace[r] :
      (trace[r][i].type \in Endings)
        <=> (i = Len(trace[r]) /\ run[r].status \in TerminalRunStatuses)

\* A claimed attempt is settled by at most one attempt row, under the fence it
\* was claimed with, and rows are written in fence order, whoever wrote them:
\* the worker, lease recovery or a cancellation.
AttemptsSettledInFenceOrder ==
  \A r \in Run :
    \A i, j \in {k \in DOMAIN trace[r] : trace[r][k].attempt > 0} :
      i < j => /\ trace[r][i].fence < trace[r][j].fence
               /\ trace[r][i].act = trace[r][j].act
                    => trace[r][i].attempt < trace[r][j].attempt

\* The retry budget of an activation is never exceeded, and the runtime never
\* writes a token row that claim or recovery would have to quarantine.
RuntimeNeverPoisonsItself ==
  \A r \in Run :
    /\ token[r].attempt <= MaxAttempts
    /\ Candidate(r) => SoundCandidate(token[r])
    /\ token[r].state = "claimed" =>
         SoundExpiredClaim([token[r] EXCEPT !.lease = "elapsed"])

\* Fencing: two claims on a run never carry the same fence, none is ahead of the
\* row, and a claim with the current fence of a claimed row is its owner's and
\* describes the row.
FencesSeparateClaims ==
  \A w \in Worker :
    claim[w] # NoClaim =>
      LET c == claim[w]
          t == token[c.run] IN
      /\ c.fence <= t.fence
      /\ \A v \in Worker \ {w} :
           claim[v] # NoClaim /\ claim[v].run = c.run => claim[v].fence # c.fence
      /\ t.state = "claimed" /\ t.fence = c.fence =>
           /\ t.owner = w /\ t.act = c.act /\ t.attempt = c.attempt /\ t.node = c.node

\* A wait is consumed by exactly one signal.  And through retries, recovered
\* leases, redeliveries, rolled back ingests and cancellations no wait stays open
\* next to a signal it could take, unless ingest and finalize were under way at
\* the same time: what is left of "signal-before-wait and wait-before-signal are
\* both lossless" (FlowSignalRendezvous shows that overlapping ones may miss).
SignalsMeetWaits ==
  \A r \in Run, a \in Act :
    /\ wait[r][a].status = "waiting" =>
         \A s \in inbox[r] :
           s.act = a /\ s.gen = wait[r][a].gen /\ s.state # "consumed" => s.raced
    /\ (wait[r][a].status = "consumed")
         <=> (\E s \in inbox[r] : s.act = a /\ s.state = "consumed")
    /\ \A s, u \in inbox[r] :
         s.act = a /\ u.act = a /\ s.state = "consumed" /\ u.state = "consumed" => s = u

\* A retried send_message activation never creates a second message.
OneMessagePerActivation ==
  \A r \in Run, a \in Act :
    token[r].act = a /\ Kind[token[r].node] = "message" => Len(job[r][a]) <= 1

\* Once the cancellation of a booking is applied none of its runs is alive.
CanceledBookingHasNoLiveRun ==
  booking.state = "cancelled" =>
    \A r \in BookingRun : run[r].status \in TerminalRunStatuses

\* A run that has ended is never touched again, whatever arrives late.
EndedRunsStayEnded ==
  [][\A r \in Run : run[r].status \in TerminalRunStatuses =>
       /\ token'[r] = token[r] /\ run'[r] = run[r] /\ trace'[r] = trace[r]
       /\ wait'[r] = wait[r] /\ item'[r] = item[r]]_vars

(***************************************************************************)
(* Fairness and liveness.  Time passes, the sweeps and the claim loop run  *)
(* periodically, and a worker always gets an answer to a stale finalize.   *)
(* Nothing is assumed of a worker that holds a claim: it may die each time.*)
(***************************************************************************)
Fairness ==
  /\ \A r \in Run :
       /\ WF_vars(LeaseElapses(r))
       /\ WF_vars(RecoverExpired(r)) /\ WF_vars(QuarantineExpiredClaim(r))
       /\ WF_vars(QuarantinePoisonCandidate(r))
       /\ WF_vars(\E w \in Worker : Claim(w, r))
  /\ \A w \in Worker : WF_vars(FinalizeStale(w))

FairSpec == Spec /\ Fairness

\* Even if every worker dies with its claim, a claimed token does not stay
\* claimed, and a run comes to rest: it waits for somebody or it ends.
Resting(r) == token[r].state \in WaitingTokenStates \cup TerminalTokenStates
RunsComeToRest == \A r \in Run : []<>Resting(r)

\* What a flow run promises: FlowRunContract, with the token row read as its
\* state.
PhaseOf(state) ==
  IF state \in ClaimableTokenStates THEN "ready"
  ELSE IF state = "claimed" THEN "busy"
  ELSE IF state \in WaitingTokenStates THEN "parked" ELSE state

Contract == INSTANCE FlowRunContract WITH
  phase <- [r \in Run |-> PhaseOf(token[r].state)],
  left  <- [r \in Run |-> token[r].act - 1]

\* Every behaviour of the runtime is a behaviour of the contract.
KeepsContract == Contract!Spec
=============================================================================
