-------------------------- MODULE FlowDispatchOutbox --------------------------
(***************************************************************************)
(* The dispatch outbox of the flow runtime and its relays: a batch of due  *)
(* events is claimed in one transaction, each event is handed to its       *)
(* handler in a transaction of its own, and a third one writes the         *)
(* disposition under the fence of the claim.  What the handlers do is left *)
(* to the module that extends this one.                                    *)
(***************************************************************************)
EXTENDS Integers, FiniteSets

CONSTANTS
  Relay,        \* relay processes
  Batch,        \* events claimed at once
  MaxAttempts,  \* attempts before an event is quarantined
  MaxEvent,     \* bound: events, numbered in order of creation
  MaxFaults     \* bound: deaths, lock timeouts and transient failures

ASSUME OutboxAssumption ==
  /\ Batch \in Nat \ {0} /\ MaxAttempts \in Nat \ {0}
  /\ MaxEvent \in Nat \ {0} /\ MaxFaults \in Nat

Event == 1 .. MaxEvent

VARIABLES
  outbox,  \* outbox_events; "due" is available_at, or locked_at timed out
  held,    \* per relay: the claimed events it still has to settle
  faults   \* how many faults have happened (bounds them)

outboxVars == <<outbox, held, faults>>

Dispositions == {"published", "deferred", "retry", "poison"}

\* What a relay remembers of a claim.  Fences are compared for equality with
\* the row only, so a claim remembers whether its fence is still the row's.
Claimed(e, attempts) == [event |-> e, attempts |-> attempts, current |-> TRUE, result |-> "none"]

OutboxInit ==
  /\ outbox = [e \in Event |-> [status |-> "absent", attempts |-> 0, due |-> FALSE]]
  /\ held = [w \in Relay |-> {}]
  /\ faults = 0

\* The row a command inserts in its own transaction.
Inserted(e) == [outbox EXCEPT ![e] = [status |-> "pending", attempts |-> 0, due |-> TRUE]]

Fault == faults < MaxFaults /\ faults' = faults + 1

(***************************************************************************)
(* claimBatch                                                              *)
(***************************************************************************)
Oldest(S, n) == {e \in S : Cardinality({x \in S : x < e}) < n}

Due == {e \in Event : outbox[e].status \in {"pending", "publishing"} /\ outbox[e].due}
Exhausted == Oldest({e \in Due : outbox[e].attempts >= MaxAttempts}, Batch)

\* Mutation of Claimable: the budget is not looked at.
Claimable_NoBudget == Oldest(Due, Batch - Cardinality(Exhausted))

\* Quarantined events use up their part of the batch.
Claimable == Oldest({e \in Due : outbox[e].attempts < MaxAttempts}, Batch - Cardinality(Exhausted))

ClaimBatch(w) ==
  /\ held[w] = {} /\ Due # {}
  /\ outbox' = [e \in Event |->
       CASE e \in Exhausted -> [status |-> "quarantined", due |-> FALSE,
                                attempts |-> outbox[e].attempts]
         [] e \in Claimable -> [status |-> "publishing", due |-> FALSE,
                                attempts |-> outbox[e].attempts + 1]
         [] OTHER           -> outbox[e]]
  /\ held' = [v \in Relay |->
       IF v = w THEN {Claimed(e, outbox[e].attempts + 1) : e \in Claimable}
       ELSE {IF c.event \in Claimable THEN [c EXCEPT !.current = FALSE] ELSE c : c \in held[v]}]
  /\ UNCHANGED faults

(***************************************************************************)
(* A relay handles its events one after the other, in the order the claim  *)
(* happened to return them.                                                *)
(***************************************************************************)
Handling(w, c) == c \in held[w] /\ \A d \in held[w] : d.result = "none"

Handled(w, c, result) ==
  held' = [held EXCEPT ![w] = (@ \ {c}) \cup {[c EXCEPT !.result = result]}]

\* The handler fails for a reason that may pass.
HandlerFails(w, c) ==
  /\ Handling(w, c) /\ Fault
  /\ Handled(w, c, IF c.attempts >= MaxAttempts THEN "poison" ELSE "retry")
  /\ UNCHANGED outbox

\* Mutation of Disposed: a deferral counts as an attempt.
Disposed_CountsDeferrals(row, result) ==
  [status |-> CASE result = "published" -> "published"
                [] result = "poison"    -> "quarantined"
                [] OTHER                -> "pending",
   attempts |-> row.attempts, due |-> FALSE]

\* markPublished, markDeferred, markRetry, markQuarantined.
Disposed(row, result) ==
  [status |-> CASE result = "published" -> "published"
                [] result = "poison"    -> "quarantined"
                [] OTHER                -> "pending",
   attempts |-> IF result = "deferred" THEN row.attempts - 1 ELSE row.attempts, due |-> FALSE]

\* Written only under the fence of the claim, otherwise stale.
Settle(w, c) ==
  /\ c \in held[w] /\ c.result # "none"
  /\ LET row == outbox[c.event] IN
     outbox' = IF /\ row.status = "publishing" /\ c.current
                  /\ c.result = "deferred" => row.attempts > 0
                 THEN [outbox EXCEPT ![c.event] = Disposed(row, c.result)]
                 ELSE outbox
  /\ held' = [held EXCEPT ![w] = @ \ {c}]
  /\ UNCHANGED faults

\* The process dies; what it had claimed stays locked.
RelayDies(w) ==
  /\ held[w] # {} /\ Fault
  /\ held' = [held EXCEPT ![w] = {}]
  /\ UNCHANGED outbox

(***************************************************************************)
(* Time: a delay passes, a lock times out.  It is a fault when the holder  *)
(* is alive and merely slow.                                               *)
(***************************************************************************)
HeldNow(e) == \E w \in Relay : \E c \in held[w] : c.event = e /\ c.current

BecomesDue(e) ==
  /\ outbox[e].status \in {"pending", "publishing"} /\ ~outbox[e].due
  /\ IF outbox[e].status = "publishing" /\ HeldNow(e) THEN Fault ELSE UNCHANGED faults
  /\ outbox' = [outbox EXCEPT ![e].due = TRUE]
  /\ UNCHANGED held

OutboxTypeOK ==
  /\ outbox \in [Event -> [status : {"absent", "pending", "publishing", "published", "quarantined"},
                           attempts : 0 .. MaxAttempts, due : BOOLEAN]]
  /\ held \in [Relay -> SUBSET [event : Event, attempts : 1 .. MaxAttempts,
                                current : BOOLEAN, result : Dispositions \cup {"none"}]]
  /\ faults \in 0 .. MaxFaults
===============================================================================
