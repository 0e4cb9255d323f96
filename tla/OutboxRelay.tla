------------------------------ MODULE OutboxRelay ------------------------------
(***************************************************************************)
(* The general outbox and the relay loop over it: the notification worker  *)
(* sends messages and codes through it, the chart worker chart jobs.  A    *)
(* batch of due events is claimed in one statement, each event is handed   *)
(* over outside any transaction, and a last statement per event writes the *)
(* disposition under the fence of the claim.  What is handed over, and to  *)
(* whom, is left to the module that extends this one.                      *)
(***************************************************************************)
EXTENDS Integers, Sequences, FiniteSets

CONSTANTS
  Relay,     \* rounds of the relay that may run at the same time
  Batch,     \* events claimed at once
  MaxFaults  \* bound: deaths, lock timeouts and failures to hand over

ASSUME RelayAssumption == Batch \in Nat \ {0} /\ MaxFaults \in Nat

VARIABLES
  outbox,  \* outbox_events in order of creation; an event is its index.
           \* "due" is available_at, or a locked_at that has timed out
  held,    \* per relay: the claims it has not settled yet
  faults   \* how many faults have happened (bounds them)

outboxVars == <<outbox, held, faults>>

Event == DOMAIN outbox

RelayInit == outbox = << >> /\ held = [w \in Relay |-> {}] /\ faults = 0

\* The row a command inserts in its own transaction.
Row(about) == [about |-> about, status |-> "pending", due |-> TRUE]

Fault == faults < MaxFaults /\ faults' = faults + 1

(***************************************************************************)
(* claimPending: the oldest due events, pending or claimed too long ago.   *)
(* A new claim raises the row's fence; a claim remembers only whether its  *)
(* fence is still the row's.                                               *)
(***************************************************************************)
\* Mutation of Due: a lock that has timed out is not taken over.
Due_PendingOnly == {e \in Event : outbox[e].status = "pending" /\ outbox[e].due}

Due == {e \in Event : outbox[e].status \in {"pending", "publishing"} /\ outbox[e].due}

Claimable == {e \in Due : Cardinality({d \in Due : d < e}) < Batch}

ClaimPending(w) ==
  /\ held[w] = {} /\ Due # {}
  /\ outbox' = [e \in Event |-> IF e \in Claimable
                                THEN [about |-> outbox[e].about, status |-> "publishing", due |-> FALSE]
                                ELSE outbox[e]]
  /\ held' = [v \in Relay |->
       IF v = w THEN {[event |-> e, current |-> TRUE, result |-> "none"] : e \in Claimable}
       ELSE {IF c.event \in Claimable THEN [c EXCEPT !.current = FALSE] ELSE c : c \in held[v]}]
  /\ UNCHANGED faults

(***************************************************************************)
(* The loop takes the claimed events one after the other, in the order the *)
(* claim happened to return them.                                          *)
(***************************************************************************)
Handling(w, c) == c \in held[w] /\ \A d \in held[w] : d.result = "none"

HandedOver(w, c, result) ==
  held' = [held EXCEPT ![w] = (@ \ {c}) \cup {[c EXCEPT !.result = result]}]

HandOverFails(w, c) ==
  /\ Handling(w, c) /\ Fault
  /\ HandedOver(w, c, "failed")
  /\ UNCHANGED outbox

Fenced(c) == outbox[c.event].status = "publishing" /\ c.current

\* markPublished, markPublishFailed.  A stale claim throws out of the loop and
\* leaves the rest of the batch claimed until its lock times out.
Settle(w, c) ==
  /\ c \in held[w] /\ c.result # "none"
  /\ IF Fenced(c)
       THEN /\ outbox' = [outbox EXCEPT ![c.event].status =
                            IF c.result = "failed" THEN "pending" ELSE "published"]
            /\ held' = [held EXCEPT ![w] = @ \ {c}]
       ELSE /\ held' = [held EXCEPT ![w] = {}]
            /\ UNCHANGED outbox
  /\ UNCHANGED faults

RelayDies(w) ==
  /\ held[w] # {} /\ Fault
  /\ held' = [held EXCEPT ![w] = {}]
  /\ UNCHANGED outbox

(***************************************************************************)
(* Time: a backoff passes, a lock times out.  It is a fault when the       *)
(* holder is alive and merely slow.                                        *)
(***************************************************************************)
HeldNow(e) == \E w \in Relay : \E c \in held[w] : c.event = e /\ c.current

BecomesDue(e) ==
  /\ outbox[e].status \in {"pending", "publishing"} /\ ~outbox[e].due
  /\ IF outbox[e].status = "publishing" /\ HeldNow(e) THEN Fault ELSE UNCHANGED faults
  /\ outbox' = [outbox EXCEPT ![e].due = TRUE]
  /\ UNCHANGED held

RelayTypeOK(About) ==
  /\ \A e \in Event : outbox[e] \in [about : About, due : BOOLEAN,
                                     status : {"pending", "publishing", "published"}]
  /\ \A w \in Relay : \A c \in held[w] :
       c \in [event : Event, current : BOOLEAN, result : {"none", "added", "failed"}]
  /\ faults \in 0 .. MaxFaults
===============================================================================
