--------------------------- MODULE FlowApprovalSweep ---------------------------
(***************************************************************************)
(* The periodic sweep over due approvals.  A sweep selects a bounded,      *)
(* ordered list of candidates outside any transaction and then settles     *)
(* each in a transaction of its own, while owners decide and snooze,       *)
(* bookings are cancelled and other workers sweep.  FlowRuntime has the    *)
(* effect of a single expiry on the run; this module has the list.         *)
(***************************************************************************)
EXTENDS Integers, Sequences, FiniteSets, SequencesExt

CONSTANTS
  Worker,     \* processes that sweep
  Steady,     \* one of them that does not die
  Approvals,  \* how many approvals there are
  Limit,      \* candidates per sweep
  MaxSnoozes, \* bound: snoozes of one approval
  MaxCancels  \* bound: approvals whose booking is cancelled

ASSUME SweepAssumption ==
  /\ Steady \in Worker
  /\ Approvals \in Nat \ {0} /\ Limit \in Nat \ {0}
  /\ MaxSnoozes \in Nat /\ MaxCancels \in Nat

\* Approvals are numbered in the order of the sweep: by deadline.
Approval == 1 .. Approvals

VARIABLES
  approval,  \* flow_approvals: status, whether deadline and snooze have passed
  run,       \* where the run of the approval is
  sweep      \* per worker: the candidates it still has to settle

vars == <<approval, run, sweep>>

Init ==
  /\ approval = [i \in Approval |->
       [status |-> "pending", expired |-> FALSE, elapsed |-> FALSE, snoozes |-> 0]]
  /\ run = [i \in Approval |-> "waiting"]
  /\ sweep = [w \in Worker |-> << >>]

Open(i) == approval[i].status \in {"pending", "snoozed"}
Due(i) == Open(i) /\ (approval[i].expired \/ (approval[i].status = "snoozed" /\ approval[i].elapsed))

(***************************************************************************)
(* Owners, bookings and time.                                              *)
(***************************************************************************)
Decide(i) ==
  /\ approval[i].status = "pending" /\ ~approval[i].expired
  /\ run[i] = "waiting"
  /\ approval' = [approval EXCEPT ![i].status = "decided"]
  /\ run' = [run EXCEPT ![i] = "moved"]
  /\ UNCHANGED sweep

\* A snooze does not look at the run.
Snooze(i) ==
  /\ approval[i].status = "pending" /\ ~approval[i].expired
  /\ approval[i].snoozes < MaxSnoozes
  /\ approval' = [approval EXCEPT ![i].status = "snoozed", ![i].elapsed = FALSE,
                                  ![i].snoozes = @ + 1]
  /\ UNCHANGED <<run, sweep>>

SnoozeElapses(i) ==
  /\ approval[i].status = "snoozed" /\ ~approval[i].elapsed
  /\ approval' = [approval EXCEPT ![i].elapsed = TRUE]
  /\ UNCHANGED <<run, sweep>>

DeadlinePasses(i) ==
  /\ Open(i) /\ ~approval[i].expired
  /\ approval' = [approval EXCEPT ![i].expired = TRUE]
  /\ UNCHANGED <<run, sweep>>

\* The cancellation of a booking cancels the run and leaves the approval open.
BookingCancels(i) ==
  /\ run[i] = "waiting"
  /\ Cardinality({k \in Approval : run[k] = "canceled"}) < MaxCancels
  /\ run' = [run EXCEPT ![i] = "canceled"]
  /\ UNCHANGED <<approval, sweep>>

(***************************************************************************)
(* wakeDue                                                                 *)
(***************************************************************************)
\* Mutation of FirstOf: one candidate less than the limit allows.
FirstOf_OffByOne(S) == {i \in S : Cardinality({k \in S : k < i}) < Limit - 1}

FirstOf(S) == {i \in S : Cardinality({k \in S : k < i}) < Limit}

Candidates == SetToSortSeq(FirstOf({i \in Approval : Due(i)}), <)

StartSweep(w) ==
  /\ sweep[w] = << >> /\ Candidates # << >>
  /\ sweep' = [sweep EXCEPT ![w] = Candidates]
  /\ UNCHANGED <<approval, run>>

\* Mutation of Coherent: a candidate is not checked again under its lock.
Coherent_AsSelected(i) == TRUE

\* The token and the run still wait for this approval.
Coherent(i) == run[i] = "waiting"

Expires(i) ==
  /\ approval' = [approval EXCEPT ![i].status = "expired"]
  /\ run' = [run EXCEPT ![i] = "moved"]

Wakes(i) ==
  /\ approval' = [approval EXCEPT ![i].status = "pending", ![i].elapsed = FALSE]
  /\ run' = run

\* One candidate, under its locks: an incoherent one is counted as an integrity
\* failure, a stale one skipped.
SweepOne(w) ==
  /\ sweep[w] # << >>
  /\ LET i == Head(sweep[w]) IN
     IF ~Coherent(i) THEN UNCHANGED <<approval, run>>
     ELSE IF approval[i].expired THEN Expires(i)
     ELSE IF approval[i].status = "snoozed" /\ approval[i].elapsed THEN Wakes(i)
     ELSE UNCHANGED <<approval, run>>
  /\ sweep' = [sweep EXCEPT ![w] = Tail(@)]

WorkerDies(w) ==
  /\ w # Steady /\ sweep[w] # << >>
  /\ sweep' = [sweep EXCEPT ![w] = << >>]
  /\ UNCHANGED <<approval, run>>

Next ==
  \/ \E i \in Approval :
       Decide(i) \/ Snooze(i) \/ SnoozeElapses(i) \/ DeadlinePasses(i) \/ BookingCancels(i)
  \/ \E w \in Worker : StartSweep(w) \/ SweepOne(w) \/ WorkerDies(w)

\* The worker that lives sweeps periodically and finishes its sweeps.
Fairness == WF_vars(StartSweep(Steady)) /\ WF_vars(SweepOne(Steady))

Spec == Init /\ [][Next]_vars /\ Fairness

(***************************************************************************)
(* Properties.                                                             *)
(***************************************************************************)
\* The wake store's promise, that a deadline races a human decision "without
\* ever taking two outgoing edges from the same token activation", for stale
\* candidate lists and several sweeping workers too: an approval that is settled
\* and a run that no longer waits for it stay as they are, and the approval is
\* settled exactly when its run has moved.
SettledOnce ==
  [][\A i \in Approval :
       /\ ~Open(i) => approval'[i].status = approval[i].status
       /\ run[i] # "waiting" => run'[i] = run[i]
       /\ (~Open(i))' <=> (run'[i] = "moved")]_vars

\* ADR 0011: the sweeper "wakes due timers and snoozed/expired approvals" in
\* bounded batches.  A due approval whose run waits for it is settled in the end -
\* as long as the approvals that cancelled bookings leave open do not fill a batch
\* (MaxCancels < Limit; with as many as a batch holds the property fails).
HealthyApprovalsAreHandled ==
  \A i \in Approval : (Due(i) /\ run[i] = "waiting") ~> ~(Due(i) /\ run[i] = "waiting")
================================================================================
