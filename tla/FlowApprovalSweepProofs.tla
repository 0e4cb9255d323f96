------------------------ MODULE FlowApprovalSweepProofs ------------------------
(***************************************************************************)
(* An approval is settled once, for any number of approvals, sweeping      *)
(* workers, snoozes and cancelled bookings.                                *)
(***************************************************************************)
EXTENDS FlowApprovalSweep, TLAPS

\* What the list of a sweep cannot know, and the locks of each of its
\* transactions make sure of: an approval has been settled exactly when its run
\* has moved.
SettledTogether ==
  /\ approval \in [Approval -> [status : {"pending", "snoozed", "decided", "expired"},
                                expired : BOOLEAN, elapsed : BOOLEAN, snoozes : Nat]]
  /\ run \in [Approval -> {"waiting", "moved", "canceled"}]
  /\ \A i \in Approval : ~Open(i) <=> run[i] = "moved"

\* What one step may do to the approvals.
StepSettles ==
  \A i \in Approval :
    /\ ~Open(i) => approval'[i].status = approval[i].status
    /\ run[i] # "waiting" => run'[i] = run[i]
    /\ (~Open(i))' <=> (run'[i] = "moved")

LEMMA SettledTogetherStarts == Init => SettledTogether
  BY DEF Init, SettledTogether, Open

LEMMA OwnersAndTimeSettle ==
  ASSUME SettledTogether, NEW i \in Approval,
         Decide(i) \/ Snooze(i) \/ SnoozeElapses(i) \/ DeadlinePasses(i) \/ BookingCancels(i)
  PROVE  SettledTogether' /\ StepSettles
<1> USE DEF SettledTogether, StepSettles, Open
<1>1. CASE Decide(i)
  BY <1>1 DEF Decide
<1>2. CASE Snooze(i)
  BY <1>2 DEF Snooze
<1>3. CASE SnoozeElapses(i)
  BY <1>3 DEF SnoozeElapses
<1>4. CASE DeadlinePasses(i)
  BY <1>4 DEF DeadlinePasses
<1>5. CASE BookingCancels(i)
  BY <1>5 DEF BookingCancels
<1> QED BY <1>1, <1>2, <1>3, <1>4, <1>5

\* A candidate is settled only while its run still waits for it, however old the
\* list is that it comes from.
LEMMA SweepsSettle ==
  ASSUME SettledTogether, NEW w \in Worker, SweepOne(w)
  PROVE  SettledTogether' /\ StepSettles
<1> DEFINE i == Head(sweep[w])
<1> USE DEF SettledTogether, StepSettles, Open
<1>1. CASE UNCHANGED <<approval, run>>
  BY <1>1
<1>2. CASE i \in Approval /\ Coherent(i) /\ Expires(i)
  <2> HIDE DEF i
  <2> QED BY <1>2 DEF Coherent, Expires
<1>3. CASE i \in Approval /\ Coherent(i) /\ approval[i].status = "snoozed" /\ Wakes(i)
  <2> HIDE DEF i
  <2> QED BY <1>3 DEF Wakes
<1>4. CASE i \notin Approval /\ (Expires(i) \/ Wakes(i))
  <2> HIDE DEF i
  <2>1. UNCHANGED <<approval, run>>
    BY <1>4 DEF Expires, Wakes
  <2> QED BY <2>1
<1>5. \/ UNCHANGED <<approval, run>>
      \/ Coherent(i) /\ Expires(i)
      \/ Coherent(i) /\ approval[i].status = "snoozed" /\ Wakes(i)
  BY DEF SweepOne
<1> QED BY <1>1, <1>2, <1>3, <1>4, <1>5

\* A deadline races human decisions, snoozes, cancellations and other workers'
\* sweeps without settling an approval twice or moving its run twice
\* (settle and wakeOne of the wake store).
THEOREM ApprovalsAreSettledOnce == Spec => SettledOnce
<1>1. Init => SettledTogether
  BY SettledTogetherStarts
<1>2. SettledTogether /\ [Next]_vars => SettledTogether' /\ StepSettles
  <2> SUFFICES ASSUME SettledTogether, [Next]_vars PROVE SettledTogether' /\ StepSettles
    OBVIOUS
  <2>1. CASE UNCHANGED <<approval, run>>
    BY <2>1 DEF SettledTogether, StepSettles, Open
  <2>2. CASE \E i \in Approval : Decide(i) \/ Snooze(i) \/ SnoozeElapses(i) \/ DeadlinePasses(i)
                                 \/ BookingCancels(i)
    BY <2>2, OwnersAndTimeSettle
  <2>3. CASE \E w \in Worker : SweepOne(w)
    BY <2>3, SweepsSettle
  <2>4. CASE \E w \in Worker : StartSweep(w) \/ WorkerDies(w)
    BY <2>1, <2>4 DEF StartSweep, WorkerDies
  <2> QED BY <2>1, <2>2, <2>3, <2>4 DEF Next, vars
<1>3. SettledTogether /\ [Next]_vars => [StepSettles]_vars
  BY <1>2
<1>4. [][StepSettles]_vars => SettledOnce
  BY PTL DEF StepSettles, SettledOnce
<1> QED BY <1>1, <1>2, <1>3, <1>4, PTL DEF Spec
===============================================================================
