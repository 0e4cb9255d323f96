---------------------------- MODULE FlowRunContract ----------------------------
(***************************************************************************)
(* What a flow run promises to the rest of the platform, without tokens,   *)
(* leases or attempts: it leaves its node activations one at a time, only  *)
(* a worker completes it, a closed run stays closed, and a worker's hold   *)
(* on it always ends.                                                      *)
(***************************************************************************)
EXTENDS Integers

CONSTANT Run

VARIABLES
  phase,  \* ready, busy (held by a worker), parked, or how the run closed
  left    \* how many node activations the run has left

cvars == <<phase, left>>

Closings == {"completed", "failed", "canceled"}

Init ==
  /\ phase = [r \in Run |-> "ready"]
  /\ left = [r \in Run |-> 0]

Moves(r, from, to, departs) ==
  /\ phase[r] \in from
  /\ phase' = [phase EXCEPT ![r] = to]
  /\ left' = [left EXCEPT ![r] = @ + departs]

Start(r)    == Moves(r, {"ready"}, "busy", 0)
GiveBack(r) == Moves(r, {"busy"}, "ready", 0)
Park(r)     == Moves(r, {"busy"}, "parked", 0)
Depart(r)   == Moves(r, {"busy", "parked"}, "ready", 1)
Complete(r) == Moves(r, {"busy"}, "completed", 0)
Fail(r)     == Moves(r, {"ready", "busy", "parked"}, "failed", 0)

\* One cancellation may close several runs.
Cancel ==
  \E runs \in SUBSET {r \in Run : phase[r] \notin Closings} :
    /\ phase' = [r \in Run |-> IF r \in runs THEN "canceled" ELSE phase[r]]
    /\ left' = left

Next ==
  \/ \E r \in Run : Start(r) \/ GiveBack(r) \/ Park(r) \/ Depart(r) \/ Complete(r) \/ Fail(r)
  \/ Cancel

\* The steps that end a worker's hold.
Settles(r) ==
  /\ phase[r] = "busy"
  /\ GiveBack(r) \/ Park(r) \/ Depart(r) \/ Complete(r) \/ Fail(r)

SafetySpec == Init /\ [][Next]_cvars
Spec == SafetySpec /\ \A r \in Run : WF_cvars(Settles(r))
===============================================================================
