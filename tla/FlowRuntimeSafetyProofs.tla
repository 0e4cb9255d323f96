----------------------- MODULE FlowRuntimeSafetyProofs -----------------------
(***************************************************************************)
(* The safety of flow runs, proved from the row types of FlowRuntimeProofs *)
(* for any graph and any number of runs and workers:                       *)
(*   - run and token rows agree, fences separate the claims on a run, an   *)
(*     ended run is final, a cancelled booking has no live run;            *)
(*   - every step treats a run in one of seven ways (RunStep); from these  *)
(*     follow the retry budget, the end and the order of the trace, and    *)
(*     that a run keeps the safety part of FlowRunContract;                *)
(*   - tokens fit their obligations, signals meet waits, and a message     *)
(*     activation sends one message.                                       *)
(***************************************************************************)
EXTENDS FlowRuntimeProofs

(***************************************************************************)
(* Run and token rows agree.                                               *)
(***************************************************************************)
\* What RunTokenCoherent asks of a token row t and the run row q of one run.
RowsAgree(t, q) ==
  /\ q.status \in StatusOf(t.state)
  /\ q.node = t.node
  /\ (t.owner # NoWorker) <=> (t.state = "claimed")
  /\ (t.lease # "none") <=> (t.state = "claimed")

\* The status that goes with each state a token is released into.
LEMMA ReleasedAgrees ==
  ASSUME NEW t \in Tokens, NEW state \in TokenStates \ {"claimed"}, NEW step \in {0, 1},
         NEW status \in StatusOf(state)
  PROVE  RowsAgree(Released(t, state, step), [status |-> status, node |-> t.node])
<1>1. /\ Released(t, state, step).state = state /\ Released(t, state, step).node = t.node
      /\ Released(t, state, step).owner = NoWorker /\ Released(t, state, step).lease = "none"
  BY DEF Released, Tokens
<1> QED
  BY <1>1 DEF RowsAgree

\* A moved token belongs to a running run on the same node.
LEMMA AdvancedAgrees ==
  ASSUME NEW t \in Tokens, NEW h
  PROVE  RowsAgree(Advanced(t, h), [status |-> "running", node |-> Target[t.node][h]])
<1>1. /\ Advanced(t, h).state = "runnable" /\ Advanced(t, h).node = Target[t.node][h]
      /\ Advanced(t, h).owner = NoWorker /\ Advanced(t, h).lease = "none"
  BY DEF Advanced, Tokens
<1>2. "running" \in StatusOf("runnable")
  BY DEF StatusOf, WaitingTokenStates
<1> QED
  BY <1>1, <1>2 DEF RowsAgree

\* A signal moves run and token together, or ends both.
LEMMA SignaledAgrees ==
  ASSUME NEW t \in Tokens, NEW outcome
  PROVE  RowsAgree(SignaledToken(t, outcome), SignaledRun(t, outcome))
<1>1. "failed_terminal" \in StatusOf("failed")
  BY DEF StatusOf, WaitingTokenStates
<1>2. CASE Ends(t.node, outcome)
  <2>1. "failed" \in TokenStates \ {"claimed"}
    BY DEF TokenStates, TerminalTokenStates
  <2>2. RowsAgree(Released(t, "failed", 0), [status |-> "failed_terminal", node |-> t.node])
    BY <1>1, <2>1, ReleasedAgrees
  <2> QED
    BY <1>2, <2>2 DEF SignaledToken, SignaledRun
<1>3. CASE ~Ends(t.node, outcome)
  BY <1>3, AdvancedAgrees DEF SignaledToken, SignaledRun
<1> QED
  BY <1>2, <1>3

\* It is enough to look at the rows an action writes.
LEMMA OneRunChanges ==
  ASSUME TypeOK, RunTokenCoherent, NEW r \in Run, NEW t, NEW q, RowsAgree(t, q),
         token' = [token EXCEPT ![r] = t], run' = [run EXCEPT ![r] = q]
  PROVE  RunTokenCoherent'
BY DEF TypeOK, RunTokenCoherent, RowsAgree

\* Coherent rows stay coherent in every step of a worker.
LEMMA WorkerStepCoherent ==
  ASSUME TypeInv, RunTokenCoherent, NEW w \in Worker, WorkerStep(w)
  PROVE  RunTokenCoherent'
<1> DEFINE c == claim[w]
           r == c.run
<1> USE DEF TypeInv
<1>1. \A q \in Run : token[q] \in Tokens
  BY DEF TypeOK
<1>2. claim[w] # NoClaim => r \in Run
  BY HeldClaim
<1>3. ASSUME NEW q \in Run, Claim(w, q) PROVE RunTokenCoherent'
  <2>1. /\ Claimed(token[q], w).state = "claimed" /\ Claimed(token[q], w).node = token[q].node
        /\ Claimed(token[q], w).owner = w /\ Claimed(token[q], w).lease = "live"
    BY <1>1 DEF Claimed, Tokens
  <2>2. "running" \in StatusOf("claimed")
    BY DEF StatusOf, WaitingTokenStates
  <2>3. RowsAgree(Claimed(token[q], w), [status |-> "running", node |-> token[q].node])
    BY <2>1, <2>2, GraphAssumption DEF RowsAgree
  <2>4. /\ token' = [token EXCEPT ![q] = Claimed(token[q], w)]
        /\ run' = [run EXCEPT ![q] = [status |-> "running", node |-> token[q].node]]
    BY <1>3 DEF Claim
  <2> QED
    BY <2>3, <2>4, OneRunChanges
<1>4. ASSUME NEW state \in WaitingTokenStates, claim[w] # NoClaim, ParksToken(r, state)
      PROVE  RunTokenCoherent'
  <2>1. "waiting" \in StatusOf(state) /\ state \in TokenStates \ {"claimed"}
    BY DEF StatusOf, TokenStates, WaitingTokenStates
  <2>2. RowsAgree(Released(token[r], state, 0), [status |-> "waiting", node |-> token[r].node])
    BY <1>1, <1>2, <1>4, <2>1, ReleasedAgrees
  <2> QED
    BY <1>2, <1>4, <2>2, OneRunChanges DEF ParksToken
<1>5. ASSUME NEW outcome, claim[w] # NoClaim,
             token' = [token EXCEPT ![r] = SignaledToken(token[r], outcome)],
             run' = [run EXCEPT ![r] = SignaledRun(token[r], outcome)]
      PROVE  RunTokenCoherent'
  BY <1>1, <1>2, <1>5, SignaledAgrees, OneRunChanges
<1>6. CASE FinalizeTerminal(w)
  <2>1. "completed" \in StatusOf("completed") /\ "completed" \in TokenStates \ {"claimed"}
    BY DEF StatusOf, TokenStates, TerminalTokenStates, WaitingTokenStates
  <2>2. claim[w] # NoClaim
    BY <1>6 DEF FinalizeTerminal, CanFinalize
  <2>3. RowsAgree(Released(token[r], "completed", 0), [status |-> "completed", node |-> token[r].node])
    BY <1>1, <1>2, <2>1, <2>2, ReleasedAgrees
  <2> QED
    BY <1>2, <1>6, <2>2, <2>3, OneRunChanges DEF FinalizeTerminal
<1>7. CASE FinalizeAdvance(w)
  <2>1. claim[w] # NoClaim /\ token[r].node = c.node
    BY <1>7 DEF FinalizeAdvance, CanFinalize, HoldsToken
  <2>2. PICK h : /\ token' = [token EXCEPT ![r] = Advanced(token[r], h)]
                 /\ run' = [run EXCEPT ![r] = [status |-> "running",
                                               node |-> Target[token[r].node][h]]]
    BY <1>7, <2>1 DEF FinalizeAdvance
  <2> QED
    BY <1>1, <1>2, <2>1, <2>2, AdvancedAgrees, OneRunChanges
<1>8. CASE FinalizeWorkItem(w) \/ FinalizeApproval(w)
  BY <1>4, <1>8 DEF FinalizeWorkItem, FinalizeApproval, CanFinalize, WaitingTokenStates
<1>9. CASE FinalizeSignalWait(w)
  <2>1. claim[w] # NoClaim
    BY <1>9 DEF FinalizeSignalWait, OpensWait, CanFinalize
  <2>2. \/ ParksToken(r, IF Kind[token[r].node] = "chart" THEN "waiting_signal"
                                                        ELSE "waiting_external")
        \/ \E outcome : /\ token' = [token EXCEPT ![r] = SignaledToken(token[r], outcome)]
                        /\ run' = [run EXCEPT ![r] = SignaledRun(token[r], outcome)]
    BY <1>9 DEF FinalizeSignalWait
  <2> QED
    BY <1>4, <1>5, <2>1, <2>2 DEF WaitingTokenStates
<1>10. CASE FinalizeFailure(w)
  <2>1. claim[w] # NoClaim
    BY <1>10 DEF FinalizeFailure
  <2>2. PICK state \in {"retry_scheduled", "failed"} :
          /\ token' = [token EXCEPT ![r] = Released(token[r], state, 0)]
          /\ run' = [run EXCEPT ![r] =
               [status |-> IF state = "failed" THEN "failed_terminal" ELSE "failed_retryable",
                node |-> token[r].node]]
    BY <1>10 DEF FinalizeFailure
  <2>3. /\ state \in TokenStates \ {"claimed"}
        /\ (IF state = "failed" THEN "failed_terminal" ELSE "failed_retryable") \in StatusOf(state)
    BY DEF StatusOf, TokenStates, TerminalTokenStates, ClaimableTokenStates, WaitingTokenStates
  <2> QED
    BY <1>1, <1>2, <2>1, <2>2, <2>3, ReleasedAgrees, OneRunChanges
<1>11. CASE \/ RequestChart(w) \/ RequestMessage(w) \/ LookForSignal(w)
            \/ FinalizeStale(w) \/ Abandon(w)
  <2>1. token' = token /\ run' = run
    BY <1>11 DEF RequestChart, RequestMessage, LookForSignal, FinalizeStale, Abandon
  <2> QED
    BY <2>1 DEF RunTokenCoherent
<1> QED
  BY <1>3, <1>6, <1>7, <1>8, <1>9, <1>10, <1>11 DEF WorkerStep

\* Coherent rows stay coherent when a set of runs is canceled.
LEMMA CancelsRunsCoherent ==
  ASSUME TypeInv, RunTokenCoherent, NEW runs \in SUBSET Run, CancelsRuns(runs)
  PROVE  RunTokenCoherent'
<1> USE DEF TypeInv
<1>1. "canceled" \in StatusOf("canceled") /\ "canceled" \in TokenStates \ {"claimed"}
  BY DEF StatusOf, TokenStates, TerminalTokenStates, WaitingTokenStates
<1>2. SUFFICES ASSUME NEW r \in Run PROVE RowsAgree(token'[r], run'[r])
  BY DEF RunTokenCoherent, RowsAgree
<1>3. token[r] \in Tokens /\ run[r] \in RunRows /\ run[r].node = token[r].node
  BY DEF TypeOK, RunTokenCoherent
<1>4. CASE r \in runs
  <2>1. token'[r] = Released(token[r], "canceled", 1)
    BY <1>4 DEF CancelsRuns
  <2>2. run'[r] = [run[r] EXCEPT !.status = "canceled"]
    BY <1>4 DEF CancelsRuns
  <2>3. run'[r] = [status |-> "canceled", node |-> token[r].node]
    BY <1>3, <2>2 DEF RunRows
  <2> QED
    BY <1>1, <1>3, <2>1, <2>3, ReleasedAgrees
<1>5. CASE r \notin runs
  BY <1>5 DEF CancelsRuns, RunTokenCoherent, RowsAgree
<1> QED
  BY <1>4, <1>5

\* Coherent rows stay coherent when a claim is quarantined or recovered, when
\* time passes and when the owner cancels.
LEMMA TokenStepCoherent ==
  ASSUME TypeInv, RunTokenCoherent, NEW r \in Run, TokenStep(r)
  PROVE  RunTokenCoherent'
<1> USE DEF TypeInv
<1>1. token[r] \in Tokens /\ run[r] \in RunRows /\ run[r].node = token[r].node
  BY DEF TypeOK, RunTokenCoherent
<1>2. ASSUME NEW state \in {"retry_scheduled", "failed"}, NEW step \in {0, 1},
             token' = [token EXCEPT ![r] = Released(token[r], state, step)],
             run' = [run EXCEPT ![r] =
               [status |-> IF state = "failed" THEN "failed_terminal" ELSE "failed_retryable",
                node |-> token[r].node]]
      PROVE  RunTokenCoherent'
  <2>1. /\ state \in TokenStates \ {"claimed"}
        /\ (IF state = "failed" THEN "failed_terminal" ELSE "failed_retryable") \in StatusOf(state)
    BY DEF StatusOf, TokenStates, TerminalTokenStates, ClaimableTokenStates, WaitingTokenStates
  <2> QED
    BY <1>1, <1>2, <2>1, ReleasedAgrees, OneRunChanges
<1>3. CASE QuarantinePoisonCandidate(r) \/ QuarantineExpiredClaim(r)
  BY <1>2, <1>3 DEF QuarantinePoisonCandidate, QuarantineExpiredClaim
<1>4. CASE RecoverExpired(r)
  <2>1. PICK state \in {"retry_scheduled", "failed"} :
          /\ token' = [token EXCEPT ![r] = Released(token[r], state, 1)]
          /\ run' = [run EXCEPT ![r] = [run[r] EXCEPT !.status =
                       IF state = "failed" THEN "failed_terminal" ELSE "failed_retryable"]]
    BY <1>4 DEF RecoverExpired
  <2>2. \A status : [run[r] EXCEPT !.status = status] = [status |-> status, node |-> token[r].node]
    BY <1>1 DEF RunRows
  <2> QED
    BY <1>2, <2>1, <2>2
<1>5. CASE LeaseElapses(r) \/ ClockStepsBack(r)
  <2>1. PICK lease \in {"elapsed", "future"} :
          token' = [token EXCEPT ![r] = [token[r] EXCEPT !.lease = lease]]
    BY <1>5 DEF LeaseElapses, ClockStepsBack
  <2>2. run' = [run EXCEPT ![r] = run[r]] /\ token[r].state = "claimed"
    BY <1>5 DEF LeaseElapses, ClockStepsBack, TypeOK
  <2>3. RowsAgree([token[r] EXCEPT !.lease = lease], run[r])
    BY <1>1, <2>2 DEF RowsAgree, RunTokenCoherent, Tokens
  <2> QED
    BY <2>1, <2>2, <2>3, OneRunChanges
<1>6. CASE CancelRun(r)
  BY <1>6, CancelsRunsCoherent DEF CancelRun
<1>7. CASE CommitSignal(r) \/ RollbackSignal(r)
  BY <1>7 DEF CommitSignal, RollbackSignal, RunTokenCoherent
<1> QED
  BY <1>3, <1>4, <1>5, <1>6, <1>7 DEF TokenStep

\* Coherent rows stay coherent when an obligation is met or moved.
LEMMA ObligationStepCoherent ==
  ASSUME TypeInv, RunTokenCoherent, NEW r \in Run, NEW a \in Act, ObligationStep(r, a)
  PROVE  RunTokenCoherent'
<1> USE DEF TypeInv
<1>1. token[r] \in Tokens
  BY DEF TypeOK
<1>2. ASSUME NEW handle,
             token' = [token EXCEPT ![r] = Advanced(token[r], handle)],
             run' = [run EXCEPT ![r] = [status |-> "running",
                                        node |-> Target[token[r].node][handle]]]
      PROVE  RunTokenCoherent'
  BY <1>1, <1>2, AdvancedAgrees, OneRunChanges
<1>3. ASSUME token' = token, run' = run PROVE RunTokenCoherent'
  BY <1>3 DEF RunTokenCoherent
<1>4. CASE \E g \in DOMAIN job[r][a] : IngestSignal(r, a, g)
  <2>1. \/ token' = token /\ run' = run
        \/ \E outcome : /\ token' = [token EXCEPT ![r] = SignaledToken(token[r], outcome)]
                        /\ run' = [run EXCEPT ![r] = SignaledRun(token[r], outcome)]
    BY <1>4 DEF IngestSignal
  <2> QED
    BY <1>1, <1>3, <2>1, SignaledAgrees, OneRunChanges
<1>5. CASE CompleteWorkItem(r, a)
  BY <1>2, <1>5 DEF CompleteWorkItem
<1>6. CASE DecideApproval(r, a) \/ ExpireApproval(r, a)
  BY <1>2, <1>6 DEF DecideApproval, ExpireApproval, AdvancesApproval
<1>7. CASE \/ JobEnds(r, a) \/ WorkItemCommand(r, a) \/ WakeWorkItem(r, a)
           \/ SnoozeApproval(r, a) \/ DeadlinePasses(r, a) \/ WakeApproval(r, a)
  BY <1>3, <1>7 DEF JobEnds, WorkItemCommand, WakeWorkItem, SnoozeApproval,
                    DeadlinePasses, WakeApproval
<1> QED
  BY <1>4, <1>5, <1>6, <1>7 DEF ObligationStep

\* RunTokenCoherent, the safety invariant every command relies on: in every
\* behaviour the run row and the token row agree on status, node and lease.
THEOREM RowsStayCoherent == Spec => []RunTokenCoherent
<1>1. Init => RunTokenCoherent
  BY DEF Init, RunTokenCoherent, StatusOf, WaitingTokenStates
<1>2. TypeInv /\ RunTokenCoherent /\ [Next]_vars => RunTokenCoherent'
  <2> SUFFICES ASSUME TypeInv, RunTokenCoherent, [Next]_vars PROVE RunTokenCoherent'
    OBVIOUS
  <2>1. CASE BookingCancel
    <3>1. OpenBookingRuns \in SUBSET Run
      BY GraphAssumption DEF OpenBookingRuns
    <3> QED
      BY <2>1, <3>1, CancelsRunsCoherent DEF BookingCancel
  <2>2. CASE BookingReschedule \/ UNCHANGED vars
    <3>1. token' = token /\ run' = run
      BY <2>2 DEF BookingReschedule, vars
    <3> QED
      BY <3>1 DEF RunTokenCoherent
  <2> QED
    BY <2>1, <2>2, WorkerStepCoherent, TokenStepCoherent, ObligationStepCoherent DEF Next
<1> QED
  BY <1>1, <1>2, TypesHold, PTL DEF Spec

(***************************************************************************)
(* Fencing.                                                                *)
(***************************************************************************)
\* No fence goes back, and a token that is claimed after the step carried the
\* same lease before it: what every step but a claim does.
NoNewLease ==
  \A r \in Run :
    /\ token'[r].fence \in Nat /\ token'[r].fence >= token[r].fence
    /\ token'[r].state = "claimed" =>
         /\ token[r].state = "claimed" /\ token'[r].fence = token[r].fence
         /\ token'[r].owner = token[r].owner /\ token'[r].act = token[r].act
         /\ token'[r].attempt = token[r].attempt /\ token'[r].node = token[r].node

\* Workers drop claims and hear answers, but get no new claim.
NoNewClaim ==
  \A w \in Worker :
    \/ claim'[w] = NoClaim
    \/ /\ claim[w] # NoClaim
       /\ claim'[w].run = claim[w].run /\ claim'[w].act = claim[w].act
       /\ claim'[w].node = claim[w].node /\ claim'[w].attempt = claim[w].attempt
       /\ claim'[w].fence = claim[w].fence

\* A step that makes no new claim keeps the fences apart.
LEMMA NoNewLeaseKeepsFences ==
  ASSUME TypeOK, FencesSeparateClaims, NoNewLease, NoNewClaim
  PROVE  FencesSeparateClaims'
<1>1. \A w \in Worker : claim[w] # NoClaim =>
        claim[w].run \in Run /\ claim[w].fence \in Nat
  BY DEF TypeOK, Claims
<1>2. \A r \in Run : token[r].fence \in Nat
  BY DEF TypeOK, Tokens
<1> QED
  BY <1>1, <1>2 DEF FencesSeparateClaims, NoNewLease, NoNewClaim

\* A new claim carries a fence no claim has had.
LEMMA ClaimKeepsFences ==
  ASSUME TypeOK, FencesSeparateClaims, NEW w \in Worker, NEW r \in Run, Claim(w, r)
  PROVE  FencesSeparateClaims'
<1> DEFINE new == [run |-> r, node |-> token[r].node, act |-> token[r].act,
                   attempt |-> token[r].attempt + 1, fence |-> token[r].fence + 1,
                   answer |-> "none", gen |-> 0, looked |-> FALSE]
<1>1. token[r] \in Tokens /\ token[r].fence \in Nat
  BY DEF TypeOK, Tokens
<1>2. /\ Claimed(token[r], w).fence = token[r].fence + 1
      /\ Claimed(token[r], w).attempt = token[r].attempt + 1
      /\ Claimed(token[r], w).owner = w
      /\ Claimed(token[r], w).act = token[r].act /\ Claimed(token[r], w).node = token[r].node
  BY <1>1 DEF Claimed, Tokens
<1>3. token' = [token EXCEPT ![r] = Claimed(token[r], w)] /\ claim' = [claim EXCEPT ![w] = new]
  BY DEF Claim
<1>4. claim'[w] = new /\ \A v \in Worker \ {w} : claim'[v] = claim[v]
  BY <1>3 DEF TypeOK
<1>5. token'[r] = Claimed(token[r], w) /\ \A q \in Run \ {r} : token'[q] = token[q]
  BY <1>3 DEF TypeOK
<1>6. \A v \in Worker : claim[v] # NoClaim =>
        claim[v].run \in Run /\ claim[v].fence \in Nat /\ claim[v].fence <= token[claim[v].run].fence
  BY DEF TypeOK, Claims, FencesSeparateClaims
<1>7. \A v \in Worker \ {w} : claim[v] # NoClaim /\ claim[v].run = r =>
        claim[v].fence # token[r].fence + 1
  BY <1>1, <1>6
<1>8. SUFFICES ASSUME NEW v \in Worker, claim'[v] # NoClaim
               PROVE  LET c == claim'[v]
                          t == token'[c.run] IN
                      /\ c.fence <= t.fence
                      /\ \A u \in Worker \ {v} :
                           claim'[u] # NoClaim /\ claim'[u].run = c.run => claim'[u].fence # c.fence
                      /\ t.state = "claimed" /\ t.fence = c.fence =>
                           /\ t.owner = v /\ t.act = c.act /\ t.attempt = c.attempt
                           /\ t.node = c.node
  BY DEF FencesSeparateClaims
<1>9. CASE v = w
  BY <1>1, <1>2, <1>4, <1>5, <1>7, <1>9
<1>10. CASE v # w /\ claim[v].run = r
  BY <1>1, <1>2, <1>4, <1>5, <1>6, <1>7, <1>8, <1>10 DEF FencesSeparateClaims
<1>11. CASE v # w /\ claim[v].run # r
  BY <1>4, <1>5, <1>6, <1>8, <1>11 DEF FencesSeparateClaims
<1> QED
  BY <1>9, <1>10, <1>11

\* The token updates of the other actions make no new lease.
LEMMA MovedTokenHasNoLease ==
  ASSUME TypeOK, NEW r \in Run, NEW t,
         \/ \E h : t = Advanced(token[r], h)
         \/ \E state \in TokenStates \ {"claimed"}, step \in {0, 1} : t = Released(token[r], state, step)
         \/ \E outcome : t = SignaledToken(token[r], outcome),
         token' = [token EXCEPT ![r] = t]
  PROVE  NoNewLease
<1>1. token[r] \in Tokens /\ \A q \in Run : token[q].fence \in Nat
  BY DEF TypeOK, Tokens
<1>2. ASSUME NEW h, t = Advanced(token[r], h)
      PROVE  t.state # "claimed" /\ t.fence = token[r].fence
  BY <1>1, <1>2 DEF Advanced, Tokens
<1>3. ASSUME NEW state \in TokenStates \ {"claimed"}, NEW step \in {0, 1},
             t = Released(token[r], state, step)
      PROVE  t.state # "claimed" /\ t.fence = token[r].fence + step
  BY <1>1, <1>3 DEF Released, Tokens
<1>4. "failed" \in TokenStates \ {"claimed"}
  BY DEF TokenStates, TerminalTokenStates
<1>5. t.state # "claimed" /\ t.fence \in Nat /\ t.fence >= token[r].fence
  <2>1. CASE \E h : t = Advanced(token[r], h)
    BY <1>1, <1>2, <2>1
  <2>2. CASE \E state \in TokenStates \ {"claimed"}, step \in {0, 1} : t = Released(token[r], state, step)
    BY <1>1, <1>3, <2>2
  <2>3. CASE \E outcome : t = SignaledToken(token[r], outcome)
    BY <1>1, <1>2, <1>3, <1>4, <2>3 DEF SignaledToken
  <2> QED
    BY <2>1, <2>2, <2>3
<1> QED
  BY <1>1, <1>5 DEF NoNewLease, TypeOK

\* Tokens that stay as they are, or lose their lease to a cancellation.
LEMMA KeptOrCanceledHasNoLease ==
  ASSUME TypeOK, token' = token \/ \E runs \in SUBSET Run : CancelsRuns(runs)
  PROVE  NoNewLease
<1>1. \A q \in Run : token[q] \in Tokens /\ token[q].fence \in Nat
  BY DEF TypeOK, Tokens
<1>2. \A q \in Run : /\ Released(token[q], "canceled", 1).state = "canceled"
                     /\ Released(token[q], "canceled", 1).fence = token[q].fence + 1
  BY <1>1 DEF Released, Tokens
<1>3. CASE token' = token
  BY <1>1, <1>3 DEF NoNewLease
<1>4. CASE \E runs \in SUBSET Run : CancelsRuns(runs)
  <2>1. \A q \in Run : token'[q] = token[q] \/ token'[q] = Released(token[q], "canceled", 1)
    BY <1>4 DEF CancelsRuns
  <2> QED
    BY <1>1, <1>2, <2>1 DEF NoNewLease
<1> QED
  BY <1>3, <1>4

\* No worker step but a claim makes a new lease or a new claim.
LEMMA WorkerMakesNoLease ==
  ASSUME TypeOK, NEW w \in Worker, WorkerStep(w), \A q \in Run : ~Claim(w, q)
  PROVE  NoNewLease /\ NoNewClaim
<1> DEFINE r == claim[w].run
<1>1. claim[w] # NoClaim
  BY DEF WorkerStep, RequestChart, RequestMessage, FinalizeTerminal, FinalizeAdvance,
         FinalizeWorkItem, FinalizeApproval, LookForSignal, FinalizeSignalWait, OpensWait,
         FinalizeFailure, FinalizeStale, Abandon, CanFinalize
<1>2. claim[w] \in Claims /\ r \in Run
  BY <1>1, HeldClaim
<1>3. ASSUME Idle(w) PROVE NoNewClaim
  BY <1>3 DEF Idle, NoNewClaim, TypeOK
<1>4. ASSUME NEW answer, NEW gen, Answered(w, answer, gen) PROVE NoNewClaim
  <2>1. claim' = [claim EXCEPT ![w] = [claim[w] EXCEPT !.answer = answer, !.gen = gen]]
    BY <1>4 DEF Answered, TypeOK
  <2> QED
    BY <1>1, <1>2, <2>1 DEF NoNewClaim, TypeOK, Claims
<1>5. \A state \in {"completed", "failed", "retry_scheduled"} \cup WaitingTokenStates :
        state \in TokenStates \ {"claimed"}
  BY DEF TokenStates, TerminalTokenStates, ClaimableTokenStates, WaitingTokenStates
<1>6. ASSUME NEW state \in {"completed", "failed", "retry_scheduled"} \cup WaitingTokenStates,
             token' = [token EXCEPT ![r] = Released(token[r], state, 0)]
      PROVE  NoNewLease
  BY <1>2, <1>5, <1>6, MovedTokenHasNoLease
<1>7. CASE FinalizeTerminal(w)
  BY <1>3, <1>6, <1>7 DEF FinalizeTerminal
<1>8. CASE FinalizeAdvance(w)
  <2>1. \E h : token' = [token EXCEPT ![r] = Advanced(token[r], h)]
    BY <1>8 DEF FinalizeAdvance
  <2> QED
    BY <1>2, <1>3, <1>8, <2>1, MovedTokenHasNoLease DEF FinalizeAdvance
<1>9. CASE FinalizeWorkItem(w) \/ FinalizeApproval(w)
  BY <1>3, <1>6, <1>9
  DEF FinalizeWorkItem, FinalizeApproval, ParksToken, WaitingTokenStates
<1>10. CASE FinalizeSignalWait(w)
  <2>1. \/ ParksToken(r, IF Kind[token[r].node] = "chart" THEN "waiting_signal"
                                                        ELSE "waiting_external")
        \/ \E outcome : token' = [token EXCEPT ![r] = SignaledToken(token[r], outcome)]
    BY <1>10 DEF FinalizeSignalWait
  <2>2. NoNewLease
    BY <1>2, <1>6, <2>1, MovedTokenHasNoLease DEF ParksToken, WaitingTokenStates
  <2> QED
    BY <1>3, <1>10, <2>2 DEF FinalizeSignalWait
<1>11. CASE FinalizeFailure(w)
  <2>1. \E state \in {"retry_scheduled", "failed"} :
          token' = [token EXCEPT ![r] = Released(token[r], state, 0)]
    BY <1>11 DEF FinalizeFailure
  <2> QED
    BY <1>3, <1>6, <1>11, <2>1 DEF FinalizeFailure
<1>12. CASE FinalizeStale(w) \/ Abandon(w)
  BY <1>3, <1>12, KeptOrCanceledHasNoLease DEF FinalizeStale, Abandon
<1>13. CASE RequestChart(w) \/ RequestMessage(w)
  <2>1. \E answer, gen : Answered(w, answer, gen)
    BY <1>13 DEF RequestChart, RequestMessage, StartsJob
  <2>2. token' = token
    BY <1>13 DEF RequestChart, RequestMessage
  <2> QED
    BY <1>4, <2>1, <2>2, KeptOrCanceledHasNoLease
<1>14. CASE LookForSignal(w)
  <2>1. claim' = [claim EXCEPT ![w] = [claim[w] EXCEPT !.looked = TRUE]] /\ token' = token
    BY <1>14 DEF LookForSignal
  <2>2. NoNewClaim
    BY <1>1, <1>2, <2>1 DEF NoNewClaim, TypeOK, Claims
  <2> QED
    BY <2>1, <2>2, KeptOrCanceledHasNoLease
<1> QED
  BY <1>7, <1>8, <1>9, <1>10, <1>11, <1>12, <1>13, <1>14 DEF WorkerStep

\* Nor does any step outside the workers.
LEMMA OthersMakeNoLease ==
  ASSUME TypeOK,
         \/ \E r \in Run : TokenStep(r)
         \/ \E r \in Run, a \in Act : ObligationStep(r, a)
         \/ BookingCancel \/ BookingReschedule \/ UNCHANGED vars
  PROVE  NoNewLease /\ NoNewClaim
<1>1. claim' = claim
  <2>1. ASSUME NEW r \in Run, TokenStep(r) PROVE claim' = claim
    BY <2>1 DEF TokenStep, QuarantinePoisonCandidate, LeaseElapses, ClockStepsBack,
                RecoverExpired, QuarantineExpiredClaim, CommitSignal, RollbackSignal, CancelRun
  <2>2. ASSUME NEW r \in Run, NEW a \in Act, ObligationStep(r, a) PROVE claim' = claim
    BY <2>2
    DEF ObligationStep, JobEnds, IngestSignal, WorkItemCommand, CompleteWorkItem,
        WakeWorkItem, SnoozeApproval, DecideApproval, DeadlinePasses, ExpireApproval,
        WakeApproval, AdvancesApproval
  <2>3. CASE BookingCancel \/ BookingReschedule \/ UNCHANGED vars
    BY <2>3 DEF BookingCancel, BookingReschedule, vars
  <2> QED
    BY <2>1, <2>2, <2>3
<1>2. NoNewClaim
  BY <1>1 DEF NoNewClaim
<1>3. ASSUME NEW r \in Run, TokenStep(r) PROVE NoNewLease
  <2>1. \A state \in {"failed", "retry_scheduled"} : state \in TokenStates \ {"claimed"}
    BY DEF TokenStates, TerminalTokenStates, ClaimableTokenStates
  <2>2. CASE QuarantinePoisonCandidate(r) \/ RecoverExpired(r) \/ QuarantineExpiredClaim(r)
    <3>1. \E state \in {"failed", "retry_scheduled"}, step \in {0, 1} :
            token' = [token EXCEPT ![r] = Released(token[r], state, step)]
      BY <2>2 DEF QuarantinePoisonCandidate, RecoverExpired, QuarantineExpiredClaim
    <3> QED
      BY <2>1, <3>1, MovedTokenHasNoLease
  <2>3. CASE LeaseElapses(r) \/ ClockStepsBack(r)
    <3>1. PICK lease : token' = [token EXCEPT ![r] = [token[r] EXCEPT !.lease = lease]]
      BY <2>3 DEF LeaseElapses, ClockStepsBack
    <3>2. \A q \in Run : token[q] \in Tokens /\ token[q].fence \in Nat
      BY DEF TypeOK, Tokens
    <3>3. \A q \in Run : \/ token'[q] = token[q]
                         \/ token'[q] = [token[q] EXCEPT !.lease = lease]
      BY <3>1 DEF TypeOK
    <3>4. \A q \in Run : /\ token'[q].state = token[q].state /\ token'[q].fence = token[q].fence
                         /\ token'[q].owner = token[q].owner /\ token'[q].act = token[q].act
                         /\ token'[q].attempt = token[q].attempt
                         /\ token'[q].node = token[q].node
      BY <3>2, <3>3 DEF Tokens
    <3> QED
      BY <3>2, <3>4 DEF NoNewLease
  <2>4. CASE CancelRun(r)
    BY <2>4, KeptOrCanceledHasNoLease DEF CancelRun
  <2>5. CASE CommitSignal(r) \/ RollbackSignal(r)
    BY <2>5, KeptOrCanceledHasNoLease DEF CommitSignal, RollbackSignal
  <2> QED
    BY <1>3, <2>2, <2>3, <2>4, <2>5 DEF TokenStep
<1>4. ASSUME NEW r \in Run, NEW a \in Act, ObligationStep(r, a) PROVE NoNewLease
  <2>1. \/ token' = token
        \/ \E h : token' = [token EXCEPT ![r] = Advanced(token[r], h)]
        \/ \E outcome : token' = [token EXCEPT ![r] = SignaledToken(token[r], outcome)]
    BY <1>4
    DEF ObligationStep, JobEnds, IngestSignal, WorkItemCommand, CompleteWorkItem,
        WakeWorkItem, SnoozeApproval, DecideApproval, DeadlinePasses, ExpireApproval,
        WakeApproval, AdvancesApproval
  <2> QED
    BY <2>1, KeptOrCanceledHasNoLease, MovedTokenHasNoLease
<1>5. CASE BookingCancel \/ BookingReschedule \/ UNCHANGED vars
  <2>1. OpenBookingRuns \in SUBSET Run
    BY GraphAssumption DEF OpenBookingRuns
  <2>2. token' = token \/ CancelsRuns(OpenBookingRuns)
    BY <1>5 DEF BookingCancel, BookingReschedule, vars
  <2> QED
    BY <1>2, <2>1, <2>2, KeptOrCanceledHasNoLease
<1> QED
  BY <1>2, <1>3, <1>4, <1>5

\* FencesSeparateClaims: for any number of workers, no two claims on a run carry
\* the same fence, so of all the workers that believe they hold a run at most
\* one can write its outcome.
THEOREM FencesHold == Spec => []FencesSeparateClaims
<1>1. Init => FencesSeparateClaims
  BY DEF Init, FencesSeparateClaims
<1>2. TypeInv /\ FencesSeparateClaims /\ [Next]_vars => FencesSeparateClaims'
  <2> SUFFICES ASSUME TypeOK, FencesSeparateClaims, [Next]_vars PROVE FencesSeparateClaims'
    BY DEF TypeInv
  <2>1. CASE \E w \in Worker, r \in Run : Claim(w, r)
    BY <2>1, ClaimKeepsFences
  <2>2. CASE ~\E w \in Worker, r \in Run : Claim(w, r)
    BY <2>2, WorkerMakesNoLease, OthersMakeNoLease, NoNewLeaseKeepsFences DEF Next
  <2> QED
    BY <2>1, <2>2
<1> QED
  BY <1>1, <1>2, TypesHold, PTL DEF Spec

(***************************************************************************)
(* Ended runs.  Every command looks at the run's status, or at a token     *)
(* state that coherence ties to it, before it writes a row.                *)
(***************************************************************************)
Ended(r) == run[r].status \in TerminalRunStatuses

\* The step leaves the rows of r alone.
Untouched(r) ==
  /\ token'[r] = token[r] /\ run'[r] = run[r] /\ trace'[r] = trace[r]
  /\ wait'[r] = wait[r] /\ item'[r] = item[r]

\* A run that can be claimed or waits has not ended.
LEMMA StatusesAreDisjoint ==
  \A s \in ClaimableRunStatuses \cup {"waiting"} : s \notin TerminalRunStatuses
BY DEF ClaimableRunStatuses, TerminalRunStatuses

\* A step that writes the rows of one open run only leaves the ended ones alone.
LEMMA OneOpenRunTouched ==
  ASSUME TypeOK, NEW q \in Run, ~Ended(q),
         \E t : token' = [token EXCEPT ![q] = t],
         \E t : run' = [run EXCEPT ![q] = t],
         \E t : trace' = [trace EXCEPT ![q] = t],
         \E t : wait' = [wait EXCEPT ![q] = t],
         \E t : item' = [item EXCEPT ![q] = t]
  PROVE  \A r \in Run : Ended(r) => Untouched(r)
BY DEF TypeOK, Untouched

\* A variable that does not change is one that changes in no row.
LEMMA KeptIsExcept ==
  ASSUME TypeOK, NEW q \in Run
  PROVE  /\ token = [token EXCEPT ![q] = token[q]] /\ run = [run EXCEPT ![q] = run[q]]
         /\ trace = [trace EXCEPT ![q] = trace[q]] /\ wait = [wait EXCEPT ![q] = wait[q]]
         /\ item = [item EXCEPT ![q] = item[q]]
BY DEF TypeOK

\* A worker writes the rows of the run it claims or holds, and that run is open.
LEMMA WorkersLeaveEndedRuns ==
  ASSUME TypeInv, NEW w \in Worker, WorkerStep(w)
  PROVE  \A r \in Run : Ended(r) => Untouched(r)
<1> USE StatusesAreDisjoint DEF TypeInv, obligations
<1> DEFINE q == claim[w].run
<1>1. CASE \E r \in Run : Claim(w, r)
  <2> PICK r \in Run : Claim(w, r)
    BY <1>1
  <2>1. ~Ended(r)
    BY DEF Claim, Candidate, Ended
  <2>2. /\ \E t : token' = [token EXCEPT ![r] = t]
        /\ \E t : run' = [run EXCEPT ![r] = t]
        /\ trace' = trace /\ wait' = wait /\ item' = item
    BY DEF Claim
  <2> QED
    BY <2>1, <2>2, KeptIsExcept, OneOpenRunTouched
<1>2. CASE \/ RequestChart(w) \/ RequestMessage(w) \/ LookForSignal(w)
           \/ FinalizeStale(w) \/ Abandon(w)
  BY <1>2 DEF RequestChart, RequestMessage, LookForSignal, FinalizeStale, Abandon, Untouched
<1>3. ASSUME \/ FinalizeTerminal(w) \/ FinalizeAdvance(w) \/ FinalizeWorkItem(w)
             \/ FinalizeApproval(w) \/ FinalizeSignalWait(w) \/ FinalizeFailure(w)
      PROVE  q \in Run /\ ~Ended(q)
  <2>1. claim[w] # NoClaim /\ run[q].status \in ClaimableRunStatuses
    BY <1>3 DEF FinalizeTerminal, FinalizeAdvance, FinalizeWorkItem, FinalizeApproval,
                FinalizeSignalWait, OpensWait, FinalizeFailure, CanFinalize,
                ClaimableRunStatuses
  <2> QED
    BY <2>1, HeldClaim DEF Ended
<1>4. CASE FinalizeTerminal(w) \/ FinalizeAdvance(w) \/ FinalizeFailure(w)
  <2>1. /\ \E t : token' = [token EXCEPT ![q] = t]
        /\ \E t : run' = [run EXCEPT ![q] = t]
        /\ \E t : trace' = [trace EXCEPT ![q] = t]
        /\ wait' = wait /\ item' = item
    BY <1>4 DEF FinalizeTerminal, FinalizeAdvance, FinalizeFailure
  <2> QED
    BY <1>3, <1>4, <2>1, KeptIsExcept, OneOpenRunTouched
<1>5. CASE FinalizeWorkItem(w) \/ FinalizeApproval(w)
  <2>1. /\ \E t : token' = [token EXCEPT ![q] = t]
        /\ \E t : run' = [run EXCEPT ![q] = t]
        /\ \E t : trace' = [trace EXCEPT ![q] = t]
        /\ wait' = wait
        /\ item' = item \/ \E t : item' = [item EXCEPT ![q] = t]
    BY <1>5 DEF FinalizeWorkItem, FinalizeApproval, ParksToken
  <2>2. /\ \E t : item' = [item EXCEPT ![q] = t]
        /\ \E t : wait' = [wait EXCEPT ![q] = t]
    BY <1>3, <1>5, <2>1, KeptIsExcept
  <2> QED
    BY <1>3, <1>5, <2>1, <2>2, OneOpenRunTouched
<1>6. CASE FinalizeSignalWait(w)
  <2>1. /\ \E t : token' = [token EXCEPT ![q] = t]
        /\ \E t : run' = [run EXCEPT ![q] = t]
        /\ \E t : trace' = [trace EXCEPT ![q] = t]
        /\ \E t : wait' = [wait EXCEPT ![q] = t]
        /\ item' = item
    BY <1>6 DEF FinalizeSignalWait, ParksToken
  <2> QED
    BY <1>3, <1>6, <2>1, KeptIsExcept, OneOpenRunTouched
<1> QED
  BY <1>1, <1>2, <1>4, <1>5, <1>6 DEF WorkerStep

\* The set of runs a cancellation takes is the only one it touches.
LEMMA CancelsOnlyItsRuns ==
  ASSUME NEW runs, CancelsRuns(runs), NEW r \in Run, r \notin runs
  PROVE  Untouched(r)
BY DEF CancelsRuns, Untouched

\* Recovery, quarantine and time act on claimable and claimed runs, the owner
\* cancels open ones.
LEMMA TokenStepsLeaveEndedRuns ==
  ASSUME TypeInv, RunTokenCoherent, NEW q \in Run, TokenStep(q)
  PROVE  \A r \in Run : Ended(r) => Untouched(r)
<1> USE StatusesAreDisjoint DEF TypeInv, obligations
<1>1. CASE QuarantinePoisonCandidate(q) \/ RecoverExpired(q) \/ QuarantineExpiredClaim(q)
  <2>1. ~Ended(q)
    BY <1>1 DEF QuarantinePoisonCandidate, RecoverExpired, QuarantineExpiredClaim, Candidate,
                Expired, Ended
  <2>2. /\ \E t : token' = [token EXCEPT ![q] = t]
        /\ \E t : run' = [run EXCEPT ![q] = t]
        /\ \E t : trace' = [trace EXCEPT ![q] = t]
        /\ wait' = wait /\ item' = item
    BY <1>1 DEF QuarantinePoisonCandidate, RecoverExpired, QuarantineExpiredClaim
  <2> QED
    BY <2>1, <2>2, KeptIsExcept, OneOpenRunTouched
<1>2. CASE LeaseElapses(q) \/ ClockStepsBack(q)
  <2>1. token[q].state = "claimed"
    BY <1>2 DEF LeaseElapses, ClockStepsBack
  <2>2. run[q].status = "running"
    BY <2>1 DEF RunTokenCoherent, StatusOf, WaitingTokenStates
  <2>3. ~Ended(q)
    BY <2>2 DEF Ended, TerminalRunStatuses
  <2>4. /\ \E t : token' = [token EXCEPT ![q] = t]
        /\ run' = run /\ trace' = trace /\ wait' = wait /\ item' = item
    BY <1>2 DEF LeaseElapses, ClockStepsBack
  <2> QED
    BY <2>3, <2>4, KeptIsExcept, OneOpenRunTouched
<1>3. CASE CancelRun(q)
  BY <1>3, CancelsOnlyItsRuns DEF CancelRun, Ended
<1>4. CASE CommitSignal(q) \/ RollbackSignal(q)
  BY <1>4 DEF CommitSignal, RollbackSignal, Untouched
<1> QED
  BY <1>1, <1>2, <1>3, <1>4 DEF TokenStep

\* Signals, commands and sweeps move a run only while it waits.
LEMMA ObligationStepsLeaveEndedRuns ==
  ASSUME TypeInv, NEW q \in Run, NEW a \in Act, ObligationStep(q, a)
  PROVE  \A r \in Run : Ended(r) => Untouched(r)
<1> USE StatusesAreDisjoint DEF TypeInv
<1>1. CASE JobEnds(q, a) \/ SnoozeApproval(q, a) \/ DeadlinePasses(q, a)
  BY <1>1 DEF JobEnds, SnoozeApproval, DeadlinePasses, Untouched, obligations
<1>2. CASE \E g \in DOMAIN job[q][a] : IngestSignal(q, a, g)
  <2>1. CASE UNCHANGED <<token, run, trace, wait>>
    BY <1>2, <2>1 DEF IngestSignal, Untouched
  <2>2. CASE ~UNCHANGED <<token, run, trace, wait>>
    <3>1. /\ run[q].status = "waiting" /\ item' = item
          /\ \E t : token' = [token EXCEPT ![q] = t]
          /\ \E t : run' = [run EXCEPT ![q] = t]
          /\ \E t : trace' = [trace EXCEPT ![q] = t]
          /\ \E t : wait' = [wait EXCEPT ![q] = t]
      BY <1>2, <2>2 DEF IngestSignal
    <3> QED
      BY <3>1, KeptIsExcept, OneOpenRunTouched DEF Ended
  <2> QED
    BY <2>1, <2>2
<1>3. CASE WorkItemCommand(q, a) \/ CompleteWorkItem(q, a) \/ WakeWorkItem(q, a)
  <2>1. /\ run[q].status = "waiting" /\ wait' = wait
        /\ token' = token \/ \E t : token' = [token EXCEPT ![q] = t]
        /\ run' = run \/ \E t : run' = [run EXCEPT ![q] = t]
        /\ trace' = trace \/ \E t : trace' = [trace EXCEPT ![q] = t]
        /\ \E t : item' = [item EXCEPT ![q] = t]
    BY <1>3 DEF WorkItemCommand, CompleteWorkItem, WakeWorkItem, ItemRuntimeCoherent, ItemBecomes
  <2>2. \E t : token' = [token EXCEPT ![q] = t]
    BY <2>1, KeptIsExcept
  <2>3. \E t : run' = [run EXCEPT ![q] = t]
    BY <2>1, KeptIsExcept
  <2>4. \E t : trace' = [trace EXCEPT ![q] = t]
    BY <2>1, KeptIsExcept
  <2>5. \E t : wait' = [wait EXCEPT ![q] = t]
    BY <2>1, KeptIsExcept
  <2> QED
    BY <2>1, <2>2, <2>3, <2>4, <2>5, OneOpenRunTouched DEF Ended
<1>4. CASE DecideApproval(q, a) \/ ExpireApproval(q, a) \/ WakeApproval(q, a)
  <2>1. /\ run[q].status = "waiting" /\ wait' = wait /\ item' = item
        /\ token' = token \/ \E t : token' = [token EXCEPT ![q] = t]
        /\ run' = run \/ \E t : run' = [run EXCEPT ![q] = t]
        /\ \E t : trace' = [trace EXCEPT ![q] = t]
    BY <1>4 DEF DecideApproval, ExpireApproval, WakeApproval, AdvancesApproval,
                ApprovalRuntimeCoherent
  <2>2. \E t : token' = [token EXCEPT ![q] = t]
    BY <2>1, KeptIsExcept
  <2>3. \E t : run' = [run EXCEPT ![q] = t]
    BY <2>1, KeptIsExcept
  <2>4. /\ \E t : wait' = [wait EXCEPT ![q] = t]
        /\ \E t : item' = [item EXCEPT ![q] = t]
    BY <2>1, KeptIsExcept
  <2> QED
    BY <2>1, <2>2, <2>3, <2>4, OneOpenRunTouched DEF Ended
<1> QED
  BY <1>1, <1>2, <1>3, <1>4 DEF ObligationStep

\* No step of the system touches the rows of an ended run.
LEMMA StepsLeaveEndedRuns ==
  ASSUME TypeInv, RunTokenCoherent, [Next]_vars
  PROVE  \A r \in Run : Ended(r) => Untouched(r)
<1>1. CASE BookingCancel
  BY <1>1, CancelsOnlyItsRuns DEF BookingCancel, OpenBookingRuns, Ended
<1>2. CASE BookingReschedule
  BY <1>2 DEF BookingReschedule, OpenBookingRuns, Ended, Untouched
<1>3. CASE UNCHANGED vars
  BY <1>3 DEF vars, Untouched
<1> QED
  BY <1>1, <1>2, <1>3, WorkersLeaveEndedRuns, TokenStepsLeaveEndedRuns,
     ObligationStepsLeaveEndedRuns DEF Next

\* EndedRunsStayEnded: once a run has ended, no late signal, decision, sweep,
\* recovery or cancellation writes its rows again.
THEOREM EndedRunsAreFinal == Spec => EndedRunsStayEnded
<1>1. TypeInv /\ RunTokenCoherent /\ [Next]_vars =>
        [\A r \in Run : run[r].status \in TerminalRunStatuses =>
           /\ token'[r] = token[r] /\ run'[r] = run[r] /\ trace'[r] = trace[r]
           /\ wait'[r] = wait[r] /\ item'[r] = item[r]]_vars
  BY StepsLeaveEndedRuns DEF Ended, Untouched
<1> QED
  BY <1>1, TypesHold, RowsStayCoherent, PTL DEF Spec, EndedRunsStayEnded

\* CanceledBookingHasNoLiveRun: the cancellation of a booking ends every run the
\* booking has enrolled, however many there are and whatever they are doing, and
\* none of them comes back.
THEOREM CanceledBookingsEndTheirRuns == Spec => []CanceledBookingHasNoLiveRun
<1>1. Init => CanceledBookingHasNoLiveRun
  BY DEF Init, CanceledBookingHasNoLiveRun
<1>2. TypeInv /\ RunTokenCoherent /\ CanceledBookingHasNoLiveRun /\ [Next]_vars
        => CanceledBookingHasNoLiveRun'
  <2> SUFFICES ASSUME TypeInv, RunTokenCoherent, CanceledBookingHasNoLiveRun, [Next]_vars
               PROVE  CanceledBookingHasNoLiveRun'
    OBVIOUS
  <2>0. \A r \in Run : Ended(r) => Untouched(r)
    BY StepsLeaveEndedRuns
  <2>1. CASE BookingCancel
    <3>1. ASSUME NEW r \in OpenBookingRuns PROVE run'[r].status \in TerminalRunStatuses
      <4>1. r \in Run /\ run[r] \in RunRows
        BY GraphAssumption DEF OpenBookingRuns, TypeInv, TypeOK
      <4>2. run'[r] = [run[r] EXCEPT !.status = "canceled"]
        BY <2>1, <4>1 DEF BookingCancel, CancelsRuns
      <4> QED
        BY <4>1, <4>2 DEF RunRows, TerminalRunStatuses
    <3> QED
      BY <2>0, <3>1, GraphAssumption
      DEF CanceledBookingHasNoLiveRun, OpenBookingRuns, Ended, Untouched
  <2>2. CASE BookingReschedule
    BY <2>2 DEF BookingReschedule, BookingMoves, CanceledBookingHasNoLiveRun
  <2>3. CASE booking' = booking
    BY <2>0, <2>3, GraphAssumption DEF CanceledBookingHasNoLiveRun, Ended, Untouched
  <2>4. booking' = booking \/ BookingCancel \/ BookingReschedule
    <3>1. ASSUME NEW w \in Worker, WorkerStep(w) PROVE booking' = booking
      BY <3>1 DEF WorkerStep, Claim, RequestChart, RequestMessage, FinalizeTerminal,
                  FinalizeAdvance, FinalizeWorkItem, FinalizeApproval, LookForSignal,
                  FinalizeSignalWait, FinalizeFailure, FinalizeStale, Abandon
    <3>2. ASSUME NEW r \in Run, TokenStep(r) PROVE booking' = booking
      BY <3>2 DEF TokenStep, QuarantinePoisonCandidate, LeaseElapses, ClockStepsBack,
                  RecoverExpired, QuarantineExpiredClaim, CommitSignal, RollbackSignal, CancelRun
    <3>3. ASSUME NEW r \in Run, NEW a \in Act, ObligationStep(r, a) PROVE booking' = booking
      BY <3>3 DEF ObligationStep, JobEnds, IngestSignal, WorkItemCommand, CompleteWorkItem,
                  WakeWorkItem, SnoozeApproval, DecideApproval, DeadlinePasses, ExpireApproval,
                  WakeApproval, AdvancesApproval
    <3> QED
      BY <3>1, <3>2, <3>3 DEF Next, vars
  <2> QED
    BY <2>1, <2>2, <2>3, <2>4
<1> QED
  BY <1>1, <1>2, TypesHold, RowsStayCoherent, PTL DEF Spec

(***************************************************************************)
(* The rows of one run.  Every step treats each run in one of a few ways;  *)
(* what the budget, the trace and the contract promise follows from them.  *)
(***************************************************************************)
\* The run row after the step is that of an ended run.
EndsNow(r) == run'[r].status \in TerminalRunStatuses

\* Nothing happens to the run that its trace would show.
Stays(r) ==
  /\ token'[r] = token[r] /\ trace'[r] = trace[r]
  /\ EndsNow(r) <=> Ended(r)

\* A worker is granted the token.
Granted(r) ==
  /\ token[r].state \in ClaimableTokenStates /\ SoundCandidate(token[r])
  /\ \E w \in Worker : token'[r] = Claimed(token[r], w)
  /\ trace'[r] = trace[r] /\ ~Ended(r) /\ ~EndsNow(r)

\* Time passes for a live lease.
Ticks(r) ==
  /\ token[r].state = "claimed" /\ token[r].lease = "live"
  /\ \E lease \in Leases : token'[r] = [token[r] EXCEPT !.lease = lease]
  /\ trace'[r] = trace[r]
  /\ EndsNow(r) <=> Ended(r)

\* The events that neither leave an activation nor end a run.
Marks == EventTypes \ (Departures \cup Endings)

\* An event is noted, the token stays where it is.
Noted(r) ==
  /\ token'[r] = token[r]
  /\ \E type \in Marks : trace'[r] = Append(trace[r], PlainEvent(type, token[r]))
  /\ ~Ended(r) /\ ~EndsNow(r)

\* The attempt is settled, and the token waits or is to be tried again.
Settled(r) ==
  /\ token[r].state = "claimed"
  /\ \E state \in WaitingTokenStates \cup {"retry_scheduled"}, step \in {0, 1} :
       /\ token'[r] = Released(token[r], state, step)
       /\ state = "retry_scheduled" => token[r].attempt < MaxAttempts
  /\ \E type \in Marks : trace'[r] = Append(trace[r], AttemptEvent(type, token[r]))
  /\ ~Ended(r) /\ ~EndsNow(r)

\* The trace that a step reaches, before the event that moves or ends the run:
\* a wait that is opened and consumed at once leaves an event of its own.
Before(r) == {trace[r]} \cup
             {Append(trace[r], AttemptEvent(type, token[r])) : type \in Marks}

\* The token leaves its activation, from a claim or from a wait.
Departed(r) ==
  /\ token[r].state \in WaitingTokenStates \cup {"claimed"}
  /\ token[r].act < MaxActivation
  /\ \E h : token'[r] = Advanced(token[r], h)
  /\ \E type \in Departures :
       \/ trace'[r] = Append(trace[r], PlainEvent(type, token[r]))
       \/ /\ token[r].state = "claimed"
          /\ \/ trace'[r] = Append(trace[r], AttemptEvent(type, token[r]))
             \/ \E s \in Before(r) : trace'[r] = Append(s, PlainEvent(type, token[r]))
  /\ ~Ended(r) /\ ~EndsNow(r)

\* The run ends; only a worker completes it.
Closed(r) ==
  /\ token[r].state \notin TerminalTokenStates
  /\ \E state \in TerminalTokenStates, step \in {0, 1} :
       /\ token'[r] = Released(token[r], state, step)
       /\ state = "completed" => token[r].state = "claimed"
  /\ \E type \in Endings :
       \/ trace'[r] = Append(trace[r], PlainEvent(type, token[r]))
       \/ /\ token[r].state = "claimed"
          /\ \/ trace'[r] = Append(trace[r], AttemptEvent(type, token[r]))
             \/ \E s \in Before(r) : trace'[r] = Append(s, PlainEvent(type, token[r]))
  /\ ~Ended(r) /\ EndsNow(r)

RunStep(r) ==
  \/ Stays(r) \/ Granted(r) \/ Ticks(r) \/ Noted(r) \/ Settled(r) \/ Departed(r) \/ Closed(r)

\* The other runs are not touched by a step on the rows of run r.
LEMMA OthersStay ==
  ASSUME TypeOK, NEW r \in Run,
         \E t : token' = [token EXCEPT ![r] = t],
         \E t : run' = [run EXCEPT ![r] = t],
         \E t : trace' = [trace EXCEPT ![r] = t]
  PROVE  \A q \in Run \ {r} : Stays(q)
BY DEF TypeOK, Stays, Ended, EndsNow

\* A signal that meets its wait moves the run on or ends it.
LEMMA SignaledMoves ==
  ASSUME TypeOK, NEW r \in Run, NEW outcome, NEW s,
         token[r].state \in WaitingTokenStates \/ token[r].state = "claimed",
         token[r].state = "claimed" => s \in Before(r),
         token[r].state # "claimed" => s = trace[r],
         CanAdvance(r), ~Ended(r),
         token'[r] = SignaledToken(token[r], outcome),
         run'[r] = SignaledRun(token[r], outcome),
         trace'[r] = Append(s, SignaledEvent(token[r], outcome))
  PROVE  Departed(r) \/ Closed(r)
<1>1. CASE Ends(token[r].node, outcome)
  <2>1. EndsNow(r)
    BY <1>1 DEF SignaledRun, EndsNow, TerminalRunStatuses
  <2>2. token'[r] = Released(token[r], "failed", 0)
    BY <1>1 DEF SignaledToken
  <2>3. trace'[r] = Append(s, PlainEvent("run_failed", token[r]))
    BY <1>1 DEF SignaledEvent
  <2> QED
    BY <2>1, <2>2, <2>3 DEF Closed, TerminalTokenStates, WaitingTokenStates, Endings
<1>2. CASE ~Ends(token[r].node, outcome)
  <2>1. ~EndsNow(r)
    BY <1>2 DEF SignaledRun, EndsNow, TerminalRunStatuses
  <2>2. \E h : token'[r] = Advanced(token[r], h)
    BY <1>2 DEF SignaledToken
  <2>3. trace'[r] = Append(s, PlainEvent("token_signaled", token[r]))
    BY <1>2 DEF SignaledEvent
  <2> QED
    BY <2>1, <2>2, <2>3 DEF Departed, CanAdvance, Departures
<1> QED
  BY <1>1, <1>2

\* The marks the transactions write.
LEMMA MarksAre ==
  {"run_enrolled", "token_waiting", "token_retry_scheduled", "token_lease_expired",
   "work_item_available", "approval_available", "booking_rescheduled"} \subseteq Marks
BY DEF Marks, EventTypes, Departures, Endings

\* A worker that finalizes holds the claimed token of an open run.
LEMMA FinalizerHolds ==
  ASSUME TypeOK, NEW w \in Worker,
         \/ FinalizeTerminal(w) \/ FinalizeAdvance(w) \/ FinalizeWorkItem(w)
         \/ FinalizeApproval(w) \/ FinalizeSignalWait(w) \/ FinalizeFailure(w)
  PROVE  /\ claim[w] # NoClaim /\ claim[w].run \in Run /\ HoldsToken(w)
         /\ token[claim[w].run].state = "claimed"
         /\ token[claim[w].run].node = claim[w].node /\ token[claim[w].run].act = claim[w].act
         /\ run[claim[w].run].status \in ClaimableRunStatuses /\ ~Ended(claim[w].run)
<1>1. claim[w] # NoClaim /\ HoldsToken(w) /\ run[claim[w].run].status \in ClaimableRunStatuses
  BY DEF FinalizeTerminal, FinalizeAdvance, FinalizeWorkItem, FinalizeApproval,
         FinalizeSignalWait, OpensWait, FinalizeFailure, CanFinalize, ClaimableRunStatuses
<1> QED
  BY <1>1, HeldClaim, StatusesAreDisjoint DEF HoldsToken, Ended

\* What a worker's step does to the runs.
LEMMA WorkerSteps ==
  ASSUME TypeInv, NEW w \in Worker, WorkerStep(w)
  PROVE  \A q \in Run : RunStep(q)
<1> DEFINE c == claim[w]
           r == c.run
<1> USE DEF TypeInv
<1>1. CASE \E q \in Run : Claim(w, q)
  <2> PICK q \in Run : Claim(w, q)
    BY <1>1
  <2>1. /\ token' = [token EXCEPT ![q] = Claimed(token[q], w)]
        /\ run' = [run EXCEPT ![q] = [status |-> "running", node |-> token[q].node]]
        /\ trace' = trace /\ Candidate(q) /\ SoundCandidate(token[q])
    BY DEF Claim
  <2>2. ~Ended(q) /\ ~EndsNow(q)
    BY <2>1, StatusesAreDisjoint DEF Candidate, Ended, EndsNow, TypeOK, TerminalRunStatuses
  <2>3. Granted(q)
    BY <2>1, <2>2 DEF Granted, Candidate, TypeOK
  <2>4. \A p \in Run \ {q} : Stays(p)
    BY <2>1, KeptIsExcept, OthersStay
  <2> QED
    BY <2>3, <2>4 DEF RunStep
<1>2. CASE \/ RequestChart(w) \/ RequestMessage(w) \/ LookForSignal(w)
           \/ FinalizeStale(w) \/ Abandon(w)
  <2>1. token' = token /\ run' = run /\ trace' = trace
    BY <1>2 DEF RequestChart, RequestMessage, LookForSignal, FinalizeStale, Abandon
  <2> QED
    BY <2>1 DEF RunStep, Stays, Ended, EndsNow
<1>3. ASSUME NEW t, NEW q, NEW s,
             token' = [token EXCEPT ![r] = t], run' = [run EXCEPT ![r] = q],
             trace' = [trace EXCEPT ![r] = s], r \in Run,
             Settled(r) \/ Departed(r) \/ Closed(r)
      PROVE  \A p \in Run : RunStep(p)
  BY <1>3, OthersStay DEF RunStep
<1>4. ASSUME NEW state \in WaitingTokenStates, r \in Run, ParksToken(r, state), ~Ended(r),
             token[r].state = "claimed"
      PROVE  \A p \in Run : RunStep(p)
  <2>1. ~EndsNow(r)
    BY <1>4 DEF ParksToken, EndsNow, TypeOK, TerminalRunStatuses
  <2>2. Settled(r)
    BY <1>4, <2>1, MarksAre DEF Settled, ParksToken, TypeOK, WaitingTokenStates
  <2> QED
    BY <1>3, <1>4, <2>2 DEF ParksToken
<1>5. CASE FinalizeTerminal(w)
  <2>1. r \in Run /\ ~Ended(r) /\ token[r].state = "claimed"
    BY <1>5, FinalizerHolds
  <2>2. /\ token' = [token EXCEPT ![r] = Released(token[r], "completed", 0)]
        /\ run' = [run EXCEPT ![r] = [status |-> "completed", node |-> token[r].node]]
        /\ trace' = [trace EXCEPT ![r] = Append(trace[r], AttemptEvent("run_completed", token[r]))]
    BY <1>5 DEF FinalizeTerminal
  <2>3. EndsNow(r)
    BY <2>1, <2>2 DEF EndsNow, TypeOK, TerminalRunStatuses
  <2>4. Closed(r)
    BY <2>1, <2>2, <2>3 DEF Closed, TypeOK, TerminalTokenStates, Endings
  <2> QED
    BY <1>3, <2>1, <2>2, <2>4
<1>6. CASE FinalizeAdvance(w)
  <2>1. r \in Run /\ ~Ended(r) /\ token[r].state = "claimed" /\ CanAdvance(r)
    BY <1>6, FinalizerHolds DEF FinalizeAdvance
  <2>2. PICK h : /\ token' = [token EXCEPT ![r] = Advanced(token[r], h)]
                 /\ run' = [run EXCEPT ![r] = [status |-> "running", node |-> Target[c.node][h]]]
    BY <1>6 DEF FinalizeAdvance
  <2>3. trace' = [trace EXCEPT ![r] = Append(trace[r], AttemptEvent("token_advanced", token[r]))]
    BY <1>6 DEF FinalizeAdvance
  <2>4. ~EndsNow(r)
    BY <2>1, <2>2 DEF EndsNow, TypeOK, TerminalRunStatuses
  <2>5. Departed(r)
    BY <2>1, <2>2, <2>3, <2>4 DEF Departed, TypeOK, CanAdvance, Departures
  <2> QED
    BY <1>3, <2>1, <2>2, <2>3, <2>5
<1>7. CASE FinalizeWorkItem(w) \/ FinalizeApproval(w)
  BY <1>4, <1>7, FinalizerHolds DEF FinalizeWorkItem, FinalizeApproval, WaitingTokenStates
<1>8. CASE FinalizeSignalWait(w)
  <2>1. r \in Run /\ ~Ended(r) /\ token[r].state = "claimed"
    BY <1>8, FinalizerHolds
  <2>2. CASE ParksToken(r, IF Kind[token[r].node] = "chart" THEN "waiting_signal"
                                                          ELSE "waiting_external")
    BY <1>4, <2>1, <2>2 DEF WaitingTokenStates
  <2>3. CASE \E outcome :
               /\ CanAdvance(r)
               /\ token' = [token EXCEPT ![r] = SignaledToken(token[r], outcome)]
               /\ run' = [run EXCEPT ![r] = SignaledRun(token[r], outcome)]
               /\ trace' = [trace EXCEPT ![r] =
                    @ \o <<AttemptEvent("token_waiting", token[r]), SignaledEvent(token[r], outcome)>>]
    <3> PICK outcome :
               /\ CanAdvance(r)
               /\ token' = [token EXCEPT ![r] = SignaledToken(token[r], outcome)]
               /\ run' = [run EXCEPT ![r] = SignaledRun(token[r], outcome)]
               /\ trace' = [trace EXCEPT ![r] =
                    @ \o <<AttemptEvent("token_waiting", token[r]), SignaledEvent(token[r], outcome)>>]
      BY <2>3
    <3> DEFINE s == Append(trace[r], AttemptEvent("token_waiting", token[r]))
    <3>1. trace[r] \in Seq(Events)
      BY <2>1 DEF TypeOK
    <3>2. \A x, d, e : x \in Seq(Events) => x \o <<d, e>> = Append(Append(x, d), e)
      OBVIOUS
    <3>3. trace'[r] = Append(s, SignaledEvent(token[r], outcome))
      BY <2>1, <3>1, <3>2 DEF TypeOK
    <3>4. s \in Before(r)
      BY MarksAre DEF Before
    <3>5. token'[r] = SignaledToken(token[r], outcome) /\ run'[r] = SignaledRun(token[r], outcome)
      BY <2>1 DEF TypeOK
    <3>6. Departed(r) \/ Closed(r)
      <4> HIDE DEF s
      <4> QED
        BY <2>1, <3>3, <3>4, <3>5, SignaledMoves
    <3> QED
      BY <1>3, <2>1, <3>6
  <2> QED
    BY <1>8, <2>2, <2>3 DEF FinalizeSignalWait
<1>9. CASE FinalizeFailure(w)
  <2>1. r \in Run /\ ~Ended(r) /\ token[r].state = "claimed" /\ token[r] \in Tokens
    BY <1>9, FinalizerHolds DEF TypeOK
  <2>2. PICK class \in FailureClasses :
          LET retry == Retries(class, token[r].attempt) IN
          /\ token' = [token EXCEPT ![r] =
                         Released(@, IF retry THEN "retry_scheduled" ELSE "failed", 0)]
          /\ run' = [run EXCEPT ![r] =
                       [status |-> IF retry THEN "failed_retryable" ELSE "failed_terminal",
                        node |-> token[r].node]]
          /\ trace' = [trace EXCEPT ![r] = Append(@, AttemptEvent(
                         IF retry THEN "token_retry_scheduled" ELSE "run_failed", token[r]))]
    BY <1>9 DEF FinalizeFailure
  <2>3. CASE Retries(class, token[r].attempt)
    <3>1. token[r].attempt < MaxAttempts
      BY <2>1, <2>3, BoundAssumption DEF Retries, UnexpectedAttempts, Tokens
    <3>2. ~EndsNow(r)
      BY <2>1, <2>2, <2>3 DEF EndsNow, TypeOK, TerminalRunStatuses
    <3>3. Settled(r)
      BY <2>1, <2>2, <2>3, <3>1, <3>2, MarksAre DEF Settled, TypeOK
    <3> QED
      BY <1>3, <2>1, <2>2, <3>3
  <2>4. CASE ~Retries(class, token[r].attempt)
    <3>1. EndsNow(r)
      BY <2>1, <2>2, <2>4 DEF EndsNow, TypeOK, TerminalRunStatuses
    <3>2. Closed(r)
      BY <2>1, <2>2, <2>4, <3>1 DEF Closed, TypeOK, TerminalTokenStates, Endings
    <3> QED
      BY <1>3, <2>1, <2>2, <3>2
  <2> QED
    BY <2>3, <2>4
<1> QED
  BY <1>1, <1>2, <1>5, <1>6, <1>7, <1>8, <1>9 DEF WorkerStep

\* A run is cancelled under a new fence, and its trace says so.
LEMMA CanceledIsClosed ==
  ASSUME TypeInv, RunTokenCoherent, NEW runs, CancelsRuns(runs),
         NEW r \in Run, r \in runs => ~Ended(r)
  PROVE  Stays(r) \/ Closed(r)
<1> USE DEF TypeInv
<1>1. CASE r \notin runs
  BY <1>1 DEF CancelsRuns, Stays, Ended, EndsNow
<1>2. CASE r \in runs
  <2>1. token'[r] = Released(token[r], "canceled", 1) /\ trace'[r] = CanceledTrace(r)
    BY <1>2 DEF CancelsRuns
  <2>2. run'[r] = [run[r] EXCEPT !.status = "canceled"] /\ run[r] \in RunRows
    BY <1>2 DEF CancelsRuns, TypeOK
  <2>3. EndsNow(r)
    BY <2>2 DEF EndsNow, RunRows, TerminalRunStatuses
  <2>4. token[r].state \notin TerminalTokenStates
    BY <1>2 DEF RunTokenCoherent, StatusOf, Ended, TerminalTokenStates, TerminalRunStatuses,
                WaitingTokenStates
  <2> QED
    BY <1>2, <2>1, <2>3, <2>4 DEF Closed, CanceledTrace, TerminalTokenStates, Endings
<1> QED
  BY <1>1, <1>2

\* What recovery, quarantine, time and the owner do to the runs.
LEMMA TokenSteps ==
  ASSUME TypeInv, RunTokenCoherent, NEW r \in Run, TokenStep(r)
  PROVE  \A q \in Run : RunStep(q)
<1> USE DEF TypeInv
<1>1. ASSUME Ticks(r) \/ Settled(r) \/ Closed(r),
             NEW t, NEW q, NEW s,
             token' = [token EXCEPT ![r] = t], run' = [run EXCEPT ![r] = q],
             trace' = [trace EXCEPT ![r] = s]
      PROVE  \A p \in Run : RunStep(p)
  BY <1>1, OthersStay DEF RunStep
<1>2. CASE QuarantinePoisonCandidate(r)
  <2>1. ~Ended(r) /\ token[r].state \in ClaimableTokenStates
    BY <1>2, StatusesAreDisjoint DEF QuarantinePoisonCandidate, Candidate, Ended
  <2>2. /\ token' = [token EXCEPT ![r] = Released(token[r], "failed", 0)]
        /\ run' = [run EXCEPT ![r] = [status |-> "failed_terminal", node |-> token[r].node]]
        /\ trace' = [trace EXCEPT ![r] = Append(trace[r], PlainEvent("run_failed", token[r]))]
    BY <1>2 DEF QuarantinePoisonCandidate
  <2>3. Closed(r)
    BY <2>1, <2>2
    DEF Closed, EndsNow, TypeOK, TerminalTokenStates, TerminalRunStatuses, Endings,
        ClaimableTokenStates
  <2> QED
    BY <1>1, <2>2, <2>3
<1>3. CASE QuarantineExpiredClaim(r)
  <2>1. ~Ended(r) /\ token[r].state = "claimed"
    BY <1>3, StatusesAreDisjoint DEF QuarantineExpiredClaim, Expired, Ended
  <2>2. /\ token' = [token EXCEPT ![r] = Released(token[r], "failed", 1)]
        /\ run' = [run EXCEPT ![r] = [status |-> "failed_terminal", node |-> token[r].node]]
        /\ trace' = [trace EXCEPT ![r] = Append(trace[r], PlainEvent("run_failed", token[r]))]
    BY <1>3 DEF QuarantineExpiredClaim
  <2>3. Closed(r)
    BY <2>1, <2>2
    DEF Closed, EndsNow, TypeOK, TerminalTokenStates, TerminalRunStatuses, Endings
  <2> QED
    BY <1>1, <2>2, <2>3
<1>4. CASE RecoverExpired(r)
  <2>1. ~Ended(r) /\ token[r].state = "claimed" /\ run[r] \in RunRows
    BY <1>4, StatusesAreDisjoint DEF RecoverExpired, Expired, Ended, TypeOK
  <2>2. CASE token[r].attempt < MaxAttempts
    <3>1. /\ token' = [token EXCEPT ![r] = Released(token[r], "retry_scheduled", 1)]
          /\ run' = [run EXCEPT ![r] = [run[r] EXCEPT !.status = "failed_retryable"]]
          /\ trace' = [trace EXCEPT ![r] =
                         Append(trace[r], AttemptEvent("token_lease_expired", token[r]))]
      BY <1>4, <2>2 DEF RecoverExpired
    <3>2. Settled(r)
      BY <2>1, <2>2, <3>1, MarksAre
      DEF Settled, EndsNow, TypeOK, RunRows, TerminalRunStatuses
    <3> QED
      BY <1>1, <3>1, <3>2
  <2>3. CASE ~(token[r].attempt < MaxAttempts)
    <3>1. /\ token' = [token EXCEPT ![r] = Released(token[r], "failed", 1)]
          /\ run' = [run EXCEPT ![r] = [run[r] EXCEPT !.status = "failed_terminal"]]
          /\ trace' = [trace EXCEPT ![r] = Append(trace[r], AttemptEvent("run_failed", token[r]))]
      BY <1>4, <2>3 DEF RecoverExpired
    <3>2. Closed(r)
      BY <2>1, <3>1
      DEF Closed, EndsNow, TypeOK, RunRows, TerminalTokenStates, TerminalRunStatuses, Endings
    <3> QED
      BY <1>1, <3>1, <3>2
  <2> QED
    BY <2>2, <2>3
<1>5. CASE LeaseElapses(r) \/ ClockStepsBack(r)
  <2>1. PICK lease \in {"elapsed", "future"} :
          token' = [token EXCEPT ![r] = [token[r] EXCEPT !.lease = lease]]
    BY <1>5 DEF LeaseElapses, ClockStepsBack
  <2>2. /\ token[r].state = "claimed" /\ token[r].lease = "live"
        /\ run' = run /\ trace' = trace
    BY <1>5 DEF LeaseElapses, ClockStepsBack
  <2>3. Ticks(r)
    BY <2>1, <2>2 DEF Ticks, TypeOK, Leases, Ended, EndsNow
  <2>4. run' = [run EXCEPT ![r] = run[r]] /\ trace' = [trace EXCEPT ![r] = trace[r]]
    BY <2>2, KeptIsExcept
  <2> QED
    BY <1>1, <2>1, <2>3, <2>4
<1>6. CASE CancelRun(r)
  BY <1>6, CanceledIsClosed DEF CancelRun, Ended, RunStep
<1>7. CASE CommitSignal(r) \/ RollbackSignal(r)
  BY <1>7 DEF CommitSignal, RollbackSignal, RunStep, Stays, Ended, EndsNow
<1> QED
  BY <1>2, <1>3, <1>4, <1>5, <1>6, <1>7 DEF TokenStep

\* What signals, commands on work items and approvals, and sweeps do to the runs.
LEMMA ObligationSteps ==
  ASSUME TypeInv, NEW r \in Run, NEW a \in Act, ObligationStep(r, a)
  PROVE  \A q \in Run : RunStep(q)
<1> USE DEF TypeInv
<1>1. ASSUME token' = token, run' = run, trace' = trace
      PROVE  \A p \in Run : RunStep(p)
  BY <1>1 DEF RunStep, Stays, Ended, EndsNow
<1>2. ASSUME Departed(r) \/ Closed(r) \/ Noted(r),
             NEW t, NEW q, NEW s,
             token' = [token EXCEPT ![r] = t], run' = [run EXCEPT ![r] = q],
             trace' = [trace EXCEPT ![r] = s]
      PROVE  \A p \in Run : RunStep(p)
  BY <1>2, OthersStay DEF RunStep
<1>3. ASSUME NEW handle, NEW type \in Departures, CanAdvance(r), run[r].status = "waiting",
             token[r].state \in WaitingTokenStates,
             token' = [token EXCEPT ![r] = Advanced(token[r], handle)],
             run' = [run EXCEPT ![r] = [status |-> "running",
                                        node |-> Target[token[r].node][handle]]],
             trace' = [trace EXCEPT ![r] = Append(trace[r], PlainEvent(type, token[r]))]
      PROVE  \A p \in Run : RunStep(p)
  <2>1. ~Ended(r) /\ ~EndsNow(r)
    BY <1>3 DEF Ended, EndsNow, TerminalRunStatuses, TypeOK
  <2>2. Departed(r)
    BY <1>3, <2>1 DEF Departed, CanAdvance, TypeOK
  <2> QED
    BY <1>2, <1>3, <2>2
<1>4. ASSUME NEW type \in Marks, run[r].status = "waiting", token' = token, run' = run,
             trace' = [trace EXCEPT ![r] = Append(trace[r], PlainEvent(type, token[r]))]
      PROVE  \A p \in Run : RunStep(p)
  <2>1. Noted(r)
    BY <1>4 DEF Noted, Ended, EndsNow, TerminalRunStatuses, TypeOK
  <2>2. token' = [token EXCEPT ![r] = token[r]] /\ run' = [run EXCEPT ![r] = run[r]]
    BY <1>4, KeptIsExcept
  <2> QED
    BY <1>2, <1>4, <2>1, <2>2
<1>5. CASE \E g \in DOMAIN job[r][a] : IngestSignal(r, a, g)
  <2> PICK g \in DOMAIN job[r][a] : IngestSignal(r, a, g)
    BY <1>5
  <2>1. CASE UNCHANGED <<token, run, trace, wait>>
    BY <1>1, <2>1
  <2>2. CASE ~UNCHANGED <<token, run, trace, wait>>
    <3> DEFINE outcome == job[r][a][g]
    <3>1. /\ token[r].state \in {"waiting_signal", "waiting_external"}
          /\ run[r].status = "waiting" /\ CanAdvance(r)
          /\ token' = [token EXCEPT ![r] = SignaledToken(token[r], outcome)]
          /\ run' = [run EXCEPT ![r] = SignaledRun(token[r], outcome)]
          /\ trace' = [trace EXCEPT ![r] = Append(trace[r], SignaledEvent(token[r], outcome))]
      BY <2>2 DEF IngestSignal
    <3> HIDE DEF outcome
    <3>2. ~Ended(r)
      BY <3>1 DEF Ended, TerminalRunStatuses
    <3>3. Departed(r) \/ Closed(r)
      <4>1. /\ token'[r] = SignaledToken(token[r], outcome)
            /\ run'[r] = SignaledRun(token[r], outcome)
            /\ trace'[r] = Append(trace[r], SignaledEvent(token[r], outcome))
        BY <3>1 DEF TypeOK
      <4>2. token[r].state \in WaitingTokenStates /\ token[r].state # "claimed"
        BY <3>1 DEF WaitingTokenStates
      <4> QED
        BY <3>1, <3>2, <4>1, <4>2, SignaledMoves
    <3> QED
      BY <1>2, <3>1, <3>3
  <2> QED
    BY <2>1, <2>2
<1>6. CASE CompleteWorkItem(r, a)
  BY <1>3, <1>6 DEF CompleteWorkItem, ItemRuntimeCoherent, WaitingTokenStates, Departures
<1>7. CASE DecideApproval(r, a)
  BY <1>3, <1>7
  DEF DecideApproval, AdvancesApproval, ApprovalRuntimeCoherent, WaitingTokenStates, Departures
<1>8. CASE ExpireApproval(r, a)
  BY <1>3, <1>8
  DEF ExpireApproval, AdvancesApproval, ApprovalRuntimeCoherent, WaitingTokenStates, Departures
<1>9. CASE WakeWorkItem(r, a)
  BY <1>4, <1>9, MarksAre DEF WakeWorkItem, ItemRuntimeCoherent
<1>10. CASE WakeApproval(r, a)
  BY <1>4, <1>10, MarksAre DEF WakeApproval, ApprovalRuntimeCoherent
<1>11. CASE \/ JobEnds(r, a) \/ WorkItemCommand(r, a) \/ SnoozeApproval(r, a)
            \/ DeadlinePasses(r, a)
  BY <1>1, <1>11 DEF JobEnds, WorkItemCommand, SnoozeApproval, DeadlinePasses
<1> QED
  BY <1>5, <1>6, <1>7, <1>8, <1>9, <1>10, <1>11 DEF ObligationStep

\* Every step of the system treats every run in one of these ways.
LEMMA RunsStep ==
  ASSUME TypeInv, RunTokenCoherent, [Next]_vars
  PROVE  \A r \in Run : RunStep(r)
<1> USE DEF TypeInv
<1>1. CASE BookingCancel
  <2>1. ASSUME NEW r \in Run PROVE Stays(r) \/ Closed(r)
    BY <1>1, CanceledIsClosed DEF BookingCancel, OpenBookingRuns, Ended
  <2> QED
    BY <2>1 DEF RunStep
<1>2. CASE BookingReschedule
  <2> SUFFICES ASSUME NEW r \in Run PROVE RunStep(r)
    OBVIOUS
  <2>1. token' = token /\ run' = run
    BY <1>2 DEF BookingReschedule
  <2>2. CASE r \in OpenBookingRuns
    <3>1. trace'[r] = Append(trace[r], PlainEvent("booking_rescheduled", token[r]))
      BY <1>2, <2>2 DEF BookingReschedule
    <3>2. ~Ended(r) /\ ~EndsNow(r)
      BY <2>1, <2>2 DEF OpenBookingRuns, Ended, EndsNow
    <3> QED
      BY <2>1, <3>1, <3>2, MarksAre DEF RunStep, Noted
  <2>3. CASE r \notin OpenBookingRuns
    <3>1. trace'[r] = trace[r]
      BY <1>2, <2>3 DEF BookingReschedule
    <3> QED
      BY <2>1, <3>1 DEF RunStep, Stays, Ended, EndsNow
  <2> QED
    BY <2>2, <2>3
<1>3. CASE UNCHANGED vars
  BY <1>3 DEF vars, RunStep, Stays, Ended, EndsNow
<1> QED
  BY <1>1, <1>2, <1>3, WorkerSteps, TokenSteps, ObligationSteps DEF Next

(***************************************************************************)
(* The token row stays within its budget.                                  *)
(***************************************************************************)
\* The attempts of a token row fit its state, its fence and the retry policy.
InBudget(t) ==
  /\ t.attempt <= MaxAttempts /\ t.attempt <= t.fence
  /\ t.state = "runnable" => t.attempt = 0
  /\ t.state = "claimed" => t.attempt > 0
  /\ t.state = "retry_scheduled" => t.attempt > 0 /\ t.attempt < MaxAttempts

\* However a run is treated, its token stays within the budget.
LEMMA StepKeepsBudget ==
  ASSUME TypeOK, NEW r \in Run, InBudget(token[r]), RunStep(r)
  PROVE  InBudget(token'[r])
<1> DEFINE t == token[r]
<1>1. /\ t \in Tokens /\ t.attempt \in Nat /\ t.fence \in Nat /\ MaxAttempts \in Nat \ {0}
      /\ t.act \in Nat
  BY BoundAssumption DEF TypeOK, Tokens, Act
<1>2. CASE Stays(r) \/ Noted(r)
  BY <1>2 DEF Stays, Noted
<1>3. CASE Granted(r)
  <2>1. PICK w \in Worker : token'[r] = Claimed(t, w)
    BY <1>3 DEF Granted
  <2>2. /\ Claimed(t, w).state = "claimed" /\ Claimed(t, w).attempt = t.attempt + 1
        /\ Claimed(t, w).fence = t.fence + 1
    BY <1>1 DEF Claimed, Tokens
  <2>3. t.attempt < MaxAttempts /\ t.fence >= t.attempt
    BY <1>3 DEF Granted, SoundCandidate
  <2> HIDE DEF t
  <2> QED
    BY <1>1, <2>1, <2>2, <2>3 DEF InBudget
<1>4. CASE Ticks(r)
  <2>1. /\ token'[r].state = t.state /\ token'[r].attempt = t.attempt
        /\ token'[r].fence = t.fence
    BY <1>1, <1>4 DEF Ticks, Tokens
  <2> QED
    BY <2>1 DEF InBudget
<1>5. ASSUME NEW state, NEW step \in {0, 1}, token'[r] = Released(t, state, step),
             state \notin {"runnable", "claimed"},
             state = "retry_scheduled" => t.state = "claimed" /\ t.attempt < MaxAttempts
      PROVE  InBudget(token'[r])
  <2>1. /\ token'[r].state = state /\ token'[r].attempt = t.attempt
        /\ token'[r].fence = t.fence + step
    BY <1>1, <1>5 DEF Released, Tokens
  <2> HIDE DEF t
  <2>2. t.attempt <= t.fence + step
    BY <1>1 DEF InBudget, t
  <2> QED
    BY <1>1, <1>5, <2>1, <2>2 DEF InBudget, t
<1>6. CASE Settled(r)
  BY <1>5, <1>6 DEF Settled, WaitingTokenStates
<1>7. CASE Closed(r)
  BY <1>5, <1>7 DEF Closed, TerminalTokenStates
<1>8. CASE Departed(r)
  <2>1. token'[r].state = "runnable" /\ token'[r].attempt = 0 /\ token'[r].fence = t.fence
    BY <1>1, <1>8 DEF Departed, Advanced, Tokens
  <2> QED
    BY <1>1, <2>1 DEF InBudget
<1> QED
  BY <1>2, <1>3, <1>4, <1>6, <1>7, <1>8 DEF RunStep

\* RuntimeNeverPoisonsItself: whatever retries, recoveries and late answers a
\* run goes through, its token never exceeds the retry budget and never becomes
\* a row that claim or recovery would have to quarantine.
THEOREM TheRuntimeIsSound == Spec => []RuntimeNeverPoisonsItself
<1> DEFINE Budgets == \A r \in Run : InBudget(token[r])
<1>1. Init => Budgets
  <2> SUFFICES ASSUME Init, NEW r \in Run PROVE InBudget(token[r])
    OBVIOUS
  <2>1. token[r].state = "runnable" /\ token[r].attempt = 0 /\ token[r].fence = 0
    BY DEF Init
  <2> QED
    BY <2>1, BoundAssumption DEF InBudget
<1>2. TypeInv /\ RunTokenCoherent /\ Budgets /\ [Next]_vars => Budgets'
  BY RunsStep, StepKeepsBudget DEF TypeInv
<1>3. TypeInv /\ Budgets => RuntimeNeverPoisonsItself
  <2> SUFFICES ASSUME TypeOK, Budgets, NEW r \in Run
               PROVE  /\ token[r].attempt <= MaxAttempts
                      /\ Candidate(r) => SoundCandidate(token[r])
                      /\ token[r].state = "claimed" =>
                           SoundExpiredClaim([token[r] EXCEPT !.lease = "elapsed"])
    BY DEF TypeInv, RuntimeNeverPoisonsItself
  <2> DEFINE t == token[r]
             u == [t EXCEPT !.lease = "elapsed"]
  <2>1. /\ t \in Tokens /\ t.attempt \in Nat /\ t.fence \in Nat /\ MaxAttempts \in Nat \ {0}
        /\ InBudget(t)
    BY BoundAssumption DEF TypeOK, Tokens
  <2>2. u.attempt = t.attempt /\ u.fence = t.fence /\ u.lease = "elapsed"
    BY <2>1 DEF Tokens
  <2> HIDE DEF t, u
  <2>3. t.state \in ClaimableTokenStates => SoundCandidate(t)
    BY <2>1 DEF InBudget, SoundCandidate, ClaimableTokenStates
  <2>4. t.state = "claimed" => SoundExpiredClaim(u)
    BY <2>1, <2>2 DEF InBudget, SoundExpiredClaim
  <2> QED
    BY <2>1, <2>3, <2>4 DEF Candidate, InBudget, t, u
<1> QED
  BY <1>1, <1>2, <1>3, TypesHold, RowsStayCoherent, PTL DEF Spec

(***************************************************************************)
(* The trace tells when the run ended.                                     *)
(***************************************************************************)
\* Only the last event of s can be an ending, and it is one if the run is over.
EndsWhen(s, over) ==
  \A i \in DOMAIN s : (s[i].type \in Endings) <=> (i = Len(s) /\ over)

\* An event at the end of a trace: it ends the run, or the run goes on.
LEMMA AppendEnds ==
  ASSUME NEW s \in Seq(Events), EndsWhen(s, FALSE), NEW e
  PROVE  EndsWhen(Append(s, e), e.type \in Endings)
<1>1. /\ Len(Append(s, e)) = Len(s) + 1 /\ DOMAIN Append(s, e) = 1 .. Len(s) + 1
      /\ \A i \in 1 .. Len(s) : Append(s, e)[i] = s[i]
      /\ Append(s, e)[Len(s) + 1] = e
  OBVIOUS
<1>2. Len(s) \in Nat /\ DOMAIN s = 1 .. Len(s)
  OBVIOUS
<1> QED
  BY <1>1, <1>2 DEF EndsWhen

\* What the two forms of an event say of the token row.
LEMMA EventType ==
  ASSUME NEW type, NEW t
  PROVE  /\ AttemptEvent(type, t).type = type /\ PlainEvent(type, t).type = type
         /\ AttemptEvent(type, t).act = t.act /\ PlainEvent(type, t).act = t.act
         /\ AttemptEvent(type, t).attempt = t.attempt /\ PlainEvent(type, t).attempt = 0
         /\ AttemptEvent(type, t).fence = t.fence
BY DEF AttemptEvent, PlainEvent, TraceRow

\* The trace before the moving event is a trace of an open run.
LEMMA BeforeIsTyped ==
  ASSUME TypeOK, NEW r \in Run, NEW s \in Before(r)
  PROVE  /\ s \in Seq(Events)
         /\ EndsWhen(trace[r], FALSE) => EndsWhen(s, FALSE)
<1>1. trace[r] \in Seq(Events) /\ token[r] \in Tokens
  BY DEF TypeOK
<1>2. CASE s = trace[r]
  BY <1>1, <1>2
<1>3. ASSUME NEW type \in Marks, s = Append(trace[r], AttemptEvent(type, token[r]))
      PROVE  s \in Seq(Events) /\ (EndsWhen(trace[r], FALSE) => EndsWhen(s, FALSE))
  <2>1. AttemptEvent(type, token[r]) \in Events /\ type \notin Endings
    BY <1>1, EventsAreTyped DEF Marks
  <2>2. s \in Seq(Events)
    BY <1>1, <1>3, <2>1
  <2>3. (type \in Endings) = FALSE
    BY <2>1
  <2>4. EndsWhen(trace[r], FALSE) => EndsWhen(s, AttemptEvent(type, token[r]).type \in Endings)
    BY <1>1, <1>3, AppendEnds
  <2> QED
    BY <2>2, <2>3, <2>4, EventType
<1> QED
  BY <1>2, <1>3 DEF Before

\* However a run is treated, its trace tells whether it has ended.
LEMMA StepKeepsTheEnd ==
  ASSUME TypeOK, NEW r \in Run, EndsWhen(trace[r], Ended(r)), RunStep(r)
  PROVE  EndsWhen(trace'[r], EndsNow(r))
<1>1. trace[r] \in Seq(Events)
  BY DEF TypeOK
<1>2. CASE trace'[r] = trace[r] /\ (EndsNow(r) <=> Ended(r))
  BY <1>2 DEF EndsWhen
<1>3. ASSUME NEW s \in Before(r), NEW e, trace'[r] = Append(s, e), ~Ended(r),
             EndsNow(r) <=> e.type \in Endings
      PROVE  EndsWhen(trace'[r], EndsNow(r))
  <2>1. EndsWhen(trace[r], FALSE)
    BY <1>3 DEF EndsWhen
  <2>2. EndsWhen(trace'[r], e.type \in Endings)
    BY <1>3, <2>1, BeforeIsTyped, AppendEnds
  <2> QED
    BY <1>3, <2>2 DEF EndsWhen
<1>4. trace[r] \in Before(r)
  BY DEF Before
<1>5. CASE Noted(r) \/ Settled(r)
  <2>1. PICK type, e : /\ type \in Marks /\ e.type = type
                       /\ trace'[r] = Append(trace[r], e) /\ ~Ended(r) /\ ~EndsNow(r)
    BY <1>5, EventType DEF Noted, Settled
  <2> QED
    BY <1>3, <1>4, <2>1 DEF Marks
<1>6. CASE Departed(r)
  <2>1. PICK type \in Departures, s \in Before(r) :
          /\ \/ trace'[r] = Append(s, PlainEvent(type, token[r]))
             \/ trace'[r] = Append(s, AttemptEvent(type, token[r]))
          /\ ~Ended(r) /\ ~EndsNow(r)
    BY <1>4, <1>6 DEF Departed
  <2>2. type \notin Endings
    BY DEF Departures, Endings
  <2> QED
    BY <1>3, <2>1, <2>2, EventType
<1>7. CASE Closed(r)
  <2>1. PICK type \in Endings, s \in Before(r) :
          /\ \/ trace'[r] = Append(s, PlainEvent(type, token[r]))
             \/ trace'[r] = Append(s, AttemptEvent(type, token[r]))
          /\ ~Ended(r) /\ EndsNow(r)
    BY <1>4, <1>7 DEF Closed
  <2> QED
    <3>1. /\ PlainEvent(type, token[r]).type \in Endings
          /\ AttemptEvent(type, token[r]).type \in Endings
      BY EventType
    <3>2. CASE trace'[r] = Append(s, PlainEvent(type, token[r]))
      BY <1>3, <2>1, <3>1, <3>2
    <3>3. CASE trace'[r] = Append(s, AttemptEvent(type, token[r]))
      BY <1>3, <2>1, <3>1, <3>3
    <3> QED
      BY <2>1, <3>2, <3>3
<1> QED
  BY <1>2, <1>5, <1>6, <1>7 DEF RunStep, Stays, Granted, Ticks

\* TraceEndsTheRun: in the trace of a run, an ending stands in the last place and
\* only there, and it stands there exactly when the run row says that it ended.
THEOREM TracesTellTheEnd == Spec => []TraceEndsTheRun
<1> DEFINE Recorded == \A r \in Run : EndsWhen(trace[r], Ended(r))
<1>1. Init => Recorded
  <2> SUFFICES ASSUME Init, NEW r \in Run PROVE EndsWhen(trace[r], Ended(r))
    OBVIOUS
  <2>1. trace[r] = <<TraceRow("run_enrolled", 1, 0, 0)>> /\ run[r].status = "pending"
    BY DEF Init
  <2>2. trace[r][1].type = "run_enrolled"
    BY <2>1 DEF TraceRow
  <2> QED
    BY <2>1, <2>2 DEF EndsWhen, Ended, Endings, TerminalRunStatuses
<1>2. TypeInv /\ RunTokenCoherent /\ Recorded /\ [Next]_vars => Recorded'
  <2> SUFFICES ASSUME TypeInv, RunTokenCoherent, Recorded, [Next]_vars, NEW r \in Run
               PROVE  EndsWhen(trace'[r], EndsNow(r))
    BY DEF Ended, EndsNow
  <2> QED
    BY RunsStep, StepKeepsTheEnd DEF TypeInv
<1>3. Recorded => TraceEndsTheRun
  BY DEF EndsWhen, Ended, TraceEndsTheRun
<1> QED
  BY <1>1, <1>2, <1>3, TypesHold, RowsStayCoherent, PTL DEF Spec

(***************************************************************************)
(* Departures and settlements are in order.                                *)
(***************************************************************************)
\* The positions of a trace that leave an activation, and those that settle an
\* attempt.
LeavesAt(s) == {i \in DOMAIN s : s[i].type \in Departures}
SettlesAt(s) == {i \in DOMAIN s : s[i].attempt > 0}

\* s leaves the activations before act, in their order.
LeftUpTo(s, act) ==
  /\ {s[i].act : i \in LeavesAt(s)} = 1 .. act - 1
  /\ \A i, j \in LeavesAt(s) : i < j => s[i].act < s[j].act

\* An event at the end of a trace: the activations left before it, and its own.
LEMMA AppendLeaves ==
  ASSUME NEW s \in Seq(Events), NEW e \in Events, NEW act \in Act, LeftUpTo(s, act)
  PROVE  /\ e.type \notin Departures => LeftUpTo(Append(s, e), act)
         /\ e.type \in Departures /\ e.act = act => LeftUpTo(Append(s, e), act + 1)
<1> DEFINE u == Append(s, e)
           n == Len(s) + 1
<1>1. /\ n \in Nat /\ DOMAIN u = 1 .. n /\ DOMAIN s = 1 .. n - 1
      /\ \A i \in DOMAIN s : u[i] = s[i]
      /\ u[n] = e /\ n \notin DOMAIN s
  OBVIOUS
<1>2. act \in Nat /\ act >= 1 /\ DOMAIN u = DOMAIN s \cup {n}
  BY <1>1, BoundAssumption DEF Act
<1> HIDE DEF u, n
<1>3. CASE e.type \notin Departures
  <2>1. LeavesAt(u) = LeavesAt(s)
    BY <1>1, <1>3 DEF LeavesAt
  <2>2. \A i \in LeavesAt(s) : u[i] = s[i]
    BY <1>1 DEF LeavesAt
  <2>3. {u[i].act : i \in LeavesAt(u)} = {s[i].act : i \in LeavesAt(s)}
    BY <2>1, <2>2
  <2>4. LeftUpTo(u, act)
    BY <2>1, <2>2, <2>3 DEF LeftUpTo
  <2> QED
    BY <1>3, <2>4 DEF u
<1>4. CASE e.type \in Departures /\ e.act = act
  <2>1. LeavesAt(u) = LeavesAt(s) \cup {n}
    BY <1>1, <1>2, <1>4 DEF LeavesAt
  <2>2. \A i \in LeavesAt(s) : u[i] = s[i] /\ i < n /\ s[i].act \in 1 .. act - 1
    BY <1>1 DEF LeavesAt, LeftUpTo
  <2>3. {u[i].act : i \in LeavesAt(u)} = {s[i].act : i \in LeavesAt(s)} \cup {act}
    BY <1>1, <1>4, <2>1, <2>2
  <2>4. 1 .. (act + 1) - 1 = (1 .. act - 1) \cup {act}
    BY <1>2
  <2>5. \A i, j \in LeavesAt(u) : i < j => u[i].act < u[j].act
    <3> SUFFICES ASSUME NEW i \in LeavesAt(u), NEW j \in LeavesAt(u), i < j
                 PROVE  u[i].act < u[j].act
      OBVIOUS
    <3>1. i \in Nat /\ j \in Nat /\ j <= n
      BY <1>1 DEF LeavesAt
    <3>2. i # n
      BY <1>1, <3>1
    <3>3. i \in LeavesAt(s)
      BY <2>1, <3>2
    <3>4. CASE j = n
      <4>1. s[i].act \in 1 .. act - 1 /\ u[i] = s[i]
        BY <2>2, <3>3
      <4>2. u[j].act = act
        BY <1>1, <1>4, <3>4
      <4> QED
        BY <1>2, <4>1, <4>2
    <3>5. CASE j # n
      <4>1. j \in LeavesAt(s)
        BY <2>1, <3>5
      <4> QED
        BY <2>2, <3>3, <4>1 DEF LeftUpTo
    <3> QED
      BY <3>4, <3>5
  <2>6. {s[i].act : i \in LeavesAt(s)} = 1 .. act - 1
    BY DEF LeftUpTo
  <2>7. LeftUpTo(u, act + 1)
    BY <2>3, <2>4, <2>5, <2>6 DEF LeftUpTo
  <2> QED
    BY <1>4, <2>7 DEF u
<1> QED
  BY <1>3, <1>4

\* The settled attempts in s come before the token row t, and a claimed row is
\* not yet settled.
SettledBefore(s, t) ==
  /\ \A i \in SettlesAt(s) :
       /\ s[i].fence <= t.fence /\ s[i].act <= t.act
       /\ s[i].act = t.act => s[i].attempt <= t.attempt
       /\ t.state = "claimed" =>
            s[i].fence < t.fence /\ (s[i].act = t.act => s[i].attempt < t.attempt)
  /\ \A i, j \in SettlesAt(s) :
       i < j => /\ s[i].fence < s[j].fence
                /\ s[i].act = s[j].act => s[i].attempt < s[j].attempt

\* An event without an attempt changes nothing.
LEMMA PlainSettlesNothing ==
  ASSUME NEW s \in Seq(Events), NEW e \in Events, e.attempt = 0, NEW t, SettledBefore(s, t)
  PROVE  SettledBefore(Append(s, e), t)
<1> DEFINE u == Append(s, e)
           n == Len(s) + 1
<1>1. /\ n \in Nat /\ DOMAIN u = 1 .. n /\ DOMAIN s = 1 .. n - 1
      /\ \A i \in DOMAIN s : u[i] = s[i]
      /\ u[n] = e /\ n \notin DOMAIN s
  OBVIOUS
<1> HIDE DEF u, n
<1>2. SettlesAt(u) = SettlesAt(s)
  BY <1>1 DEF SettlesAt
<1>3. \A i \in SettlesAt(s) : u[i] = s[i]
  BY <1>1 DEF SettlesAt
<1> QED
  BY <1>2, <1>3 DEF SettledBefore, u

\* A claimed row can be settled, once.
LEMMA AttemptSettles ==
  ASSUME NEW s \in Seq(Events), NEW t \in Tokens, t.state = "claimed", SettledBefore(s, t),
         NEW e \in Events, e.act = t.act, e.attempt = t.attempt, e.fence = t.fence,
         NEW v \in Tokens, v.state # "claimed", v.fence >= t.fence,
         (v.act = t.act /\ v.attempt = t.attempt) \/ v.act > t.act
  PROVE  SettledBefore(Append(s, e), v)
<1> DEFINE u == Append(s, e)
           n == Len(s) + 1
<1>1. /\ n \in Nat /\ DOMAIN u = 1 .. n /\ DOMAIN s = 1 .. n - 1
      /\ \A i \in DOMAIN s : u[i] = s[i]
      /\ u[n] = e /\ n \notin DOMAIN s
  OBVIOUS
<1>2. /\ t.act \in Nat /\ t.fence \in Nat /\ t.attempt \in Nat
      /\ v.act \in Nat /\ v.fence \in Nat /\ v.attempt \in Nat
  BY DEF Tokens, Act
<1>3. \A i \in DOMAIN s : s[i].act \in Nat /\ s[i].attempt \in Nat /\ s[i].fence \in Nat
  <2>1. \A i \in DOMAIN s : s[i] \in Events
    OBVIOUS
  <2> QED
    BY <2>1 DEF Events, Act
<1> HIDE DEF u, n
<1>4. \A i \in SettlesAt(u) : i = n \/ i \in SettlesAt(s)
  BY <1>1 DEF SettlesAt
<1>5. \A i \in SettlesAt(s) : i \in DOMAIN s /\ i < n /\ u[i] = s[i]
  BY <1>1 DEF SettlesAt
<1>6. \A i \in SettlesAt(s) :
        s[i].fence < t.fence /\ s[i].act <= t.act /\ (s[i].act = t.act => s[i].attempt < t.attempt)
  BY DEF SettledBefore
<1>7. \A i \in SettlesAt(u) :
        u[i].fence <= v.fence /\ u[i].act <= v.act /\ (u[i].act = v.act => u[i].attempt <= v.attempt)
  <2> SUFFICES ASSUME NEW i \in SettlesAt(u)
               PROVE  /\ u[i].fence <= v.fence /\ u[i].act <= v.act
                      /\ u[i].act = v.act => u[i].attempt <= v.attempt
    OBVIOUS
  <2>1. CASE i = n
    BY <1>1, <1>2, <2>1
  <2>2. CASE i \in SettlesAt(s)
    BY <1>2, <1>3, <1>5, <1>6, <2>2
  <2> QED
    BY <1>4, <2>1, <2>2
<1>8. \A i, j \in SettlesAt(u) :
        i < j => u[i].fence < u[j].fence /\ (u[i].act = u[j].act => u[i].attempt < u[j].attempt)
  <2> SUFFICES ASSUME NEW i \in SettlesAt(u), NEW j \in SettlesAt(u), i < j
               PROVE  /\ u[i].fence < u[j].fence
                      /\ u[i].act = u[j].act => u[i].attempt < u[j].attempt
    OBVIOUS
  <2>1. i \in Nat /\ j \in Nat /\ j <= n
    BY <1>1 DEF SettlesAt
  <2>2. i \in SettlesAt(s)
    BY <1>1, <1>4, <2>1
  <2>3. CASE j = n
    BY <1>1, <1>5, <1>6, <2>2, <2>3
  <2>4. CASE j \in SettlesAt(s)
    BY <1>5, <2>2, <2>4 DEF SettledBefore
  <2> QED
    BY <1>4, <2>3, <2>4
<1> QED
  BY <1>7, <1>8 DEF SettledBefore, u

\* What the row updates do to activation, attempt and fence.
LEMMA AdvancedRow ==
  ASSUME NEW t \in Tokens, NEW h
  PROVE  /\ Advanced(t, h).state = "runnable" /\ Advanced(t, h).act = t.act + 1
         /\ Advanced(t, h).attempt = 0 /\ Advanced(t, h).fence = t.fence
BY DEF Advanced, Tokens

\* A released token stays on its activation and node, and takes its fence step.
LEMMA ReleasedRow ==
  ASSUME NEW t \in Tokens, NEW state, NEW step
  PROVE  /\ Released(t, state, step).state = state /\ Released(t, state, step).act = t.act
         /\ Released(t, state, step).attempt = t.attempt
         /\ Released(t, state, step).fence = t.fence + step
         /\ Released(t, state, step).node = t.node
BY DEF Released, Tokens

\* A claim is the next attempt under the next fence.
LEMMA ClaimedRow ==
  ASSUME NEW t \in Tokens, NEW w
  PROVE  /\ Claimed(t, w).state = "claimed" /\ Claimed(t, w).act = t.act
         /\ Claimed(t, w).attempt = t.attempt + 1 /\ Claimed(t, w).fence = t.fence + 1
         /\ Claimed(t, w).node = t.node
BY DEF Claimed, Tokens

\* Trace and token row of one run.
Told(s, t) == LeftUpTo(s, t.act) /\ SettledBefore(s, t)

\* A step that settles the claimed attempt, if there is one, in the first event
\* it writes, and moves the token.
LEMMA StepKeepsTheOrder ==
  ASSUME TypeOK, TypeOK', NEW r \in Run, Told(trace[r], token[r]), RunStep(r)
  PROVE  Told(trace'[r], token'[r])
<1> DEFINE t == token[r]
           s == trace[r]
           v == token'[r]
<1>1. t \in Tokens /\ s \in Seq(Events) /\ v \in Tokens /\ t.act \in Act
  BY DEF TypeOK, Tokens
<1>2. t.act \in Nat /\ t.fence \in Nat /\ t.attempt \in Nat /\ v.fence \in Nat
  BY <1>1 DEF Tokens, Act
<1>3. LeftUpTo(s, t.act) /\ SettledBefore(s, t)
  BY DEF Told
<1>4. \A type \in EventTypes : AttemptEvent(type, t) \in Events /\ PlainEvent(type, t) \in Events
  BY <1>1, EventsAreTyped
<1>5. /\ Marks \subseteq EventTypes /\ Departures \subseteq EventTypes
      /\ Endings \subseteq EventTypes
      /\ \A type \in Marks \cup Endings : type \notin Departures
  BY DEF Marks, Departures, Endings, EventTypes
<1> HIDE DEF t, s, v
<1>6. ASSUME NEW x, NEW type \in EventTypes, x \in Seq(Events), NEW row \in Tokens,
             LeftUpTo(x, t.act), SettledBefore(x, row)
      PROVE  /\ SettledBefore(Append(x, PlainEvent(type, t)), row)
             /\ type \notin Departures => LeftUpTo(Append(x, PlainEvent(type, t)), t.act)
             /\ type \in Departures => LeftUpTo(Append(x, PlainEvent(type, t)), t.act + 1)
  <2>1. PlainEvent(type, t) \in Events /\ PlainEvent(type, t).type = type
        /\ PlainEvent(type, t).act = t.act /\ PlainEvent(type, t).attempt = 0
    BY <1>4, EventType
  <2> QED
    BY <1>1, <1>6, <2>1, PlainSettlesNothing, AppendLeaves
<1>7. ASSUME NEW type \in EventTypes, t.state = "claimed", NEW row \in Tokens,
             row.state # "claimed", row.fence >= t.fence,
             (row.act = t.act /\ row.attempt = t.attempt) \/ row.act > t.act
      PROVE  /\ SettledBefore(Append(s, AttemptEvent(type, t)), row)
             /\ type \notin Departures => LeftUpTo(Append(s, AttemptEvent(type, t)), t.act)
             /\ type \in Departures => LeftUpTo(Append(s, AttemptEvent(type, t)), t.act + 1)
  <2>1. /\ AttemptEvent(type, t) \in Events /\ AttemptEvent(type, t).type = type
        /\ AttemptEvent(type, t).act = t.act /\ AttemptEvent(type, t).attempt = t.attempt
        /\ AttemptEvent(type, t).fence = t.fence
    BY <1>4, EventType
  <2>2. SettledBefore(Append(s, AttemptEvent(type, t)), row)
    BY <1>1, <1>3, <1>7, <2>1, AttemptSettles
  <2> QED
    BY <1>1, <1>3, <2>1, <2>2, AppendLeaves
\* A token that loses its claim, or had none, keeps what is settled behind it.
<1>8. ASSUME NEW row \in Tokens, row.state # "claimed", row.fence >= t.fence,
             (row.act = t.act /\ row.attempt = t.attempt) \/ row.act > t.act
      PROVE  SettledBefore(s, row)
  <2>1. \A i \in DOMAIN s : s[i] \in Events
    BY <1>1
  <2>2. \A i \in DOMAIN s : s[i].act \in Nat /\ s[i].fence \in Nat /\ s[i].attempt \in Nat
    BY <2>1 DEF Events, Act
  <2>3. row.act \in Nat /\ row.fence \in Nat
    BY DEF Tokens, Act
  <2>4. \A i \in SettlesAt(s) :
          /\ s[i].fence <= t.fence /\ s[i].act <= t.act
          /\ s[i].act = t.act => s[i].attempt <= t.attempt
    BY <1>3 DEF SettledBefore
  <2>5. ASSUME NEW i \in SettlesAt(s)
        PROVE  /\ s[i].fence <= row.fence /\ s[i].act <= row.act
               /\ s[i].act = row.act => s[i].attempt <= row.attempt
    <3>1. i \in DOMAIN s
      BY DEF SettlesAt
    <3> QED
      BY <1>2, <1>8, <2>2, <2>3, <2>4, <3>1
  <2> QED
    BY <1>3, <1>8, <2>5 DEF SettledBefore
<1>9. CASE Stays(r)
  BY <1>9 DEF Stays, Told
<1>10. CASE Granted(r)
  <2>1. PICK w \in Worker : v = Claimed(t, w)
    BY <1>10 DEF Granted, t, v
  <2>2. /\ v.act = t.act /\ v.attempt = t.attempt + 1 /\ v.fence = t.fence + 1
    BY <1>1, <2>1, ClaimedRow
  <2>3. \A i \in DOMAIN s : s[i] \in Events
    BY <1>1
  <2>4. \A i \in DOMAIN s : s[i].fence \in Nat /\ s[i].attempt \in Nat
    BY <2>3 DEF Events
  <2>5. ASSUME NEW i \in SettlesAt(s)
        PROVE  /\ s[i].fence < v.fence /\ s[i].act <= v.act
               /\ s[i].act = v.act => s[i].attempt < v.attempt
               /\ s[i].fence <= v.fence
               /\ s[i].act = v.act => s[i].attempt <= v.attempt
    <3>1. s[i].fence \in Nat /\ s[i].attempt \in Nat
      BY <2>4 DEF SettlesAt
    <3> QED
      BY <1>2, <1>3, <2>2, <3>1 DEF SettledBefore
  <2>6. SettledBefore(s, v)
    BY <1>3, <2>5 DEF SettledBefore
  <2> QED
    BY <1>3, <1>10, <2>2, <2>6 DEF Granted, Told, s, v
<1>11. CASE Ticks(r)
  <2>1. /\ v.state = t.state /\ v.act = t.act /\ v.attempt = t.attempt /\ v.fence = t.fence
    BY <1>1, <1>11 DEF Ticks, Tokens, t, v
  <2>2. SettledBefore(s, v)
    BY <1>3, <2>1 DEF SettledBefore
  <2> QED
    BY <1>3, <1>11, <2>1, <2>2 DEF Ticks, Told, s, v
<1>12. CASE Noted(r)
  <2>1. PICK type \in Marks : trace'[r] = Append(s, PlainEvent(type, t))
    BY <1>12 DEF Noted, s, t
  <2>2. LeftUpTo(trace'[r], t.act) /\ SettledBefore(trace'[r], t)
    BY <1>1, <1>3, <1>5, <1>6, <2>1
  <2> QED
    BY <1>12, <2>2 DEF Noted, Told, t
<1>13. CASE Settled(r)
  <2>1. PICK state \in WaitingTokenStates \cup {"retry_scheduled"}, step \in {0, 1} :
          v = Released(t, state, step)
    BY <1>13 DEF Settled, t, v
  <2>2. state # "claimed"
    BY DEF WaitingTokenStates
  <2>3. v.state # "claimed" /\ v.act = t.act /\ v.attempt = t.attempt /\ v.fence >= t.fence
    BY <1>1, <1>2, <2>1, <2>2, ReleasedRow
  <2>4. PICK type \in Marks : trace'[r] = Append(s, AttemptEvent(type, t))
    BY <1>13 DEF Settled, s, t
  <2>5. t.state = "claimed"
    BY <1>13 DEF Settled, t
  <2>6. SettledBefore(trace'[r], v) /\ LeftUpTo(trace'[r], t.act)
    BY <1>1, <1>5, <1>7, <2>3, <2>4, <2>5
  <2> QED
    BY <2>3, <2>6 DEF Told, v
<1>14. ASSUME NEW x \in Before(r), v.state # "claimed", v.fence >= t.fence,
              (v.act = t.act /\ v.attempt = t.attempt) \/ v.act > t.act,
              x = s \/ t.state = "claimed"
       PROVE  x \in Seq(Events) /\ LeftUpTo(x, t.act) /\ SettledBefore(x, v)
  <2>1. CASE x = s
    BY <1>1, <1>3, <1>8, <1>14, <2>1
  <2>2. CASE x # s
    <3>1. PICK type \in Marks : x = Append(s, AttemptEvent(type, t))
      BY <2>2 DEF Before, s, t
    <3> QED
      BY <1>1, <1>5, <1>7, <1>14, <2>2, <3>1, BeforeIsTyped
  <2> QED
    BY <2>1, <2>2
<1>15. s \in Before(r)
  BY DEF Before, s
<1>16. CASE Departed(r)
  <2>1. PICK h : v = Advanced(t, h)
    BY <1>16 DEF Departed, t, v
  <2>2. v.state # "claimed" /\ v.act = t.act + 1 /\ v.fence >= t.fence /\ v.act > t.act
    BY <1>1, <1>2, <2>1, AdvancedRow
  <2>3. PICK type \in Departures :
          \/ trace'[r] = Append(s, PlainEvent(type, t))
          \/ /\ t.state = "claimed"
             /\ \/ trace'[r] = Append(s, AttemptEvent(type, t))
                \/ \E x \in Before(r) : trace'[r] = Append(x, PlainEvent(type, t))
    BY <1>16 DEF Departed, s, t
  <2>4. CASE t.state = "claimed" /\ trace'[r] = Append(s, AttemptEvent(type, t))
    <3>1. SettledBefore(trace'[r], v) /\ LeftUpTo(trace'[r], t.act + 1)
      BY <1>1, <1>5, <1>7, <2>2, <2>4
    <3> QED
      BY <2>2, <3>1 DEF Told, v
  <2>5. ASSUME NEW x \in Before(r), x = s \/ t.state = "claimed",
               trace'[r] = Append(x, PlainEvent(type, t))
        PROVE  Told(trace'[r], token'[r])
    <3>1. x \in Seq(Events) /\ LeftUpTo(x, t.act) /\ SettledBefore(x, v)
      BY <1>14, <2>2, <2>5
    <3>2. SettledBefore(trace'[r], v) /\ LeftUpTo(trace'[r], t.act + 1)
      BY <1>1, <1>5, <1>6, <2>5, <3>1
    <3> QED
      BY <2>2, <3>2 DEF Told, v
  <2> QED
    BY <1>15, <2>3, <2>4, <2>5
<1>17. CASE Closed(r)
  <2>1. PICK state \in TerminalTokenStates, step \in {0, 1} : v = Released(t, state, step)
    BY <1>17 DEF Closed, t, v
  <2>2. state # "claimed"
    BY DEF TerminalTokenStates
  <2>3. v.state # "claimed" /\ v.act = t.act /\ v.attempt = t.attempt /\ v.fence >= t.fence
    BY <1>1, <1>2, <2>1, <2>2, ReleasedRow
  <2>4. PICK type \in Endings :
          \/ trace'[r] = Append(s, PlainEvent(type, t))
          \/ /\ t.state = "claimed"
             /\ \/ trace'[r] = Append(s, AttemptEvent(type, t))
                \/ \E x \in Before(r) : trace'[r] = Append(x, PlainEvent(type, t))
    BY <1>17 DEF Closed, s, t
  <2>5. CASE t.state = "claimed" /\ trace'[r] = Append(s, AttemptEvent(type, t))
    <3>1. SettledBefore(trace'[r], v) /\ LeftUpTo(trace'[r], t.act)
      BY <1>1, <1>5, <1>7, <2>3, <2>5
    <3> QED
      BY <2>3, <3>1 DEF Told, v
  <2>6. ASSUME NEW x \in Before(r), x = s \/ t.state = "claimed",
               trace'[r] = Append(x, PlainEvent(type, t))
        PROVE  Told(trace'[r], token'[r])
    <3>1. x \in Seq(Events) /\ LeftUpTo(x, t.act) /\ SettledBefore(x, v)
      BY <1>14, <2>3, <2>6
    <3>2. SettledBefore(trace'[r], v) /\ LeftUpTo(trace'[r], t.act)
      BY <1>1, <1>5, <1>6, <2>6, <3>1
    <3> QED
      BY <2>3, <3>2 DEF Told, v
  <2> QED
    BY <1>15, <2>4, <2>5, <2>6
<1> QED
  BY <1>9, <1>10, <1>11, <1>12, <1>13, <1>16, <1>17 DEF RunStep

\* Every trace is in order with its token.
TracesInOrder == \A r \in Run : Told(trace[r], token[r])

\* In every reachable state the trace of a run is in order.
LEMMA TracesStayInOrder == Spec => []TracesInOrder
<1>1. Init => TracesInOrder
  <2> SUFFICES ASSUME Init, NEW r \in Run PROVE Told(trace[r], token[r])
    BY DEF TracesInOrder
  <2>1. trace[r] = <<TraceRow("run_enrolled", 1, 0, 0)>> /\ token[r].act = 1
    BY DEF Init
  <2>2. trace[r][1].type = "run_enrolled" /\ trace[r][1].attempt = 0 /\ DOMAIN trace[r] = {1}
    BY <2>1 DEF TraceRow
  <2>3. LeavesAt(trace[r]) = {} /\ SettlesAt(trace[r]) = {}
    BY <2>2 DEF LeavesAt, SettlesAt, Departures
  <2>4. {trace[r][i].act : i \in LeavesAt(trace[r])} = {}
    BY <2>3
  <2>5. 1 .. token[r].act - 1 = {}
    BY <2>1
  <2> QED
    BY <2>3, <2>4, <2>5 DEF Told, LeftUpTo, SettledBefore
<1>2. TypeInv /\ TypeInv' /\ RunTokenCoherent /\ TracesInOrder /\ [Next]_vars => TracesInOrder'
  BY RunsStep, StepKeepsTheOrder DEF TypeInv, TracesInOrder
<1> QED
  BY <1>1, <1>2, TypesHold, RowsStayCoherent, PTL DEF Spec

\* OneDeparturePerActivation: in every trace the activations are left one after
\* the other, each once and none skipped, by whoever resumes or finalizes them.
THEOREM ActivationsAreLeftOnce == Spec => []OneDeparturePerActivation
<1>1. TracesInOrder => OneDeparturePerActivation
  BY DEF TracesInOrder, Told, LeftUpTo, LeavesAt, OneDeparturePerActivation
<1> QED
  BY <1>1, TracesStayInOrder, PTL

\* AttemptsSettledInFenceOrder: the attempt rows of a run carry rising fences,
\* and within an activation rising attempts, so no claim is settled twice and no
\* late worker writes behind a later one.
THEOREM AttemptsAreSettledInOrder == Spec => []AttemptsSettledInFenceOrder
<1>1. TracesInOrder => AttemptsSettledInFenceOrder
  BY DEF TracesInOrder, Told, SettledBefore, SettlesAt, AttemptsSettledInFenceOrder
<1> QED
  BY <1>1, TracesStayInOrder, PTL

(***************************************************************************)
(* The runtime implements the contract.                                    *)
(***************************************************************************)
\* A step moves the token of one run, or cancels open runs.
LEMMA OneTokenMoves ==
  ASSUME TypeInv, [Next]_vars
  PROVE  \/ \E r \in Run : \E t : token' = [token EXCEPT ![r] = t]
         \/ token' = token
         \/ \E runs \in SUBSET Run : CancelsRuns(runs) /\ \A r \in runs : ~Ended(r)
<1> DEFINE Goal == \/ \E r \in Run : \E t : token' = [token EXCEPT ![r] = t]
                   \/ token' = token
                   \/ \E runs \in SUBSET Run : CancelsRuns(runs) /\ \A r \in runs : ~Ended(r)
<1> USE DEF TypeInv
<1>1. ASSUME NEW w \in Worker, WorkerStep(w) PROVE Goal
  <2>1. CASE \E r \in Run : Claim(w, r)
    BY <2>1 DEF Claim
  <2>2. CASE \/ RequestChart(w) \/ RequestMessage(w) \/ LookForSignal(w)
             \/ FinalizeStale(w) \/ Abandon(w)
    BY <2>2 DEF RequestChart, RequestMessage, LookForSignal, FinalizeStale, Abandon
  <2>3. CASE \/ FinalizeTerminal(w) \/ FinalizeAdvance(w) \/ FinalizeWorkItem(w)
             \/ FinalizeApproval(w) \/ FinalizeSignalWait(w) \/ FinalizeFailure(w)
    <3>1. claim[w].run \in Run
      BY <2>3, FinalizerHolds
    <3>2. \E t : token' = [token EXCEPT ![claim[w].run] = t]
      BY <2>3 DEF FinalizeTerminal, FinalizeAdvance, FinalizeWorkItem, FinalizeApproval,
                  FinalizeSignalWait, FinalizeFailure, ParksToken
    <3> QED
      BY <3>1, <3>2
  <2> QED
    BY <1>1, <2>1, <2>2, <2>3 DEF WorkerStep
<1>2. ASSUME NEW r \in Run, TokenStep(r) PROVE Goal
  <2>1. CASE CancelRun(r)
    BY <2>1 DEF CancelRun, Ended
  <2>2. CASE \/ QuarantinePoisonCandidate(r) \/ LeaseElapses(r) \/ ClockStepsBack(r)
             \/ RecoverExpired(r) \/ QuarantineExpiredClaim(r)
             \/ CommitSignal(r) \/ RollbackSignal(r)
    BY <2>2 DEF QuarantinePoisonCandidate, LeaseElapses, ClockStepsBack, RecoverExpired,
                QuarantineExpiredClaim, CommitSignal, RollbackSignal
  <2> QED
    BY <1>2, <2>1, <2>2 DEF TokenStep
<1>3. ASSUME NEW r \in Run, NEW a \in Act, ObligationStep(r, a) PROVE Goal
  BY <1>3
  DEF ObligationStep, JobEnds, IngestSignal, WorkItemCommand, CompleteWorkItem,
      WakeWorkItem, SnoozeApproval, DecideApproval, DeadlinePasses, ExpireApproval,
      WakeApproval, AdvancesApproval
<1>4. CASE BookingCancel
  BY <1>4, GraphAssumption DEF BookingCancel, OpenBookingRuns, Ended
<1>5. CASE BookingReschedule \/ UNCHANGED vars
  BY <1>5 DEF BookingReschedule, vars
<1> QED
  BY <1>1, <1>2, <1>3, <1>4, <1>5 DEF Next

Phase == [r \in Run |-> PhaseOf(token[r].state)]
Left == [r \in Run |-> token[r].act - 1]

\* The phases of the token states.
LEMMA Phases ==
  /\ \A s \in ClaimableTokenStates : PhaseOf(s) = "ready"
  /\ PhaseOf("claimed") = "busy"
  /\ \A s \in WaitingTokenStates : PhaseOf(s) = "parked"
  /\ \A s \in TerminalTokenStates : PhaseOf(s) = s
BY DEF PhaseOf, ClaimableTokenStates, WaitingTokenStates, TerminalTokenStates

\* A step that moves one run is a step of the contract.
LEMMA OneRunKeepsTheContract ==
  ASSUME TypeOK, TypeOK', NEW r \in Run, RunStep(r),
         NEW u, token' = [token EXCEPT ![r] = u]
  PROVE  (\/ Contract!Start(r) \/ Contract!GiveBack(r) \/ Contract!Park(r)
          \/ Contract!Depart(r) \/ Contract!Complete(r) \/ Contract!Fail(r)
          \/ Contract!Cancel)
         \/ (Phase' = Phase /\ Left' = Left)
<1> DEFINE t == token[r]
           Sets(to, departs) == /\ Phase' = [Phase EXCEPT ![r] = to]
                                /\ Left' = [Left EXCEPT ![r] = Left[r] + departs]
<1>1. /\ t \in Tokens /\ token'[r] = u /\ u \in Tokens
      /\ \A q \in Run \ {r} : token'[q] = token[q]
      /\ Phase[r] = PhaseOf(t.state) /\ Left[r] = t.act - 1
      /\ t.act \in Nat /\ u.act \in Nat
  BY DEF TypeOK, Phase, Left, Tokens, Act
<1>2. ASSUME NEW to, NEW departs \in {0, 1}, PhaseOf(u.state) = to, u.act = t.act + departs
      PROVE  Sets(to, departs)
  <2>1. \A q \in Run : PhaseOf(token'[q].state) = IF q = r THEN to ELSE PhaseOf(token[q].state)
    BY <1>1, <1>2
  <2>2. u.act - 1 = (t.act - 1) + departs
    BY <1>1, <1>2
  <2>3. \A q \in Run : token'[q].act - 1 =
                         IF q = r THEN Left[r] + departs ELSE token[q].act - 1
    BY <1>1, <2>2
  <2> QED
    BY <2>1, <2>3 DEF Phase, Left
<1> HIDE DEF t, Sets
<1>3. CASE Stays(r) \/ Noted(r)
  <2>1. token' = token
    BY <1>1, <1>3 DEF Stays, Noted, TypeOK
  <2> QED
    BY <2>1 DEF Phase, Left
<1>4. CASE Ticks(r)
  <2>1. u.state = t.state /\ u.act = t.act
    BY <1>1, <1>4 DEF Ticks, Tokens, t
  <2>2. Phase' = Phase
    BY <1>1, <2>1 DEF Phase, t
  <2>3. Left' = Left
    BY <1>1, <2>1 DEF Left, t
  <2> QED
    BY <2>2, <2>3
<1>5. CASE Granted(r)
  <2>1. u.state = "claimed" /\ u.act = t.act /\ t.state \in ClaimableTokenStates
    BY <1>1, <1>5, ClaimedRow DEF Granted, t
  <2>2. Sets("busy", 0) /\ Phase[r] = "ready"
    BY <1>1, <1>2, <2>1, Phases
  <2>3. Contract!Start(r)
    BY <2>2 DEF Sets, Phase, Left, Contract!Start, Contract!Moves
  <2> QED
    BY <2>3
<1>6. CASE Settled(r)
  <2>1. PICK state \in WaitingTokenStates \cup {"retry_scheduled"}, step \in {0, 1} :
          u = Released(t, state, step)
    BY <1>1, <1>6 DEF Settled, t
  <2>2. u.state = state /\ u.act = t.act /\ t.state = "claimed"
    <3>1. u.state = state /\ u.act = t.act
      BY <1>1, <2>1, ReleasedRow
    <3> QED
      BY <1>6, <3>1 DEF Settled, t
  <2>3. Phase[r] = "busy"
    BY <1>1, <2>2, Phases
  <2>4. CASE state \in WaitingTokenStates
    <3>1. Sets("parked", 0)
      BY <1>1, <1>2, <2>2, <2>4, Phases
    <3>2. Contract!Park(r)
      BY <2>3, <3>1 DEF Sets, Phase, Left, Contract!Park, Contract!Moves
    <3> QED
      BY <3>2
  <2>5. CASE state = "retry_scheduled"
    <3>1. Sets("ready", 0)
      BY <1>1, <1>2, <2>2, <2>5, Phases DEF ClaimableTokenStates
    <3>2. Contract!GiveBack(r)
      BY <2>3, <3>1 DEF Sets, Phase, Left, Contract!GiveBack, Contract!Moves
    <3> QED
      BY <3>2
  <2> QED
    BY <2>4, <2>5
<1>7. CASE Departed(r)
  <2>1. u.state = "runnable" /\ u.act = t.act + 1
    BY <1>1, <1>7, AdvancedRow DEF Departed, t
  <2>2. Sets("ready", 1)
    BY <1>1, <1>2, <2>1, Phases DEF ClaimableTokenStates
  <2>3. Phase[r] \in {"busy", "parked"}
    BY <1>1, <1>7, Phases DEF Departed, t
  <2>4. Contract!Depart(r)
    BY <2>2, <2>3 DEF Sets, Phase, Left, Contract!Depart, Contract!Moves
  <2> QED
    BY <2>4
<1>8. CASE Closed(r)
  <2>1. PICK state \in TerminalTokenStates, step \in {0, 1} :
          u = Released(t, state, step) /\ (state = "completed" => t.state = "claimed")
    BY <1>1, <1>8 DEF Closed, t
  <2>2. u.state = state /\ u.act = t.act /\ t.state \notin TerminalTokenStates
    <3>1. u.state = state /\ u.act = t.act
      BY <1>1, <2>1, ReleasedRow
    <3> QED
      BY <1>8, <3>1 DEF Closed, t
  <2>3. t.state \in ClaimableTokenStates \cup WaitingTokenStates \cup {"claimed"}
    BY <1>1, <2>2 DEF Tokens, TokenStates
  <2>4. Phase[r] \in {"ready", "busy", "parked"} /\ Sets(state, 0)
    BY <1>1, <1>2, <2>2, <2>3, Phases
  <2>5. CASE state = "completed"
    <3>1. Phase[r] = "busy"
      BY <1>1, <2>1, <2>5, Phases
    <3>2. Contract!Complete(r)
      BY <2>4, <2>5, <3>1 DEF Sets, Phase, Left, Contract!Complete, Contract!Moves
    <3> QED
      BY <3>2
  <2>6. CASE state = "failed"
    <3>1. Contract!Fail(r)
      BY <2>4, <2>6 DEF Sets, Phase, Left, Contract!Fail, Contract!Moves
    <3> QED
      BY <3>1
  <2>7. CASE state = "canceled"
    <3>1. Phase' = [q \in Run |-> IF q \in {r} THEN "canceled" ELSE Phase[q]]
      BY <2>4, <2>7 DEF Sets, Phase
    <3>2. Left' = Left
      BY <1>1, <2>4 DEF Sets, Left
    <3>3. {r} \in SUBSET {q \in Run : Phase[q] \notin Contract!Closings}
      BY <2>4 DEF Contract!Closings
    <3>4. Contract!Cancel
      BY <3>1, <3>2, <3>3 DEF Phase, Left, Contract!Cancel
    <3> QED
      BY <3>4
  <2> QED
    BY <2>5, <2>6, <2>7 DEF TerminalTokenStates
<1> QED
  BY <1>3, <1>4, <1>5, <1>6, <1>7, <1>8 DEF RunStep

\* A cancellation closes open runs at once.
LEMMA CancellationKeepsTheContract ==
  ASSUME TypeOK, RunTokenCoherent, NEW runs \in SUBSET Run, CancelsRuns(runs),
         \A r \in runs : ~Ended(r)
  PROVE  Contract!Cancel
<1>1. ASSUME NEW r \in Run
      PROVE  /\ token'[r].act = token[r].act
             /\ token'[r].state = IF r \in runs THEN "canceled" ELSE token[r].state
  BY ReleasedRow DEF CancelsRuns, TypeOK
<1>2. Left' = Left
  BY <1>1 DEF Left
<1>3. PhaseOf("canceled") = "canceled"
  BY Phases DEF TerminalTokenStates
<1>4. Phase' = [r \in Run |-> IF r \in runs THEN "canceled" ELSE Phase[r]]
  BY <1>1, <1>3 DEF Phase
<1>5. ASSUME NEW r \in runs PROVE Phase[r] \notin Contract!Closings
  <2>1. token[r].state \in TokenStates \ TerminalTokenStates
    BY DEF TypeOK, Tokens, RunTokenCoherent, StatusOf, Ended, TerminalTokenStates,
           TerminalRunStatuses, WaitingTokenStates
  <2>2. Phase[r] \in {"ready", "busy", "parked"}
    BY <2>1, Phases DEF Phase, TokenStates
  <2> QED
    BY <2>2 DEF Contract!Closings
<1> QED
  BY <1>2, <1>4, <1>5 DEF Phase, Left, Contract!Cancel

\* KeepsContract without its fairness: every run of the runtime is a run of the
\* contract.  It leaves its activations one at a time, only a worker completes
\* it, and once closed it stays closed.
THEOREM TheRuntimeKeepsItsContract == Spec => Contract!SafetySpec
<1>1. Init => Contract!Init
  BY Phases DEF Init, Contract!Init, ClaimableTokenStates
<1>2. TypeInv /\ TypeInv' /\ RunTokenCoherent /\ [Next]_vars => [Contract!Next]_(Contract!cvars)
  <2> SUFFICES ASSUME TypeInv, TypeInv', RunTokenCoherent, [Next]_vars
               PROVE  [Contract!Next]_(Contract!cvars)
    OBVIOUS
  <2>1. ASSUME Phase' = Phase, Left' = Left PROVE [Contract!Next]_(Contract!cvars)
    BY <2>1 DEF Phase, Left, Contract!cvars
  <2>2. CASE token' = token
    <3>1. Phase' = Phase /\ Left' = Left
      BY <2>2 DEF Phase, Left
    <3> QED
      BY <2>1, <3>1
  <2>3. CASE \E r \in Run : \E t : token' = [token EXCEPT ![r] = t]
    BY <2>1, <2>3, RunsStep, OneRunKeepsTheContract DEF TypeInv, Contract!Next
  <2>4. CASE \E runs \in SUBSET Run : CancelsRuns(runs) /\ \A r \in runs : ~Ended(r)
    BY <2>4, CancellationKeepsTheContract DEF TypeInv, Contract!Next
  <2> QED
    BY <2>2, <2>3, <2>4, OneTokenMoves
<1> QED
  BY <1>1, <1>2, TypesHold, RowsStayCoherent, PTL DEF Spec, Contract!SafetySpec

(***************************************************************************)
(* Obligations.                                                            *)
(***************************************************************************)
\* The token states that wait for a signal, and those of a run at work.
SignalStates == {"waiting_signal", "waiting_external"}
WorkingStates == ClaimableTokenStates \cup {"claimed"}

\* What token row t and the wait w, item i and approval p of its activation a
\* have to do with each other: ObligationMatchesToken, and that the wait of an
\* activation does not exist before a worker finalizes it.
Fit(t, w, i, p, a) ==
  /\ (w.status = "waiting") <=> (t.act = a /\ t.state \in SignalStates)
  /\ (i.status \in ActiveItemStatuses) <=> (t.act = a /\ t.state = "waiting_work_item")
  /\ t.act = a /\ t.state = "waiting_approval" => p.status \in OpenApprovalStatuses
  /\ p.status \in OpenApprovalStatuses =>
       t.act = a /\ t.state \in {"waiting_approval", "canceled"}
  /\ w.status = "waiting" => w.replay = FALSE
  /\ t.act < a \/ (t.act = a /\ t.state \in WorkingStates) => w.status = "none"

\* The rows of activation a of run r fit, now and after the step.
FitAt(r, a) == Fit(token[r], wait[r][a], item[r][a], approval[r][a], a)
FitAfter(r, a) == Fit(token'[r], wait'[r][a], item'[r][a], approval'[r][a], a)

ObligationsFit == \A r \in Run, a \in Act : FitAt(r, a)

\* A token that works moves on or ends, and no row is opened.
LEMMA WorkingTokenFits ==
  ASSUME NEW t \in Tokens, NEW u \in Tokens, NEW a \in Act, NEW w, NEW i, NEW p,
         Fit(t, w, i, p, a), t.state \in WorkingStates,
         u.state \in WorkingStates \cup TerminalTokenStates,
         u.act = t.act \/ u.act = t.act + 1
  PROVE  Fit(u, w, i, p, a)
<1>1. t.act \in Nat /\ u.act \in Nat /\ a \in Nat
  BY DEF Tokens, Act
<1>2. /\ t.state \notin SignalStates /\ t.state # "waiting_work_item"
      /\ t.state \notin {"waiting_approval", "canceled"}
      /\ u.state \notin SignalStates /\ u.state # "waiting_work_item"
      /\ u.state # "waiting_approval"
  BY DEF WorkingStates, ClaimableTokenStates, SignalStates, TerminalTokenStates
<1> QED
  BY <1>1, <1>2 DEF Fit

\* The row of the current activation is closed, and the token moves on or ends.
LEMMA ClosedRowFits ==
  ASSUME NEW t \in Tokens, NEW u \in Tokens, NEW a \in Act,
         NEW w, NEW i, NEW p, NEW x, NEW j, NEW o, Fit(t, w, i, p, a),
         \/ u.state = "runnable" /\ u.act = t.act + 1
         \/ u.state \in TerminalTokenStates /\ u.act = t.act,
         x.status # "waiting", j.status \notin ActiveItemStatuses,
         o.status \in OpenApprovalStatuses =>
           p.status \in OpenApprovalStatuses /\ u.state = "canceled",
         t.act # a => x = w
  PROVE  Fit(u, x, j, o, a)
<1>1. t.act \in Nat /\ u.act \in Nat /\ a \in Nat
  BY DEF Tokens, Act
<1>2. /\ u.state \notin SignalStates /\ u.state # "waiting_work_item"
      /\ u.state # "waiting_approval"
  BY DEF SignalStates, TerminalTokenStates
<1>3. u.act = t.act => u.state \notin WorkingStates
  BY <1>1 DEF WorkingStates, ClaimableTokenStates, TerminalTokenStates
<1> QED
  BY <1>1, <1>2, <1>3 DEF Fit

\* The rows of a run that a step does not touch.
Apart(r) ==
  /\ token'[r] = token[r] /\ wait'[r] = wait[r] /\ item'[r] = item[r]
  /\ approval'[r] = approval[r]

\* The rows of a run after a step, in its types.
LEMMA RowTypes ==
  ASSUME TypeOK, NEW r \in Run, NEW a \in Act
  PROVE  /\ token[r] \in Tokens /\ wait[r][a] \in Waits /\ item[r][a] \in Items
         /\ approval[r][a] \in Approvals
         /\ token[r].act \in Act
BY DEF TypeOK, Tokens

\* Workers open the row their token waits for, and leave other rows as they fit.
LEMMA WorkersFit ==
  ASSUME TypeInv, TypeInv', ObligationsFit, NEW w \in Worker, WorkerStep(w)
  PROVE  \A q \in Run, a \in Act : FitAfter(q, a)
<1> USE DEF TypeInv
<1> DEFINE c == claim[w]
<1>1. ASSUME NEW r \in Run, NEW t, token' = [token EXCEPT ![r] = t],
             wait' = wait, item' = item, approval' = approval,
             token[r].state \in WorkingStates, t.state \in WorkingStates \cup TerminalTokenStates,
             t.act = token[r].act \/ t.act = token[r].act + 1
      PROVE  \A q \in Run, a \in Act : FitAfter(q, a)
  <2> SUFFICES ASSUME NEW q \in Run, NEW a \in Act PROVE FitAfter(q, a)
    OBVIOUS
  <2>1. FitAt(q, a)
    BY DEF ObligationsFit
  <2>2. CASE q # r
    BY <1>1, <2>1, <2>2 DEF FitAt, FitAfter, TypeOK
  <2>3. CASE q = r
    <3>1. token'[r] = t /\ t \in Tokens /\ token[r] \in Tokens
      BY <1>1 DEF TypeOK
    <3> QED
      BY <1>1, <2>1, <2>3, <3>1, WorkingTokenFits DEF FitAt, FitAfter
  <2> QED
    BY <2>2, <2>3
<1>2. CASE \E r \in Run : Claim(w, r)
  <2> PICK r \in Run : Claim(w, r)
    BY <1>2
  <2>1. /\ token' = [token EXCEPT ![r] = Claimed(token[r], w)]
        /\ token[r].state \in ClaimableTokenStates /\ token[r] \in Tokens
        /\ UNCHANGED <<wait, item, approval>>
    BY DEF Claim, Candidate, TypeOK, obligations
  <2>2. Claimed(token[r], w).state = "claimed" /\ Claimed(token[r], w).act = token[r].act
    BY <2>1, ClaimedRow
  <2> QED
    BY <1>1, <2>1, <2>2 DEF WorkingStates
<1>3. CASE \/ RequestChart(w) \/ RequestMessage(w) \/ LookForSignal(w)
           \/ FinalizeStale(w) \/ Abandon(w)
  <2>1. UNCHANGED <<token, wait, item, approval>>
    BY <1>3 DEF RequestChart, RequestMessage, LookForSignal, FinalizeStale, Abandon, obligations
  <2> QED
    BY <2>1 DEF ObligationsFit, FitAt, FitAfter
<1>4. CASE \/ FinalizeTerminal(w) \/ FinalizeAdvance(w) \/ FinalizeWorkItem(w)
           \/ FinalizeApproval(w) \/ FinalizeSignalWait(w) \/ FinalizeFailure(w)
  <2>1. PICK r \in Run : r = c.run
    BY <1>4, FinalizerHolds
  <2>2. /\ token[r].state = "claimed" /\ token[r].state \in WorkingStates
        /\ token[r] \in Tokens /\ token[r].act \in Act
    BY <1>4, <2>1, FinalizerHolds, RowTypes DEF WorkingStates, TypeOK, Tokens
  <2> DEFINE here == token[r].act
  <2>3. ASSUME NEW state \in TokenStates, NEW step
        PROVE  /\ Released(token[r], state, step).state = state
               /\ Released(token[r], state, step).act = here
    BY <2>2, ReleasedRow
  <2>4. CASE FinalizeTerminal(w)
    <3>1. /\ token' = [token EXCEPT ![r] = Released(token[r], "completed", 0)]
          /\ UNCHANGED <<wait, item, approval>>
      BY <2>1, <2>4 DEF FinalizeTerminal, obligations
    <3>2. "completed" \in TokenStates /\ "completed" \in TerminalTokenStates
      BY DEF TokenStates, TerminalTokenStates
    <3>3. /\ Released(token[r], "completed", 0).state = "completed"
          /\ Released(token[r], "completed", 0).act = token[r].act
      BY <2>3, <3>2
    <3> QED
      BY <1>1, <2>2, <3>1, <3>2, <3>3
  <2>5. CASE FinalizeAdvance(w)
    <3>1. PICK h : token' = [token EXCEPT ![r] = Advanced(token[r], h)]
      BY <2>1, <2>5 DEF FinalizeAdvance
    <3>2. UNCHANGED <<wait, item, approval>>
      BY <2>5 DEF FinalizeAdvance, obligations
    <3>3. Advanced(token[r], h).state = "runnable" /\ Advanced(token[r], h).act = here + 1
      BY <2>2, AdvancedRow
    <3> QED
      BY <1>1, <2>2, <3>1, <3>2, <3>3 DEF WorkingStates, ClaimableTokenStates
  <2>6. CASE FinalizeFailure(w)
    <3>1. PICK state \in {"retry_scheduled", "failed"} :
            token' = [token EXCEPT ![r] = Released(token[r], state, 0)]
      BY <2>1, <2>6 DEF FinalizeFailure
    <3>2. UNCHANGED <<wait, item, approval>>
      BY <2>6 DEF FinalizeFailure, obligations
    <3>3. state \in TokenStates /\ state \in WorkingStates \cup TerminalTokenStates
      BY DEF TokenStates, WorkingStates, ClaimableTokenStates, TerminalTokenStates
    <3> QED
      BY <1>1, <2>2, <2>3, <3>1, <3>2, <3>3
\* The token parks, and the row it waits for is opened.
  <2>7. ASSUME NEW state \in WaitingTokenStates,
               token' = [token EXCEPT ![r] = Released(token[r], state, 0)],
               \A q \in Run \ {r} : Apart(q),
               \A a \in Act \ {here} : /\ wait'[r][a] = wait[r][a] /\ item'[r][a] = item[r][a]
                                       /\ approval'[r][a] = approval[r][a],
               IF state \in SignalStates
                 THEN wait'[r][here].status = "waiting" /\ wait'[r][here].replay = FALSE
                 ELSE wait'[r] = wait[r],
               IF state = "waiting_work_item" THEN item'[r][here].status = "pending"
                                              ELSE item'[r] = item[r],
               IF state = "waiting_approval" THEN approval'[r][here].status = "pending"
                                             ELSE approval'[r] = approval[r]
        PROVE  \A q \in Run, a \in Act : FitAfter(q, a)
    <3> SUFFICES ASSUME NEW q \in Run, NEW a \in Act PROVE FitAfter(q, a)
      OBVIOUS
    <3>1. FitAt(q, a) /\ FitAt(r, a)
      BY DEF ObligationsFit
    <3>2. CASE q # r
      BY <2>7, <3>1, <3>2 DEF Apart, FitAt, FitAfter
    <3>3. token'[r].state = state /\ token'[r].act = here
      BY <2>3, <2>7 DEF TypeOK, TokenStates
    <3>4. here \in Nat /\ a \in Nat
      BY <2>2 DEF Act
    <3>5. /\ wait[r][here].status = "none" /\ item[r][here].status \notin ActiveItemStatuses
          /\ approval[r][here].status \notin OpenApprovalStatuses
      BY <2>2 DEF ObligationsFit, FitAt, Fit
    <3>6. /\ "pending" \in ActiveItemStatuses /\ "pending" \in OpenApprovalStatuses
          /\ state \notin WorkingStates
      BY DEF ActiveItemStatuses, OpenApprovalStatuses, WorkingStates, ClaimableTokenStates,
             WaitingTokenStates
    <3>7. CASE q = r /\ a # here
      BY <2>2, <2>7, <3>1, <3>3, <3>4, <3>7 DEF FitAt, FitAfter, Fit
    <3>8. CASE q = r /\ a = here
      <4>1. CASE state \in SignalStates
        <5>1. state # "waiting_work_item" /\ state # "waiting_approval"
          BY <4>1 DEF SignalStates
        <5>2. item'[r] = item[r] /\ approval'[r] = approval[r]
          BY <2>7, <5>1
        <5>3. wait'[r][here].status = "waiting" /\ wait'[r][here].replay = FALSE
          BY <2>7, <4>1
        <5> QED
          BY <3>3, <3>4, <3>5, <3>6, <3>8, <4>1, <5>1, <5>2, <5>3 DEF FitAfter, Fit
      <4>2. CASE state = "waiting_work_item"
        BY <2>7, <3>3, <3>5, <3>6, <3>8, <4>2 DEF FitAfter, Fit, SignalStates
      <4>3. CASE state = "waiting_approval"
        BY <2>7, <3>3, <3>5, <3>6, <3>8, <4>3 DEF FitAfter, Fit, SignalStates
      <4> QED
        BY <4>1, <4>2, <4>3 DEF WaitingTokenStates, SignalStates
    <3> QED
      BY <3>2, <3>7, <3>8
  <2>8. CASE FinalizeWorkItem(w)
    <3>1. /\ token' = [token EXCEPT ![r] = Released(token[r], "waiting_work_item", 0)]
          /\ item' = [item EXCEPT ![r][here] = [status |-> "pending", rev |-> 1]]
          /\ wait' = wait /\ approval' = approval
      BY <2>1, <2>8 DEF FinalizeWorkItem, ParksToken
    <3>2. \A q \in Run \ {r} : Apart(q)
      BY <3>1 DEF Apart, TypeOK
    <3>3. /\ \A a \in Act \ {here} : item'[r][a] = item[r][a]
          /\ item'[r][here].status = "pending"
      BY <2>2, <3>1 DEF TypeOK
    <3> QED
      BY <2>7, <3>1, <3>2, <3>3 DEF WaitingTokenStates, SignalStates
  <2>9. CASE FinalizeApproval(w)
    <3>1. PICK deadline :
          /\ token' = [token EXCEPT ![r] = Released(token[r], "waiting_approval", 0)]
          /\ approval' = [approval EXCEPT ![r][here] =
               [status |-> "pending", rev |-> 1, deadline |-> deadline]]
          /\ wait' = wait /\ item' = item
      BY <2>1, <2>9 DEF FinalizeApproval, ParksToken
    <3>2. \A q \in Run \ {r} : Apart(q)
      BY <3>1 DEF Apart, TypeOK
    <3>3. /\ \A a \in Act \ {here} : approval'[r][a] = approval[r][a]
          /\ approval'[r][here].status = "pending"
      BY <2>2, <3>1 DEF TypeOK
    <3> QED
      BY <2>7, <3>1, <3>2, <3>3 DEF WaitingTokenStates, SignalStates
  <2>10. CASE FinalizeSignalWait(w)
    <3>1. item' = item /\ approval' = approval
      BY <2>10 DEF FinalizeSignalWait
    <3>2. \/ /\ \E state \in SignalStates :
                  token' = [token EXCEPT ![r] = Released(token[r], state, 0)]
             /\ wait' = [wait EXCEPT ![r][here] =
                  [status |-> "waiting", gen |-> c.gen, replay |-> FALSE]]
          \/ /\ \E outcome : token' = [token EXCEPT ![r] = SignaledToken(token[r], outcome)]
             /\ \E replay : wait' = [wait EXCEPT ![r][here] =
                  [status |-> "consumed", gen |-> c.gen, replay |-> replay]]
      BY <2>1, <2>10 DEF FinalizeSignalWait, ParksToken, SignalStates
    <3>3. CASE /\ \E state \in SignalStates :
                    token' = [token EXCEPT ![r] = Released(token[r], state, 0)]
               /\ wait' = [wait EXCEPT ![r][here] =
                    [status |-> "waiting", gen |-> c.gen, replay |-> FALSE]]
      <4>1. \A q \in Run \ {r} : Apart(q)
        BY <3>1, <3>3 DEF Apart, TypeOK
      <4>2. /\ \A a \in Act \ {here} : wait'[r][a] = wait[r][a]
            /\ wait'[r][here].status = "waiting" /\ wait'[r][here].replay = FALSE
        BY <2>2, <3>3 DEF TypeOK
      <4> QED
        BY <2>7, <3>1, <3>3, <4>1, <4>2 DEF WaitingTokenStates, SignalStates
    <3>4. CASE /\ \E outcome : token' = [token EXCEPT ![r] = SignaledToken(token[r], outcome)]
               /\ \E replay : wait' = [wait EXCEPT ![r][here] =
                    [status |-> "consumed", gen |-> c.gen, replay |-> replay]]
      <4> SUFFICES ASSUME NEW q \in Run, NEW a \in Act PROVE FitAfter(q, a)
        OBVIOUS
      <4>1. FitAt(q, a)
        BY DEF ObligationsFit
      <4>2. CASE q # r
        BY <3>1, <3>4, <4>1, <4>2 DEF FitAt, FitAfter, TypeOK
      <4>3. CASE q = r
        <5>1. \/ token'[r].state = "runnable" /\ token'[r].act = here + 1
              \/ token'[r].state \in TerminalTokenStates /\ token'[r].act = here
          <6> PICK outcome : token' = [token EXCEPT ![r] = SignaledToken(token[r], outcome)]
            BY <3>4
          <6> QED
            BY <2>2, AdvancedRow, ReleasedRow DEF TypeOK, SignaledToken, TerminalTokenStates
        <5>2. /\ a # here => wait'[r][a] = wait[r][a]
              /\ wait'[r][here].status = "consumed"
          BY <2>2, <3>4 DEF TypeOK
        <5>3. /\ wait'[r][a].status # "waiting" /\ item[r][a].status \notin ActiveItemStatuses
              /\ approval[r][a].status \notin OpenApprovalStatuses
          BY <2>2, <4>1, <4>3, <5>2 DEF FitAt, Fit, SignalStates
        <5>4. token'[r] \in Tokens
          BY DEF TypeOK
        <5>5. Fit(token[r], wait[r][a], item[r][a], approval[r][a], a)
          BY <4>1, <4>3 DEF FitAt
        <5>6. token[r].act # a => wait'[r][a] = wait[r][a]
          BY <5>2
        <5>7. Fit(token'[r], wait'[r][a], item[r][a], approval[r][a], a)
          BY <2>2, <5>1, <5>3, <5>4, <5>5, <5>6, ClosedRowFits
        <5> QED
          BY <3>1, <4>3, <5>7 DEF FitAfter
      <4> QED
        BY <4>2, <4>3
    <3> QED
      BY <3>2, <3>3, <3>4
  <2> QED
    BY <1>4, <2>4, <2>5, <2>6, <2>8, <2>9, <2>10
<1> QED
  BY <1>2, <1>3, <1>4 DEF WorkerStep

\* A cancelled run keeps no open wait and no active work item.
LEMMA CancelsFit ==
  ASSUME TypeInv, TypeInv', RunTokenCoherent, ObligationsFit, NEW runs \in SUBSET Run,
         CancelsRuns(runs), approval' = approval,
         \A r \in runs : ~Ended(r) /\ token[r].state # "waiting_external"
  PROVE  \A q \in Run, a \in Act : FitAfter(q, a)
<1> USE DEF TypeInv
<1> SUFFICES ASSUME NEW q \in Run, NEW a \in Act PROVE FitAfter(q, a)
  OBVIOUS
<1>1. FitAt(q, a)
  BY DEF ObligationsFit
<1>2. CASE q \notin runs
  BY <1>1, <1>2 DEF CancelsRuns, FitAt, FitAfter
<1>3. CASE q \in runs
  <2> DEFINE t == token[q]
  <2>1. /\ t \in Tokens /\ t.act \in Act /\ token'[q] \in Tokens
        /\ wait[q] \in [Act -> Waits] /\ item[q] \in [Act -> Items]
    BY DEF TypeOK, Tokens
  <2>2. token'[q] = Released(t, "canceled", 1)
    BY <1>3 DEF CancelsRuns
  <2>3. token'[q].state = "canceled" /\ token'[q].act = t.act
    BY <2>1, <2>2, ReleasedRow
  <2>4. wait'[q] = CanceledWait(q) /\ item'[q] = CanceledItems(q)
    BY <1>3 DEF CancelsRuns
  <2>5. /\ a # t.act => wait'[q][a] = wait[q][a]
        /\ wait'[q][t.act].status # "waiting"
    BY <2>1, <2>4 DEF CanceledWait, Waits
  <2>6. item'[q][a].status \notin ActiveItemStatuses
    BY <2>1, <2>4 DEF CanceledItems, ActiveItemStatuses
  <2>7. wait'[q][a].status # "waiting"
    BY <1>1, <2>5 DEF FitAt, Fit
  <2>8. approval'[q][a] = approval[q][a]
    OBVIOUS
  <2>9. token'[q].state \in TerminalTokenStates
    BY <2>3 DEF TerminalTokenStates
  <2>10. Fit(t, wait[q][a], item[q][a], approval[q][a], a)
    BY <1>1 DEF FitAt
  <2> HIDE DEF t
  <2>11. Fit(token'[q], wait'[q][a], item'[q][a], approval[q][a], a)
    BY <2>1, <2>3, <2>5, <2>6, <2>7, <2>9, <2>10, ClosedRowFits
  <2> QED
    BY <2>8, <2>11 DEF FitAfter
<1> QED
  BY <1>2, <1>3

\* Recovery, quarantine, time and the owner leave the rows as they fit.
LEMMA TokenStepsFit ==
  ASSUME TypeInv, TypeInv', RunTokenCoherent, ObligationsFit, NEW r \in Run, TokenStep(r)
  PROVE  \A q \in Run, a \in Act : FitAfter(q, a)
<1> USE DEF TypeInv
<1>1. CASE CancelRun(r)
  BY <1>1, CancelsFit DEF CancelRun, Ended
<1>2. CASE \/ QuarantinePoisonCandidate(r) \/ LeaseElapses(r) \/ ClockStepsBack(r)
           \/ RecoverExpired(r) \/ QuarantineExpiredClaim(r)
  <2>1. /\ token[r] \in Tokens /\ token[r].state \in WorkingStates
        /\ wait' = wait /\ item' = item /\ approval' = approval
    BY <1>2 DEF QuarantinePoisonCandidate, LeaseElapses, ClockStepsBack, RecoverExpired,
                QuarantineExpiredClaim, Candidate, Expired, WorkingStates, TypeOK, obligations
  <2>2. PICK t : /\ token' = [token EXCEPT ![r] = t]
                 /\ \/ \E state \in {"retry_scheduled", "failed"}, step \in {0, 1} :
                         t = Released(token[r], state, step)
                    \/ /\ token[r].state = "claimed"
                       /\ \E lease \in {"elapsed", "future"} :
                            t = [token[r] EXCEPT !.lease = lease]
    BY <1>2 DEF QuarantinePoisonCandidate, LeaseElapses, ClockStepsBack, RecoverExpired,
                QuarantineExpiredClaim
  <2>3. t.act = token[r].act /\ t.state \in {"retry_scheduled", "failed", "claimed"}
    <3>1. CASE \E state \in {"retry_scheduled", "failed"}, step \in {0, 1} :
                 t = Released(token[r], state, step)
      BY <2>1, <3>1, ReleasedRow
    <3>2. CASE token[r].state = "claimed" /\ \E lease \in {"elapsed", "future"} :
                 t = [token[r] EXCEPT !.lease = lease]
      BY <2>1, <3>2 DEF Tokens
    <3> QED
      BY <2>2, <3>1, <3>2
  <2>4. t.state \in WorkingStates \cup TerminalTokenStates
    BY <2>3 DEF WorkingStates, ClaimableTokenStates, TerminalTokenStates
  <2> SUFFICES ASSUME NEW q \in Run, NEW a \in Act PROVE FitAfter(q, a)
    OBVIOUS
  <2>5. FitAt(q, a)
    BY DEF ObligationsFit
  <2>6. CASE q # r
    BY <2>1, <2>2, <2>5, <2>6 DEF FitAt, FitAfter, TypeOK
  <2>7. CASE q = r
    <3>1. token'[r] = t /\ t \in Tokens
      BY <2>2 DEF TypeOK
    <3> QED
      BY <2>1, <2>3, <2>4, <2>5, <2>7, <3>1, WorkingTokenFits DEF FitAt, FitAfter
  <2> QED
    BY <2>6, <2>7
<1>3. CASE CommitSignal(r) \/ RollbackSignal(r)
  BY <1>3 DEF CommitSignal, RollbackSignal, ObligationsFit, FitAt, FitAfter, obligations
<1> QED
  BY <1>1, <1>2, <1>3 DEF TokenStep

\* Row u of a token that moves on from t, along an edge or by a signal.
MovesOn(t, u) ==
  (\E h : u = Advanced(t, h)) \/ (\E outcome : u = SignaledToken(t, outcome))

\* No row is touched but those of activation a of run r.
OnlyAt(r, a) ==
  /\ \A q \in Run \ {r} : wait'[q] = wait[q] /\ item'[q] = item[q] /\ approval'[q] = approval[q]
  /\ \A b \in Act \ {a} : /\ wait'[r][b] = wait[r][b] /\ item'[r][b] = item[r][b]
                          /\ approval'[r][b] = approval[r][b]

\* An obligation is met: its row is closed in the step that moves the token.
LEMMA MetFits ==
  ASSUME TypeInv, TypeInv', ObligationsFit, NEW r \in Run, NEW a \in Act, NEW u,
         token' = [token EXCEPT ![r] = u],
         MovesOn(token[r], u), token[r].act = a, OnlyAt(r, a),
         wait'[r][a].status # "waiting", item'[r][a].status \notin ActiveItemStatuses,
         approval'[r][a].status \notin OpenApprovalStatuses
  PROVE  \A q \in Run, b \in Act : FitAfter(q, b)
<1> USE DEF TypeInv
<1> SUFFICES ASSUME NEW q \in Run, NEW b \in Act PROVE FitAfter(q, b)
  OBVIOUS
<1>1. FitAt(q, b)
  BY DEF ObligationsFit
<1>2. CASE q # r
  BY <1>1, <1>2 DEF FitAt, FitAfter, TypeOK, OnlyAt
<1>3. CASE q = r
  <2>1. token[r] \in Tokens /\ token'[r] = u /\ u \in Tokens
    BY DEF TypeOK
  <2>2. \/ u.state = "runnable" /\ u.act = token[r].act + 1
        \/ u.state \in TerminalTokenStates /\ u.act = token[r].act
    BY <2>1, AdvancedRow, ReleasedRow DEF MovesOn, SignaledToken, TerminalTokenStates
  <2>3. /\ wait'[r][b].status # "waiting" /\ item'[r][b].status \notin ActiveItemStatuses
        /\ approval'[r][b].status \notin OpenApprovalStatuses
    BY <1>1, <1>3 DEF FitAt, Fit, OnlyAt
  <2>4. Fit(token[r], wait[r][b], item[r][b], approval[r][b], b)
    BY <1>1, <1>3 DEF FitAt
  <2>5. token[r].act # b => wait'[r][b] = wait[r][b]
    BY DEF OnlyAt
  <2>6. Fit(u, wait'[r][b], item'[r][b], approval'[r][b], b)
    BY <2>1, <2>2, <2>3, <2>4, <2>5, ClosedRowFits
  <2> QED
    BY <1>3, <2>1, <2>6 DEF FitAfter
<1> QED
  BY <1>2, <1>3

\* An approval changes its status.
LEMMA ApprovalRows ==
  ASSUME TypeOK, NEW r \in Run, NEW a \in Act, NEW status, ApprovalBecomes(r, a, status)
  PROVE  /\ \A q \in Run \ {r} : approval'[q] = approval[q]
         /\ \A b \in Act \ {a} : approval'[r][b] = approval[r][b]
         /\ approval'[r][a].status = status
<1> DEFINE row == [approval[r][a] EXCEPT !.status = status, !.rev = @ + 1]
<1>1. approval[r][a] \in Approvals
  BY DEF TypeOK
<1>2. row.status = status
  BY <1>1 DEF Approvals
<1>3. approval' = [approval EXCEPT ![r] = [approval[r] EXCEPT ![a] = row]]
  BY DEF ApprovalBecomes, TypeOK
<1> HIDE DEF row
<1> QED
  BY <1>2, <1>3 DEF TypeOK

\* A step on an obligation closes it as the token moves, or keeps it open.
LEMMA ObligationStepsFit ==
  ASSUME TypeInv, TypeInv', ObligationsFit, NEW r \in Run, NEW a \in Act, ObligationStep(r, a)
  PROVE  \A q \in Run, b \in Act : FitAfter(q, b)
<1> USE DEF TypeInv
<1>0. /\ FitAt(r, a) /\ token[r] \in Tokens /\ wait[r][a] \in Waits
      /\ item[r][a] \in Items /\ approval[r][a] \in Approvals
  BY DEF ObligationsFit, TypeOK
<1>1. ASSUME UNCHANGED <<token, wait, item, approval>>
      PROVE  \A q \in Run, b \in Act : FitAfter(q, b)
  BY <1>1 DEF ObligationsFit, FitAt, FitAfter
\* A work item or an approval moves while the token waits for it.
<1>2. ASSUME UNCHANGED <<token, wait, approval>>, NEW i, item' = [item EXCEPT ![r][a] = i],
             i.status \in ActiveItemStatuses, item[r][a].status \in ActiveItemStatuses
      PROVE  \A q \in Run, b \in Act : FitAfter(q, b)
  <2> SUFFICES ASSUME NEW q \in Run, NEW b \in Act PROVE FitAfter(q, b)
    OBVIOUS
  <2>1. FitAt(q, b)
    BY DEF ObligationsFit
  <2>2. item'[q][b] = IF q = r /\ b = a THEN i ELSE item[q][b]
    BY <1>2 DEF TypeOK
  <2> QED
    BY <1>0, <1>2, <2>1, <2>2 DEF FitAt, FitAfter, Fit
<1>3. ASSUME UNCHANGED <<token, wait, item>>,
             \A q \in Run, b \in Act :
               approval'[q][b].status \in OpenApprovalStatuses
                 <=> approval[q][b].status \in OpenApprovalStatuses
      PROVE  \A q \in Run, b \in Act : FitAfter(q, b)
  <2> SUFFICES ASSUME NEW q \in Run, NEW b \in Act PROVE FitAfter(q, b)
    OBVIOUS
  <2>1. FitAt(q, b)
    BY DEF ObligationsFit
  <2> QED
    BY <1>3, <2>1 DEF FitAt, FitAfter, Fit
<1>4. CASE JobEnds(r, a)
  BY <1>1, <1>4 DEF JobEnds, obligations
<1>5. CASE \E g \in DOMAIN job[r][a] : IngestSignal(r, a, g)
  <2> PICK g \in DOMAIN job[r][a] : IngestSignal(r, a, g)
    BY <1>5
  <2>1. item' = item /\ approval' = approval
    BY DEF IngestSignal
  <2>2. CASE UNCHANGED <<token, run, trace, wait>>
    BY <1>1, <2>1, <2>2
  <2>3. CASE ~UNCHANGED <<token, run, trace, wait>>
    <3>1. /\ wait[r][a].status = "waiting"
          /\ \E outcome : token' = [token EXCEPT ![r] = SignaledToken(token[r], outcome)]
          /\ wait' = [wait EXCEPT ![r][a].status = "consumed"]
      BY <2>3 DEF IngestSignal
    <3>2. /\ token[r].act = a /\ item[r][a].status \notin ActiveItemStatuses
          /\ approval[r][a].status \notin OpenApprovalStatuses
      BY <1>0, <3>1 DEF FitAt, Fit, SignalStates
    <3>3. /\ wait'[r][a].status # "waiting"
          /\ \A b \in Act \ {a} : wait'[r][b] = wait[r][b]
          /\ \A q \in Run \ {r} : wait'[q] = wait[q]
      BY <1>0, <3>1 DEF TypeOK, Waits
    <3>4. PICK outcome : token' = [token EXCEPT ![r] = SignaledToken(token[r], outcome)]
      BY <3>1
    <3>5. MovesOn(token[r], SignaledToken(token[r], outcome))
      BY DEF MovesOn
    <3>6. OnlyAt(r, a)
      BY <2>1, <3>3 DEF OnlyAt
    <3>7. /\ item'[r][a].status \notin ActiveItemStatuses
          /\ approval'[r][a].status \notin OpenApprovalStatuses
      BY <2>1, <3>2
    <3> QED
      BY <3>2, <3>3, <3>4, <3>5, <3>6, <3>7, MetFits
  <2> QED
    BY <2>2, <2>3
<1>6. CASE WorkItemCommand(r, a)
  <2>1. PICK status \in ActiveItemStatuses :
          item' = [item EXCEPT ![r][a] = [status |-> status, rev |-> item[r][a].rev + 1]]
    BY <1>6 DEF WorkItemCommand, ItemBecomes, ActiveItemStatuses
  <2>2. UNCHANGED <<token, wait, approval>> /\ item[r][a].status \in ActiveItemStatuses
    BY <1>6 DEF WorkItemCommand
  <2>3. [status |-> status, rev |-> item[r][a].rev + 1].status \in ActiveItemStatuses
    OBVIOUS
  <2> QED
    BY <1>2, <2>1, <2>2, <2>3
<1>7. CASE WakeWorkItem(r, a)
  <2>1. item' = [item EXCEPT ![r][a] = [status |-> "pending", rev |-> item[r][a].rev + 1]]
    BY <1>7 DEF WakeWorkItem, ItemBecomes
  <2>2. UNCHANGED <<token, wait, approval>> /\ item[r][a].status \in ActiveItemStatuses
    BY <1>7 DEF WakeWorkItem, ActiveItemStatuses
  <2> QED
    BY <1>2, <2>1, <2>2 DEF ActiveItemStatuses
<1>8. CASE CompleteWorkItem(r, a)
  <2>1. /\ token[r].act = a /\ token[r].state = "waiting_work_item"
        /\ wait' = wait /\ approval' = approval
        /\ item' = [item EXCEPT ![r][a] = [status |-> "completed", rev |-> item[r][a].rev + 1]]
        /\ token' = [token EXCEPT ![r] = Advanced(token[r], "success")]
    BY <1>8 DEF CompleteWorkItem, ItemRuntimeCoherent, ItemBecomes
  <2>2. /\ item'[r][a].status \notin ActiveItemStatuses
        /\ \A b \in Act \ {a} : item'[r][b] = item[r][b]
        /\ \A q \in Run \ {r} : item'[q] = item[q]
    BY <2>1 DEF TypeOK, ActiveItemStatuses
  <2>3. wait[r][a].status # "waiting" /\ approval[r][a].status \notin OpenApprovalStatuses
    BY <1>0, <2>1 DEF FitAt, Fit, SignalStates
  <2>4. MovesOn(token[r], Advanced(token[r], "success"))
    BY DEF MovesOn
  <2>5. OnlyAt(r, a)
    BY <2>1, <2>2 DEF OnlyAt
  <2>6. wait'[r][a].status # "waiting" /\ approval'[r][a].status \notin OpenApprovalStatuses
    BY <2>1, <2>3
  <2> QED
    BY <2>1, <2>2, <2>4, <2>5, <2>6, MetFits
<1>9. ASSUME NEW handle, NEW status \in {"approved", "rejected", "expired"}, NEW type,
             AdvancesApproval(r, a, handle, status, type)
      PROVE  \A q \in Run, b \in Act : FitAfter(q, b)
  <2>1. /\ token[r].act = a /\ token[r].state = "waiting_approval"
        /\ wait' = wait /\ item' = item
        /\ token' = [token EXCEPT ![r] = Advanced(token[r], handle)]
    BY <1>9 DEF AdvancesApproval, ApprovalRuntimeCoherent
  <2>2. /\ approval'[r][a].status = status
        /\ \A b \in Act \ {a} : approval'[r][b] = approval[r][b]
        /\ \A q \in Run \ {r} : approval'[q] = approval[q]
    BY <1>9, ApprovalRows DEF AdvancesApproval
  <2>3. wait[r][a].status # "waiting" /\ item[r][a].status \notin ActiveItemStatuses
    BY <1>0, <2>1 DEF FitAt, Fit, SignalStates
  <2>4. status \notin OpenApprovalStatuses
    BY DEF OpenApprovalStatuses
  <2>5. MovesOn(token[r], Advanced(token[r], handle))
    BY DEF MovesOn
  <2>6. OnlyAt(r, a)
    BY <2>1, <2>2 DEF OnlyAt
  <2>7. /\ wait'[r][a].status # "waiting" /\ item'[r][a].status \notin ActiveItemStatuses
        /\ approval'[r][a].status \notin OpenApprovalStatuses
    BY <2>1, <2>2, <2>3, <2>4
  <2> QED
    BY <2>1, <2>5, <2>6, <2>7, MetFits
<1>10. CASE DecideApproval(r, a) \/ ExpireApproval(r, a)
  BY <1>9, <1>10 DEF DecideApproval, ExpireApproval
<1>11. CASE SnoozeApproval(r, a) \/ WakeApproval(r, a) \/ DeadlinePasses(r, a)
  <2>1. UNCHANGED <<token, wait, item>>
    BY <1>11 DEF SnoozeApproval, WakeApproval, DeadlinePasses
  <2>2. CASE DeadlinePasses(r, a)
    <3>1. approval' = [approval EXCEPT ![r][a].deadline = "passed"]
      BY <2>2 DEF DeadlinePasses
    <3>2. \A q \in Run, b \in Act : approval'[q][b].status = approval[q][b].status
      BY <3>1 DEF TypeOK, Approvals
    <3> QED
      BY <1>3, <2>1, <3>2
  <2>3. CASE SnoozeApproval(r, a) \/ WakeApproval(r, a)
    <3>1. /\ approval[r][a].status \in OpenApprovalStatuses
          /\ \E status \in OpenApprovalStatuses : ApprovalBecomes(r, a, status)
      BY <2>3 DEF SnoozeApproval, WakeApproval, OpenApprovalStatuses
    <3>2. PICK status \in OpenApprovalStatuses : ApprovalBecomes(r, a, status)
      BY <3>1
    <3>3. \A q \in Run, b \in Act :
            approval'[q][b].status = IF q = r /\ b = a THEN status ELSE approval[q][b].status
      BY <3>2, ApprovalRows
    <3> QED
      BY <1>3, <2>1, <3>1, <3>3
  <2> QED
    BY <1>11, <2>2, <2>3
<1> QED
  BY <1>4, <1>5, <1>6, <1>7, <1>8, <1>10, <1>11 DEF ObligationStep

\* Token and obligations fit in every reachable state.
LEMMA ObligationsStayFit == Spec => []ObligationsFit
<1>1. Init => ObligationsFit
  BY DEF Init, ObligationsFit, FitAt, Fit, SignalStates, ActiveItemStatuses, OpenApprovalStatuses
<1>2. TypeInv /\ TypeInv' /\ RunTokenCoherent /\ ObligationsFit /\ [Next]_vars => ObligationsFit'
  <2> SUFFICES ASSUME TypeInv, TypeInv', RunTokenCoherent, ObligationsFit, [Next]_vars
               PROVE  \A q \in Run, a \in Act : FitAfter(q, a)
    BY DEF ObligationsFit, FitAt, FitAfter
  <2>1. CASE BookingCancel
    <3>1. OpenBookingRuns \in SUBSET Run
      BY GraphAssumption DEF OpenBookingRuns
    <3>2. \A r \in OpenBookingRuns : ~Ended(r) /\ token[r].state # "waiting_external"
      BY <2>1 DEF BookingCancel, OpenBookingRuns, Ended
    <3> QED
      BY <2>1, <3>1, <3>2, CancelsFit DEF BookingCancel
  <2>2. CASE BookingReschedule
    <3> SUFFICES ASSUME NEW q \in Run, NEW a \in Act PROVE FitAfter(q, a)
      OBVIOUS
    <3>1. FitAt(q, a) /\ UNCHANGED <<token, wait, approval>>
      BY <2>2 DEF ObligationsFit, BookingReschedule
    <3>2. /\ token[q].act \in Act /\ item[q] \in [Act -> Items]
      BY DEF TypeInv, TypeOK, Tokens
    <3>3. PICK due, woken :
            /\ \A r \in woken : item[r][token[r].act].status = "snoozed"
            /\ item' = [r \in Run |-> IF r \in due
                 THEN [item[r] EXCEPT ![token[r].act] =
                         [status |-> IF r \in woken THEN "pending" ELSE @.status,
                          rev |-> @.rev + 1]]
                 ELSE item[r]]
      BY <2>2 DEF BookingReschedule
    <3>4. (item'[q][a].status \in ActiveItemStatuses) <=> (item[q][a].status \in ActiveItemStatuses)
      <4>1. CASE q \notin due \/ a # token[q].act
        BY <3>2, <3>3, <4>1
      <4>2. CASE q \in due /\ a = token[q].act
        <5>1. item'[q][a].status = IF q \in woken THEN "pending" ELSE item[q][a].status
          BY <3>2, <3>3, <4>2
        <5> QED
          BY <3>3, <4>2, <5>1 DEF ActiveItemStatuses
      <4> QED
        BY <4>1, <4>2
    <3> QED
      BY <3>1, <3>4 DEF FitAt, FitAfter, Fit
  <2>3. CASE UNCHANGED vars
    BY <2>3 DEF vars, ObligationsFit, FitAt, FitAfter
  <2> QED
    BY <2>1, <2>2, <2>3, WorkersFit, TokenStepsFit, ObligationStepsFit DEF Next
<1> QED
  BY <1>1, <1>2, TypesHold, RowsStayCoherent, PTL DEF Spec

\* ObligationMatchesToken: a token waits exactly while the row it waits for is
\* open, in the same activation, so no run is left waiting for nothing and no
\* open row can resume another activation.
THEOREM ObligationsMatch == Spec => []ObligationMatchesToken
<1>1. ObligationsFit => ObligationMatchesToken
  BY DEF ObligationsFit, FitAt, Fit, SignalStates, ObligationMatchesToken
<1> QED
  BY <1>1, ObligationsStayFit, PTL

(***************************************************************************)
(* Signals and waits.                                                      *)
(***************************************************************************)
\* Every signal for job g of activation a that nobody has taken was ingested
\* while a finalize that looked for it was under way.
OnlyRaced(box, a, g) ==
  \A s \in box : s.act = a /\ s.gen = g /\ s.state # "consumed" => s.raced

\* What wait row w of activation a and the inbox of its run have to do with
\* each other: SignalsMeetWaits of one activation.
Meets(w, box, a) ==
  /\ w.status = "waiting" => OnlyRaced(box, a, w.gen)
  /\ (w.status = "consumed") <=> (\E s \in box : s.act = a /\ s.state = "consumed")
  /\ \A s, u \in box :
       s.act = a /\ u.act = a /\ s.state = "consumed" /\ u.state = "consumed" => s = u

\* A worker that has looked in vain and still holds its token: whatever has come
\* since, or was on its way, is marked.
LookFits(w) ==
  claim[w] # NoClaim /\ claim[w].looked =>
    /\ claim[w].answer = "queued"
    /\ HoldsToken(w) => OnlyRaced(inbox[claim[w].run], claim[w].act, claim[w].gen)

\* SignalsMeetWaits, and what a finalize relies on that commits its wait open.
MeetingsFit ==
  /\ \A r \in Run, a \in Act : Meets(wait[r][a], inbox[r], a)
  /\ \A w \in Worker : LookFits(w)

\* The rows of activation a of run r meet after the step.
MeetAfter(r, a) == Meets(wait'[r][a], inbox'[r], a)

\* A signal for another activation is stored, or marked as consumed.
LEMMA OtherSignalMeets ==
  ASSUME NEW w, NEW box, NEW more, NEW a, Meets(w, box, a),
         {s \in more : s.act = a} = {s \in box : s.act = a}
  PROVE  Meets(w, more, a)
<1>1. \A s : s.act = a => (s \in more <=> s \in box)
  OBVIOUS
<1> QED
  BY <1>1 DEF Meets, OnlyRaced

\* A stored signal that its wait, if there is one, could not take, or whose
\* ingest raced with the finalize that opened the wait.
LEMMA StoredMeets ==
  ASSUME NEW w, NEW box, NEW s, NEW a, Meets(w, box, a), s.state # "consumed",
         w.status = "waiting" /\ s.act = a /\ s.gen = w.gen => s.raced
  PROVE  Meets(w, box \cup {s}, a)
BY DEF Meets, OnlyRaced

\* The one signal that a wait takes, as it opens or later.
LEMMA TakenMeets ==
  ASSUME NEW w, NEW x, NEW box, NEW s, NEW a, Meets(w, box, a), w.status # "consumed",
         x.status = "consumed", s.act = a, s.state = "consumed"
  PROVE  Meets(x, box \cup {s}, a)
BY DEF Meets

\* A signal that was not consumed is taken out of the inbox.
LEMMA SmallerMeets ==
  ASSUME NEW w, NEW box, NEW s, NEW a, Meets(w, box, a), s.state # "consumed"
  PROVE  Meets(w, box \ {s}, a)
BY DEF Meets, OnlyRaced

\* A wait that opens finds only signals that raced with it, or is closed unmet.
LEMMA OpenedMeets ==
  ASSUME NEW w, NEW x, NEW box, NEW a, Meets(w, box, a), w.status # "consumed",
         x.status # "consumed", x.status = "waiting" => OnlyRaced(box, a, x.gen)
  PROVE  Meets(x, box, a)
BY DEF Meets

\* A cancellation closes the waits of its runs unmet.
LEMMA CancelMeets ==
  ASSUME TypeOK, MeetingsFit, NEW runs, CancelsRuns(runs), inbox' = inbox
  PROVE  \A r \in Run, a \in Act : MeetAfter(r, a)
<1> SUFFICES ASSUME NEW r \in Run, NEW a \in Act PROVE Meets(wait'[r][a], inbox'[r], a)
  BY DEF MeetAfter
<1>1. Meets(wait[r][a], inbox[r], a)
  BY DEF MeetingsFit
<1>2. /\ wait[r] \in [Act -> Waits] /\ wait[r][a] \in Waits /\ wait[r][token[r].act] \in Waits
      /\ token[r].act \in Act
  BY DEF TypeOK, Tokens
<1>3. \/ wait'[r][a] = wait[r][a]
      \/ wait[r][a].status = "waiting" /\ wait'[r][a].status = "canceled"
  <2>1. CASE r \notin runs
    BY <2>1 DEF CancelsRuns
  <2>2. CASE r \in runs
    <3>1. wait'[r] = CanceledWait(r)
      BY <2>2 DEF CancelsRuns
    <3> QED
      BY <1>2, <3>1 DEF CanceledWait, Waits
  <2> QED
    BY <2>1, <2>2
<1>4. wait[r][a].status = "waiting" => wait[r][a].status # "consumed"
  OBVIOUS
<1>5. wait'[r][a].status = "canceled" =>
        wait'[r][a].status # "consumed" /\ wait'[r][a].status # "waiting"
  OBVIOUS
<1> QED
  BY <1>1, <1>3, <1>4, <1>5, OpenedMeets

\* A look marks rows of the inbox, which leaves every wait as it meets them.
LEMMA LookMeets ==
  ASSUME TypeInv, MeetingsFit, NEW w \in Worker, LookForSignal(w)
  PROVE  /\ \A r \in Run, a \in Act : MeetAfter(r, a)
         /\ OnlyRaced(inbox'[claim[w].run], claim[w].act, claim[w].gen)
<1> DEFINE c == claim[w]
           raced(s) == s.raced \/ (s.act = c.act /\ s.gen = c.gen /\ s.state = "inserted")
           marked(s) == [s EXCEPT !.raced = raced(s)]
<1>1. c # NoClaim /\ HoldsToken(w)
  BY DEF LookForSignal, OpensWait, CanFinalize
<1>2. PICK q \in Run : q = c.run
  BY <1>1, HeldClaim DEF TypeInv
<1>3. /\ inbox' = [inbox EXCEPT ![q] = {marked(s) : s \in inbox[q]}]
      /\ wait' = wait /\ StoredSignals(q, c.gen) = {}
  BY <1>2 DEF LookForSignal, obligations
<1>4. inbox[q] \in SUBSET Signals /\ inbox \in [Run -> SUBSET Signals]
  BY DEF TypeInv, TypeOK
<1>5. \A s \in inbox[q] : /\ marked(s).act = s.act /\ marked(s).gen = s.gen
                          /\ marked(s).state = s.state /\ (marked(s).raced <=> raced(s))
  BY <1>4 DEF Signals
<1>6. inbox'[q] = {marked(s) : s \in inbox[q]}
  BY <1>3, <1>4
<1>7. token[q].act = c.act
  BY <1>1, <1>2 DEF HoldsToken
<1>8. \A s \in inbox[q] : s.act = c.act /\ s.gen = c.gen /\ s.state # "consumed" => raced(s)
  BY <1>3, <1>4, <1>7 DEF StoredSignals, Signals
<1>9. \A r \in Run, a \in Act : Meets(wait[r][a], inbox[r], a)
  BY DEF MeetingsFit
<1> HIDE DEF marked, raced
<1>10. OnlyRaced(inbox'[q], c.act, c.gen)
  <2> SUFFICES ASSUME NEW u \in inbox'[q], u.act = c.act, u.gen = c.gen, u.state # "consumed"
               PROVE  u.raced
    BY DEF OnlyRaced
  <2>1. PICK s \in inbox[q] : u = marked(s)
    BY <1>6
  <2>2. raced(s)
    BY <1>5, <1>8, <2>1
  <2>3. u.raced <=> raced(s)
    BY <1>5, <2>1
  <2> QED
    BY <2>2, <2>3
<1>11. ASSUME NEW r \in Run, NEW a \in Act PROVE Meets(wait'[r][a], inbox'[r], a)
  <2>1. CASE r # q
    BY <1>3, <1>4, <1>9, <2>1
  <2>2. CASE r = q
    <3> DEFINE box == inbox[q]
               more == inbox'[q]
    <3>1. Meets(wait[q][a], box, a) /\ wait'[q][a] = wait[q][a]
      BY <1>3, <1>9
    <3>2. wait[q][a].status = "waiting" => OnlyRaced(more, a, wait[q][a].gen)
      <4> SUFFICES ASSUME wait[q][a].status = "waiting", NEW u \in more,
                          u.act = a, u.gen = wait[q][a].gen, u.state # "consumed"
                   PROVE  u.raced
        BY DEF OnlyRaced
      <4>1. PICK s \in box : u = marked(s)
        BY <1>6
      <4>2. s.act = a /\ s.gen = wait[q][a].gen /\ s.state # "consumed"
        BY <1>5, <4>1
      <4>3. s.raced
        BY <3>1, <4>2 DEF Meets, OnlyRaced
      <4>4. raced(s)
        BY <4>3 DEF raced
      <4>5. u.raced <=> raced(s)
        BY <1>5, <4>1
      <4> QED
        BY <4>4, <4>5
    <3>3. (\E s \in more : s.act = a /\ s.state = "consumed")
            <=> (\E s \in box : s.act = a /\ s.state = "consumed")
      BY <1>5, <1>6
    <3>4. \A s, u \in more :
            s.act = a /\ u.act = a /\ s.state = "consumed" /\ u.state = "consumed" => s = u
      BY <1>5, <1>6, <3>1 DEF Meets
    <3> HIDE DEF box, more
    <3>5. Meets(wait[q][a], more, a)
      BY <3>1, <3>2, <3>3, <3>4 DEF Meets
    <3> QED
      BY <2>2, <3>1, <3>5 DEF more
  <2> QED
    BY <2>1, <2>2
<1> QED
  BY <1>2, <1>10, <1>11 DEF MeetAfter

\* A worker that opens a wait takes the stored signal, or has looked for it
\* before; it finds no earlier wait of the activation.
LEMMA FinalizeMeets ==
  ASSUME TypeInv, ObligationsFit, MeetingsFit, NEW w \in Worker, FinalizeSignalWait(w)
  PROVE  \A r \in Run, a \in Act : MeetAfter(r, a)
<1> USE DEF TypeInv
<1> SUFFICES ASSUME NEW q \in Run, NEW b \in Act PROVE Meets(wait'[q][b], inbox'[q], b)
  BY DEF MeetAfter
<1> DEFINE c == claim[w]
<1>1. PICK r \in Run : r = c.run
  BY FinalizerHolds
<1>2. /\ token[r].state = "claimed" /\ token[r].state \in WorkingStates
      /\ token[r].act \in Act /\ token[r].act = c.act
      /\ c # NoClaim /\ HoldsToken(w)
  BY <1>1, FinalizerHolds DEF WorkingStates, TypeOK, Tokens
<1> DEFINE a == token[r].act
           opened(status, replay) == [status |-> status, gen |-> c.gen, replay |-> replay]
<1>3. wait[r][a].status = "none"
  BY <1>2 DEF ObligationsFit, FitAt, Fit
<1>4. /\ \A p \in Run, d \in Act : Meets(wait[p][d], inbox[p], d)
      /\ wait \in [Run -> [Act -> Waits]] /\ inbox \in [Run -> SUBSET Signals]
  BY DEF TypeOK, MeetingsFit
<1>5. CASE /\ c.looked
           /\ wait' = [wait EXCEPT ![r][a] = opened("waiting", FALSE)] /\ inbox' = inbox
  <2>1. CASE q = r /\ b = a
    <3>1. wait'[r][a] = opened("waiting", FALSE)
      BY <1>2, <1>4, <1>5
    <3>2. OnlyRaced(inbox[r], a, opened("waiting", FALSE).gen)
      BY <1>1, <1>2, <1>5 DEF MeetingsFit, LookFits
    <3>3. opened("waiting", FALSE).status # "consumed" /\ wait[r][a].status # "consumed"
      BY <1>3
    <3>4. Meets(wait[r][a], inbox[r], a)
      BY <1>2, <1>4
    <3> HIDE DEF opened
    <3>5. Meets(opened("waiting", FALSE), inbox[r], a)
      BY <3>2, <3>3, <3>4, OpenedMeets
    <3> QED
      BY <1>5, <2>1, <3>1, <3>5
  <2>2. CASE q # r \/ b # a
    <3>1. wait'[q][b] = wait[q][b]
      BY <1>4, <1>5, <2>2
    <3> QED
      BY <1>4, <1>5, <3>1
  <2> QED
    BY <2>1, <2>2
<1>6. ASSUME NEW box, NEW s, NEW replay, Meets(wait[r][a], box, a),
             {u \in box : u.act # a} = {u \in inbox[r] : u.act # a},
             s.act = a, s.state = "consumed",
             wait' = [wait EXCEPT ![r][a] = opened("consumed", replay)],
             inbox' = [inbox EXCEPT ![r] = box \cup {s}]
      PROVE  Meets(wait'[q][b], inbox'[q], b)
  <2>1. CASE q = r /\ b = a
    <3>1. wait'[r][a] = opened("consumed", replay) /\ inbox'[r] = box \cup {s}
      BY <1>2, <1>4, <1>6
    <3>2. opened("consumed", replay).status = "consumed" /\ wait[r][a].status # "consumed"
      BY <1>3
    <3> HIDE DEF opened
    <3>3. Meets(opened("consumed", replay), box \cup {s}, a)
      BY <1>6, <3>2, TakenMeets
    <3> QED
      BY <2>1, <3>1, <3>3
  <2>2. CASE q # r
    BY <1>4, <1>6, <2>2
  <2>3. CASE q = r /\ b # a
    <3>1. wait'[r][b] = wait[r][b] /\ inbox'[r] = box \cup {s}
      BY <1>2, <1>4, <1>6, <2>3
    <3>2. {u \in box \cup {s} : u.act = b} = {u \in inbox[r] : u.act = b}
      BY <1>6, <2>3
    <3>3. Meets(wait[r][b], inbox[r], b)
      BY <1>4
    <3>4. Meets(wait[r][b], box \cup {s}, b)
      BY <3>2, <3>3, OtherSignalMeets
    <3> QED
      BY <2>3, <3>1, <3>4
  <2> QED
    BY <2>1, <2>2, <2>3
<1>7. CASE /\ wait' = [wait EXCEPT ![r][a] = opened("consumed", TRUE)]
           /\ inbox' = [inbox EXCEPT ![r] = inbox[r] \cup
                {Signal(a, c.gen, "token", "succeeded", "consumed", FALSE)}]
  <2> DEFINE s == Signal(a, c.gen, "token", "succeeded", "consumed", FALSE)
  <2>1. s.act = a /\ s.state = "consumed"
    BY DEF Signal
  <2>2. Meets(wait[r][a], inbox[r], a)
    BY <1>2, <1>4
  <2>3. {u \in inbox[r] : u.act # a} = {u \in inbox[r] : u.act # a}
    OBVIOUS
  <2> HIDE DEF s
  <2> QED
    BY <1>6, <1>7, <2>1, <2>2, <2>3 DEF s
<1>8. CASE \E s \in StoredSignals(r, c.gen) :
             /\ wait' = [wait EXCEPT ![r][a] = opened("consumed", FALSE)]
             /\ inbox' = [inbox EXCEPT ![r] =
                  (inbox[r] \ {s}) \cup {[s EXCEPT !.state = "consumed"]}]
  <2> PICK s \in StoredSignals(r, c.gen) :
             /\ wait' = [wait EXCEPT ![r][a] = opened("consumed", FALSE)]
             /\ inbox' = [inbox EXCEPT ![r] =
                  (inbox[r] \ {s}) \cup {[s EXCEPT !.state = "consumed"]}]
    BY <1>8
  <2>1. s \in inbox[r] /\ s.act = a /\ s.state # "consumed" /\ s \in Signals
    BY <1>4 DEF StoredSignals, Signals
  <2> DEFINE taken == [s EXCEPT !.state = "consumed"]
  <2>2. taken.act = a /\ taken.state = "consumed"
    BY <2>1 DEF Signals
  <2>3. Meets(wait[r][a], inbox[r] \ {s}, a)
    BY <1>2, <1>4, <2>1, SmallerMeets
  <2>4. {u \in inbox[r] \ {s} : u.act # a} = {u \in inbox[r] : u.act # a}
    BY <2>1
  <2>5. inbox' = [inbox EXCEPT ![r] = (inbox[r] \ {s}) \cup {taken}]
    OBVIOUS
  <2> HIDE DEF taken
  <2> QED
    BY <1>6, <2>2, <2>3, <2>4, <2>5
<1> QED
  BY <1>1, <1>5, <1>7, <1>8 DEF FinalizeSignalWait

\* A signal that is inserted without being taken found no wait for it.
LEMMA IngestMeets ==
  ASSUME TypeInv, RunTokenCoherent, ObligationsFit, MeetingsFit,
         NEW r \in Run, NEW a \in Act, NEW g, IngestSignal(r, a, g)
  PROVE  \A q \in Run, b \in Act : MeetAfter(q, b)
<1> USE DEF TypeInv
<1> SUFFICES ASSUME NEW q \in Run, NEW b \in Act PROVE Meets(wait'[q][b], inbox'[q], b)
  BY DEF MeetAfter
<1>1. /\ \A p \in Run, d \in Act : Meets(wait[p][d], inbox[p], d)
      /\ wait \in [Run -> [Act -> Waits]] /\ inbox \in [Run -> SUBSET Signals]
  BY DEF TypeOK, MeetingsFit
<1>2. PICK meets \in BOOLEAN, raced \in BOOLEAN :
        /\ meets <=> /\ wait[r][a].status = "waiting" /\ wait[r][a].gen = g
                     /\ ~wait[r][a].replay
                     /\ token[r].state \in {"waiting_signal", "waiting_external"}
                     /\ run[r].status = "waiting"
        /\ inbox' = [inbox EXCEPT ![r] = @ \cup
             {Signal(a, g, "job", job[r][a][g], IF meets THEN "consumed" ELSE "inserted", raced)}]
        /\ wait' = IF meets THEN [wait EXCEPT ![r][a].status = "consumed"] ELSE wait
  BY DEF IngestSignal
<1> DEFINE s == Signal(a, g, "job", job[r][a][g], IF meets THEN "consumed" ELSE "inserted", raced)
<1>3. s.act = a /\ s.gen = g /\ ((s.state = "consumed") <=> meets)
  BY DEF Signal
<1>4. inbox'[q] = IF q = r THEN inbox[r] \cup {s} ELSE inbox[q]
  BY <1>1, <1>2
<1> HIDE DEF s
<1>5. meets <=> wait[r][a].status = "waiting" /\ wait[r][a].gen = g
  <2>1. CASE wait[r][a].status = "waiting"
    <3>1. wait[r][a].replay = FALSE /\ token[r].state \in SignalStates
      BY <2>1 DEF ObligationsFit, FitAt, Fit
    <3>2. run[r].status = "waiting"
      BY <3>1 DEF RunTokenCoherent, StatusOf, SignalStates, WaitingTokenStates
    <3> QED
      BY <1>2, <2>1, <3>1, <3>2 DEF SignalStates
  <2> QED
    BY <1>2, <2>1
<1>6. CASE q # r \/ b # a
  <2>1. wait'[q][b] = wait[q][b]
    BY <1>1, <1>2, <1>6
  <2>2. {u \in inbox'[q] : u.act = b} = {u \in inbox[q] : u.act = b}
    BY <1>3, <1>4, <1>6
  <2>3. Meets(wait[q][b], inbox[q], b)
    BY <1>1
  <2> QED
    BY <2>1, <2>2, <2>3, OtherSignalMeets
<1>7. CASE q = r /\ b = a /\ meets
  <2>1. wait'[r][a].status = "consumed"
    BY <1>1, <1>2, <1>7 DEF Waits
  <2>2. /\ wait[r][a].status # "consumed" /\ Meets(wait[r][a], inbox[r], a)
        /\ s.state = "consumed"
    BY <1>1, <1>3, <1>5, <1>7
  <2>3. Meets(wait'[r][a], inbox[r] \cup {s}, a)
    BY <1>3, <2>1, <2>2, TakenMeets
  <2> QED
    BY <1>4, <1>7, <2>3
<1>8. CASE q = r /\ b = a /\ ~meets
  <2>1. wait'[r][a] = wait[r][a] /\ s.state # "consumed"
    BY <1>2, <1>3, <1>8
  <2>2. /\ Meets(wait[r][a], inbox[r], a)
        /\ ~(wait[r][a].status = "waiting" /\ s.act = a /\ s.gen = wait[r][a].gen)
    BY <1>1, <1>3, <1>5, <1>8
  <2>3. Meets(wait[r][a], inbox[r] \cup {s}, a)
    BY <2>1, <2>2, StoredMeets
  <2> QED
    BY <1>4, <1>8, <2>1, <2>3
<1> QED
  BY <1>6, <1>7, <1>8

\* An inserted signal is committed or rolled back; no wait has taken it.
LEMMA SettledSignalMeets ==
  ASSUME TypeInv, MeetingsFit, NEW r \in Run, CommitSignal(r) \/ RollbackSignal(r)
  PROVE  \A q \in Run, b \in Act : MeetAfter(q, b)
<1> USE DEF TypeInv
<1> SUFFICES ASSUME NEW q \in Run, NEW b \in Act PROVE Meets(wait'[q][b], inbox'[q], b)
  BY DEF MeetAfter
<1>1. /\ Meets(wait[q][b], inbox[q], b) /\ wait' = wait
      /\ inbox \in [Run -> SUBSET Signals] /\ inbox[r] \subseteq Signals
  BY DEF TypeOK, MeetingsFit, CommitSignal, RollbackSignal, obligations
<1>2. PICK s \in inbox[r] :
        /\ s.state = "inserted"
        /\ \/ inbox' = [inbox EXCEPT ![r] = (@ \ {s}) \cup {[s EXCEPT !.state = "stored"]}]
           \/ inbox' = [inbox EXCEPT ![r] = @ \ {s}]
  BY DEF CommitSignal, RollbackSignal
<1> DEFINE stored == [s EXCEPT !.state = "stored"]
<1>3. /\ stored.act = s.act /\ stored.gen = s.gen /\ stored.raced = s.raced
      /\ stored.state # "consumed"
  BY <1>1, <1>2 DEF Signals
<1>4. \/ inbox' = [inbox EXCEPT ![r] = (inbox[r] \ {s}) \cup {stored}]
      \/ inbox' = [inbox EXCEPT ![r] = inbox[r] \ {s}]
  BY <1>2
<1> HIDE DEF stored
<1>5. CASE q # r
  BY <1>1, <1>4, <1>5
<1>6. CASE q = r
  <2>1. Meets(wait[r][b], inbox[r] \ {s}, b)
    BY <1>1, <1>2, <1>6, SmallerMeets
  <2>2. wait[r][b].status = "waiting" /\ stored.act = b /\ stored.gen = wait[r][b].gen
          => stored.raced
    BY <1>1, <1>2, <1>3, <1>6 DEF Meets, OnlyRaced
  <2>3. Meets(wait[r][b], (inbox[r] \ {s}) \cup {stored}, b)
    BY <1>3, <2>1, <2>2, StoredMeets
  <2>4. inbox'[r] = (inbox[r] \ {s}) \cup {stored} \/ inbox'[r] = inbox[r] \ {s}
    BY <1>1, <1>4
  <2> QED
    BY <1>1, <1>6, <2>1, <2>3, <2>4
<1> QED
  BY <1>5, <1>6

\* Every step leaves waits and signals as they meet.
LEMMA StepMeets ==
  ASSUME TypeInv, RunTokenCoherent, ObligationsFit, MeetingsFit, [Next]_vars
  PROVE  \A r \in Run, a \in Act : MeetAfter(r, a)
<1> DEFINE Goal == \A r \in Run, a \in Act : MeetAfter(r, a)
<1> USE DEF TypeInv
<1>1. ASSUME UNCHANGED <<wait, inbox>> PROVE Goal
  BY <1>1 DEF MeetingsFit, MeetAfter
<1>2. ASSUME NEW w \in Worker, WorkerStep(w) PROVE Goal
  <2>1. CASE FinalizeSignalWait(w)
    BY <2>1, FinalizeMeets
  <2>2. CASE LookForSignal(w)
    BY <2>2, LookMeets
  <2>3. CASE ~FinalizeSignalWait(w) /\ ~LookForSignal(w)
    BY <1>1, <1>2, <2>3
    DEF WorkerStep, Claim, RequestChart, RequestMessage, FinalizeTerminal, FinalizeAdvance,
        FinalizeWorkItem, FinalizeApproval, FinalizeFailure, FinalizeStale, Abandon, obligations
  <2> QED
    BY <2>1, <2>2, <2>3
<1>3. ASSUME NEW r \in Run, TokenStep(r) PROVE Goal
  <2>1. CASE CancelRun(r)
    BY <2>1, CancelMeets DEF CancelRun
  <2>2. CASE CommitSignal(r) \/ RollbackSignal(r)
    BY <2>2, SettledSignalMeets
  <2>3. CASE ~CancelRun(r) /\ ~(CommitSignal(r) \/ RollbackSignal(r))
    BY <1>1, <1>3, <2>3
    DEF TokenStep, QuarantinePoisonCandidate, LeaseElapses, ClockStepsBack, RecoverExpired,
        QuarantineExpiredClaim, obligations
  <2> QED
    BY <2>1, <2>2, <2>3
<1>4. ASSUME NEW r \in Run, NEW a \in Act, ObligationStep(r, a) PROVE Goal
  <2>1. CASE \E g \in DOMAIN job[r][a] : IngestSignal(r, a, g)
    BY <2>1, IngestMeets
  <2>2. CASE ~\E g \in DOMAIN job[r][a] : IngestSignal(r, a, g)
    BY <1>1, <1>4, <2>2
    DEF ObligationStep, JobEnds, WorkItemCommand, CompleteWorkItem, WakeWorkItem,
        SnoozeApproval, DecideApproval, DeadlinePasses, ExpireApproval, WakeApproval,
        AdvancesApproval, obligations
  <2> QED
    BY <2>1, <2>2
<1>5. CASE BookingCancel
  BY <1>5, CancelMeets DEF BookingCancel
<1>6. CASE BookingReschedule \/ UNCHANGED vars
  BY <1>1, <1>6 DEF BookingReschedule, vars
<1> QED
  BY <1>2, <1>3, <1>4, <1>5, <1>6 DEF Next

\* Who holds its token after a step, with a claim from before it, has held it
\* before: no lease comes back, and a new one has a fence of its own.
LEMMA HeldBefore ==
  ASSUME TypeOK, FencesSeparateClaims, NEW w \in Worker, claim[w] # NoClaim,
         claim'[w].run = claim[w].run, claim'[w].act = claim[w].act,
         claim'[w].node = claim[w].node, claim'[w].fence = claim[w].fence,
         HoldsToken(w)', RunStep(claim[w].run)
  PROVE  HoldsToken(w)
<1> DEFINE r == claim[w].run
<1>1. /\ r \in Run /\ token[r] \in Tokens
      /\ claim[w].fence \in Nat /\ claim[w].fence <= token[r].fence
  BY HeldClaim DEF TypeOK, Claims, FencesSeparateClaims
<1>2. token'[r].state = "claimed" /\ token'[r].fence = claim[w].fence
  BY DEF HoldsToken
<1>3. CASE Stays(r) \/ Noted(r)
  BY <1>3 DEF Stays, Noted, HoldsToken
<1>4. CASE Granted(r)
  <2>1. token'[r].fence = token[r].fence + 1
    BY <1>1, <1>4, ClaimedRow DEF Granted
  <2> QED
    BY <1>1, <1>2, <2>1 DEF Tokens
<1>5. CASE Ticks(r)
  <2>1. PICK lease \in Leases : token'[r] = [token[r] EXCEPT !.lease = lease]
    BY <1>5 DEF Ticks
  <2>2. token[r].lease = "live" /\ token[r].state = "claimed"
    BY <1>5 DEF Ticks
  <2>3. /\ token'[r].owner = token[r].owner /\ token'[r].fence = token[r].fence
        /\ token'[r].act = token[r].act /\ token'[r].node = token[r].node
    BY <1>1, <2>1 DEF Tokens
  <2> QED
    BY <2>2, <2>3 DEF HoldsToken
<1>6. CASE Settled(r) \/ Closed(r)
  <2>1. PICK state \in TokenStates \ {"claimed"}, step \in {0, 1} :
          token'[r] = Released(token[r], state, step)
    <3>1. WaitingTokenStates \cup {"retry_scheduled"} \cup TerminalTokenStates
            \subseteq TokenStates \ {"claimed"}
      BY DEF TokenStates, WaitingTokenStates, TerminalTokenStates, ClaimableTokenStates
    <3> QED
      BY <1>6, <3>1 DEF Settled, Closed
  <2>2. token'[r].state = state
    BY <1>1, <2>1, ReleasedRow
  <2> QED
    BY <1>2, <2>1, <2>2
<1>7. CASE Departed(r)
  <2>1. token'[r].state # "claimed"
    BY <1>1, <1>7, AdvancedRow DEF Departed
  <2> QED
    BY <1>2, <2>1
<1> QED
  BY <1>3, <1>4, <1>5, <1>6, <1>7 DEF RunStep

\* What a step does to a look that was in vain: the claim is kept as it is, or
\* looked anew, or is not one that has looked.
KeepsLook(w) ==
  \/ claim'[w] = claim[w]
  \/ claim'[w] = NoClaim
  \/ claim'[w].looked = FALSE
  \/ LookForSignal(w)

\* Only a look makes a claim one that has looked.
LEMMA LooksAreKept ==
  ASSUME TypeInv, MeetingsFit, [Next]_vars, NEW w \in Worker
  PROVE  KeepsLook(w)
<1> USE DEF TypeInv
<1>1. \A v \in Worker : claim[v] # NoClaim => claim[v] \in Claims
  BY HeldClaim
<1>2. ASSUME claim' = claim PROVE KeepsLook(w)
  BY <1>2 DEF KeepsLook
<1>3. ASSUME NEW v \in Worker, WorkerStep(v) PROVE KeepsLook(w)
  <2>1. CASE v # w
    <3>1. \E x : claim' = [claim EXCEPT ![v] = x]
      <4>1. CASE \E r \in Run : Claim(v, r)
        BY <4>1 DEF Claim
      <4>2. CASE RequestChart(v) \/ RequestMessage(v)
        <5>1. PICK answer, gen : Answered(v, answer, gen)
          BY <4>2 DEF RequestChart, RequestMessage, StartsJob
        <5>2. claim' = [claim EXCEPT ![v] = [claim[v] EXCEPT !.answer = answer, !.gen = gen]]
          BY <5>1 DEF Answered, TypeOK
        <5> QED
          BY <5>2
      <4>3. CASE LookForSignal(v)
        BY <4>3 DEF LookForSignal
      <4>4. CASE Idle(v)
        BY <4>4 DEF Idle
      <4> QED
        BY <1>3, <4>1, <4>2, <4>3, <4>4
        DEF WorkerStep, FinalizeTerminal, FinalizeAdvance, FinalizeWorkItem, FinalizeApproval,
            FinalizeSignalWait, FinalizeFailure, FinalizeStale, Abandon
    <3>2. claim'[w] = claim[w]
      BY <2>1, <3>1 DEF TypeOK
    <3> QED
      BY <3>2 DEF KeepsLook
  <2>2. CASE v = w
    <3>1. CASE \E r \in Run : Claim(w, r)
      BY <3>1 DEF Claim, TypeOK, KeepsLook
    <3>2. CASE RequestChart(w) \/ RequestMessage(w)
      <4>1. PICK answer, gen : Answered(w, answer, gen)
        BY <3>2 DEF RequestChart, RequestMessage, StartsJob
      <4>2. claim[w] # NoClaim /\ claim[w].answer = "none"
        BY <3>2 DEF RequestChart, RequestMessage
      <4>3. claim'[w] = [claim[w] EXCEPT !.answer = answer, !.gen = gen]
        BY <4>1 DEF Answered, TypeOK
      <4>4. claim[w].looked \in BOOLEAN /\ claim'[w].looked = claim[w].looked
        BY <1>1, <4>2, <4>3 DEF Claims
      <4>5. claim[w].looked = FALSE
        BY <4>2, <4>4 DEF MeetingsFit, LookFits
      <4> QED
        BY <4>4, <4>5 DEF KeepsLook
    <3>3. CASE LookForSignal(w)
      BY <3>3 DEF KeepsLook
    <3>4. CASE Idle(w)
      BY <3>4 DEF Idle, TypeOK, KeepsLook
    <3> QED
      BY <1>3, <2>2, <3>1, <3>2, <3>3, <3>4
      DEF WorkerStep, FinalizeTerminal, FinalizeAdvance, FinalizeWorkItem, FinalizeApproval,
          FinalizeSignalWait, FinalizeFailure, FinalizeStale, Abandon
  <2> QED
    BY <2>1, <2>2
<1>4. ASSUME NEW r \in Run, TokenStep(r) PROVE KeepsLook(w)
  BY <1>2, <1>4
  DEF TokenStep, QuarantinePoisonCandidate, LeaseElapses, ClockStepsBack, RecoverExpired,
      QuarantineExpiredClaim, CommitSignal, RollbackSignal, CancelRun
<1>5. ASSUME NEW r \in Run, NEW a \in Act, ObligationStep(r, a) PROVE KeepsLook(w)
  BY <1>2, <1>5
  DEF ObligationStep, JobEnds, IngestSignal, WorkItemCommand, CompleteWorkItem,
      WakeWorkItem, SnoozeApproval, DecideApproval, DeadlinePasses, ExpireApproval,
      WakeApproval, AdvancesApproval
<1>6. CASE BookingCancel \/ BookingReschedule \/ UNCHANGED vars
  BY <1>2, <1>6 DEF BookingCancel, BookingReschedule, vars
<1> QED
  BY <1>3, <1>4, <1>5, <1>6 DEF Next

\* What a step does to the inbox of a run whose token worker w holds, having
\* looked: every row was there, marked no less, or is that of an ingest that
\* sees the look.
LEMMA BoxIsMarked ==
  ASSUME TypeInv, [Next]_vars, NEW w \in Worker, claim[w] # NoClaim, claim[w].looked,
         HoldsToken(w), HoldsToken(w)', claim'[w] = claim[w]
  PROVE  LET c == claim[w] IN
         \A s \in inbox'[c.run] :
           \/ \E u \in inbox[c.run] :
                /\ s.act = u.act /\ s.gen = u.gen /\ (u.raced => s.raced)
                /\ s.state # "consumed" => u.state # "consumed"
           \/ s.act = c.act /\ s.gen = c.gen => s.raced
<1> DEFINE c == claim[w]
           Old(s) == \E u \in inbox[c.run] :
                       /\ s.act = u.act /\ s.gen = u.gen /\ (u.raced => s.raced)
                       /\ s.state # "consumed" => u.state # "consumed"
           Seen(s) == s.act = c.act /\ s.gen = c.gen => s.raced
           Goal == \A s \in inbox'[c.run] : Old(s) \/ Seen(s)
<1> SUFFICES Goal
  OBVIOUS
<1> USE DEF TypeInv
<1>1. c.run \in Run /\ inbox \in [Run -> SUBSET Signals] /\ inbox[c.run] \subseteq Signals
  BY HeldClaim DEF TypeOK
<1>2. token'[c.run].state = "claimed"
  BY DEF HoldsToken
<1>3. ASSUME inbox'[c.run] = inbox[c.run] PROVE Goal
  BY <1>3
<1>4. ASSUME NEW v \in Worker, WorkerStep(v) PROVE Goal
  <2>1. CASE FinalizeSignalWait(v)
    <3> DEFINE r == claim[v].run
    <3>1. r \in Run
      BY <2>1, FinalizerHolds
    <3>2. \/ inbox' = inbox
          \/ /\ \E x : inbox' = [inbox EXCEPT ![r] = x]
             /\ \E outcome : token' = [token EXCEPT ![r] = SignaledToken(token[r], outcome)]
      BY <2>1 DEF FinalizeSignalWait
    <3>3. CASE c.run # r \/ inbox' = inbox
      <4>1. inbox'[c.run] = inbox[c.run]
        BY <1>1, <3>2, <3>3
      <4> QED
        BY <1>3, <4>1
    <3>4. CASE c.run = r /\ inbox' # inbox
      <4>1. PICK outcome : token' = [token EXCEPT ![r] = SignaledToken(token[r], outcome)]
        BY <3>2, <3>4
      <4>2. token[r] \in Tokens /\ token'[r] = SignaledToken(token[r], outcome)
        BY <3>1, <4>1 DEF TypeOK
      <4>3. token'[r].state # "claimed"
        BY <4>2, AdvancedRow, ReleasedRow DEF SignaledToken
      <4> QED
        BY <1>2, <3>4, <4>3
    <3> QED
      BY <3>3, <3>4
  <2>2. CASE LookForSignal(v)
    <3> DEFINE r == claim[v].run
               marked(s) == [s EXCEPT !.raced = @ \/ (/\ s.act = claim[v].act
                                                      /\ s.gen = claim[v].gen
                                                      /\ s.state = "inserted")]
    <3>1. inbox' = [inbox EXCEPT ![r] = {marked(s) : s \in inbox[r]}]
      BY <2>2 DEF LookForSignal
    <3>2. CASE c.run # r
      <4>1. inbox'[c.run] = inbox[c.run]
        BY <1>1, <3>1, <3>2
      <4> QED
        BY <1>3, <4>1
    <3>3. CASE c.run = r
      <4>1. \A u \in inbox[r] : /\ marked(u).act = u.act /\ marked(u).gen = u.gen
                                /\ (u.raced => marked(u).raced) /\ marked(u).state = u.state
        BY <1>1, <3>3 DEF Signals
      <4>2. inbox'[r] = {marked(s) : s \in inbox[r]}
        BY <1>1, <3>1, <3>3
      <4> HIDE DEF marked
      <4> QED
        BY <3>3, <4>1, <4>2
    <3> QED
      BY <3>2, <3>3
  <2>3. CASE ~FinalizeSignalWait(v) /\ ~LookForSignal(v)
    <3>1. inbox' = inbox
      BY <1>4, <2>3
      DEF WorkerStep, Claim, RequestChart, RequestMessage, FinalizeTerminal, FinalizeAdvance,
          FinalizeWorkItem, FinalizeApproval, FinalizeFailure, FinalizeStale, Abandon
    <3> QED
      BY <1>3, <3>1
  <2> QED
    BY <2>1, <2>2, <2>3
<1>5. ASSUME NEW r \in Run, TokenStep(r) PROVE Goal
  <2>1. CASE CommitSignal(r) \/ RollbackSignal(r)
    <3>1. CASE c.run # r
      <4>1. inbox'[c.run] = inbox[c.run]
        BY <1>1, <2>1, <3>1 DEF CommitSignal, RollbackSignal
      <4> QED
        BY <1>3, <4>1
    <3>2. CASE c.run = r
      <4>1. PICK u \in inbox[r] :
              /\ u.state = "inserted"
              /\ \/ inbox' = [inbox EXCEPT ![r] = (inbox[r] \ {u}) \cup {[u EXCEPT !.state = "stored"]}]
                 \/ inbox' = [inbox EXCEPT ![r] = inbox[r] \ {u}]
        BY <2>1 DEF CommitSignal, RollbackSignal
      <4> DEFINE stored == [u EXCEPT !.state = "stored"]
      <4>2. stored.act = u.act /\ stored.gen = u.gen /\ stored.raced = u.raced
        BY <1>1, <3>2, <4>1 DEF Signals
      <4>3. inbox'[r] \subseteq inbox[r] \cup {stored}
        BY <1>1, <3>2, <4>1
      <4> HIDE DEF stored
      <4>4. Old(stored)
        BY <3>2, <4>1, <4>2
      <4>5. \A s \in inbox[c.run] : Old(s)
        OBVIOUS
      <4> QED
        BY <3>2, <4>3, <4>4, <4>5
    <3> QED
      BY <3>1, <3>2
  <2>2. CASE ~(CommitSignal(r) \/ RollbackSignal(r))
    <3>1. inbox' = inbox
      BY <1>5, <2>2
      DEF TokenStep, QuarantinePoisonCandidate, LeaseElapses, ClockStepsBack, RecoverExpired,
          QuarantineExpiredClaim, CancelRun
    <3> QED
      BY <1>3, <3>1
  <2> QED
    BY <2>1, <2>2
<1>6. ASSUME NEW r \in Run, NEW a \in Act, ObligationStep(r, a) PROVE Goal
  <2>1. CASE \E g \in DOMAIN job[r][a] : IngestSignal(r, a, g)
    <3>1. PICK g \in DOMAIN job[r][a] : IngestSignal(r, a, g)
      BY <2>1
    <3> DEFINE raced == \E v \in Worker : Looking(v, r, a, g)
    <3>2. PICK state : inbox' = [inbox EXCEPT ![r] = inbox[r] \cup
                         {Signal(a, g, "job", job[r][a][g], state, raced)}]
      BY <3>1 DEF IngestSignal
    <3> DEFINE new == Signal(a, g, "job", job[r][a][g], state, raced)
    <3>3. new.act = a /\ new.gen = g /\ new.raced = raced
      BY DEF Signal
    <3>4. r = c.run /\ a = c.act /\ g = c.gen => raced
      BY DEF Looking
    <3>5. \A s \in inbox[c.run] : Old(s)
      OBVIOUS
    <3> HIDE DEF new, raced
    <3>6. inbox'[c.run] \subseteq inbox[c.run] \cup (IF r = c.run THEN {new} ELSE {})
      BY <1>1, <3>2 DEF new
    <3> QED
      BY <3>3, <3>4, <3>5, <3>6
  <2>2. CASE ~\E g \in DOMAIN job[r][a] : IngestSignal(r, a, g)
    <3>1. inbox' = inbox
      BY <1>6, <2>2
      DEF ObligationStep, JobEnds, WorkItemCommand, CompleteWorkItem, WakeWorkItem,
          SnoozeApproval, DecideApproval, DeadlinePasses, ExpireApproval, WakeApproval,
          AdvancesApproval
    <3> QED
      BY <1>3, <3>1
  <2> QED
    BY <2>1, <2>2
<1>7. CASE BookingCancel \/ BookingReschedule \/ UNCHANGED vars
  BY <1>3, <1>7 DEF BookingCancel, BookingReschedule, vars
<1> QED
  BY <1>4, <1>5, <1>6, <1>7 DEF Next

\* A look that was in vain stays so until its wait is committed: whatever comes
\* meanwhile is marked.
LEMMA StepKeepsLooks ==
  ASSUME TypeInv, RunTokenCoherent, FencesSeparateClaims, MeetingsFit, [Next]_vars,
         NEW w \in Worker
  PROVE  LookFits(w)'
<1> USE DEF TypeInv
<1> SUFFICES ASSUME claim'[w] # NoClaim, claim'[w].looked
             PROVE  /\ claim'[w].answer = "queued"
                    /\ HoldsToken(w)' =>
                         OnlyRaced(inbox'[claim'[w].run], claim'[w].act, claim'[w].gen)
  BY DEF LookFits, OnlyRaced
<1>1. CASE LookForSignal(w)
  <2>1. claim[w] # NoClaim /\ claim[w].answer = "queued"
    BY <1>1 DEF LookForSignal, OpensWait, CanFinalize
  <2>2. claim'[w] = [claim[w] EXCEPT !.looked = TRUE] /\ claim[w] \in Claims
    BY <1>1, <2>1, HeldClaim DEF LookForSignal, TypeOK
  <2>3. /\ claim'[w].answer = claim[w].answer /\ claim'[w].run = claim[w].run
        /\ claim'[w].act = claim[w].act /\ claim'[w].gen = claim[w].gen
    BY <2>2 DEF Claims
  <2>4. OnlyRaced(inbox'[claim[w].run], claim[w].act, claim[w].gen)
    BY <1>1, LookMeets
  <2> QED
    BY <2>1, <2>3, <2>4
<1>2. CASE claim'[w] = claim[w]
  <2>1. claim[w] # NoClaim /\ claim[w].looked /\ LookFits(w)
    BY <1>2 DEF MeetingsFit
  <2>2. claim[w].answer = "queued"
    BY <2>1 DEF LookFits
  <2>3. ASSUME HoldsToken(w)' PROVE OnlyRaced(inbox'[claim[w].run], claim[w].act, claim[w].gen)
    <3>1. RunStep(claim[w].run)
      BY <2>1, RunsStep, HeldClaim
    <3>2. HoldsToken(w)
      BY <1>2, <2>1, <2>3, <3>1, HeldBefore
    <3>3. OnlyRaced(inbox[claim[w].run], claim[w].act, claim[w].gen)
      BY <2>1, <3>2 DEF LookFits
    <3>4. LET c == claim[w] IN
          \A s \in inbox'[c.run] :
            \/ \E u \in inbox[c.run] :
                 /\ s.act = u.act /\ s.gen = u.gen /\ (u.raced => s.raced)
                 /\ s.state # "consumed" => u.state # "consumed"
            \/ s.act = c.act /\ s.gen = c.gen => s.raced
      BY <1>2, <2>1, <2>3, <3>2, BoxIsMarked
    <3> QED
      BY <3>3, <3>4 DEF OnlyRaced
  <2> QED
    BY <1>2, <2>2, <2>3
<1> QED
  BY <1>1, <1>2, LooksAreKept DEF KeepsLook

\* SignalsMeetWaits: for any number of runs, workers and redeliveries, and with
\* ingest and finalize each in two steps, an open wait lies next to a signal that
\* it could take only if their two transactions overlapped, and every wait that
\* was consumed was consumed by exactly one signal.
THEOREM SignalsAndWaitsMeet == Spec => []SignalsMeetWaits
<1>1. Init => MeetingsFit
  BY DEF Init, MeetingsFit, Meets, LookFits
<1>2. TypeInv /\ RunTokenCoherent /\ FencesSeparateClaims /\ ObligationsFit /\ MeetingsFit
        /\ [Next]_vars => MeetingsFit'
  <2> SUFFICES ASSUME TypeInv, RunTokenCoherent, FencesSeparateClaims, ObligationsFit,
                      MeetingsFit, [Next]_vars
               PROVE  MeetingsFit'
    OBVIOUS
  <2>1. \A r \in Run, a \in Act : MeetAfter(r, a)
    BY StepMeets
  <2>2. \A w \in Worker : LookFits(w)'
    BY StepKeepsLooks
  <2> QED
    BY <2>1, <2>2 DEF MeetingsFit, MeetAfter
<1>3. MeetingsFit => SignalsMeetWaits
  BY DEF MeetingsFit, Meets, OnlyRaced, SignalsMeetWaits
<1> QED
  BY <1>1, <1>2, <1>3, TypesHold, RowsStayCoherent, FencesHold, ObligationsStayFit, PTL DEF Spec

(***************************************************************************)
(* Requests.                                                               *)
(***************************************************************************)
\* A claim is never ahead of the token, and knows the node of its activation.
ClaimsTrail ==
  \A w \in Worker : claim[w] # NoClaim =>
    LET c == claim[w]
        t == token[c.run] IN
    c.act <= t.act /\ (c.act = t.act => c.node = t.node)

\* OneMessagePerActivation, and that nothing is requested ahead of the token.
RequestsFit ==
  /\ ClaimsTrail
  /\ \A r \in Run, a \in Act :
       /\ token[r].act < a => Len(job[r][a]) = 0
       /\ token[r].act = a /\ Kind[token[r].node] = "message" => Len(job[r][a]) <= 1

\* A token stays on its activation and node, or goes on to the next activation.
LEMMA TokensGoOn ==
  ASSUME TypeOK, NEW r \in Run, RunStep(r)
  PROVE  \/ token'[r].act = token[r].act /\ token'[r].node = token[r].node
         \/ token'[r].act = token[r].act + 1
<1>1. token[r] \in Tokens
  BY DEF TypeOK
<1>2. CASE Stays(r) \/ Noted(r)
  BY <1>2 DEF Stays, Noted
<1>3. CASE Granted(r)
  BY <1>1, <1>3, ClaimedRow DEF Granted
<1>4. CASE Ticks(r)
  BY <1>1, <1>4 DEF Ticks, Tokens
<1>5. CASE Settled(r) \/ Closed(r)
  BY <1>1, <1>5, ReleasedRow DEF Settled, Closed
<1>6. CASE Departed(r)
  BY <1>1, <1>6, AdvancedRow DEF Departed
<1> QED
  BY <1>2, <1>3, <1>4, <1>5, <1>6 DEF RunStep

\* Claims stay behind the token: an old one as the token goes on, a new one as
\* it copies the row.
LEMMA ClaimsStayBehind ==
  ASSUME TypeInv, TypeInv', ClaimsTrail, [Next]_vars, \A r \in Run : RunStep(r)
  PROVE  ClaimsTrail'
<1> USE DEF TypeInv
<1>1. \A r \in Run : /\ token[r].act \in Nat /\ token'[r].act \in Nat
                     /\ \/ token'[r].act = token[r].act /\ token'[r].node = token[r].node
                        \/ token'[r].act = token[r].act + 1
  <2>1. \A r \in Run : token[r].act \in Nat /\ token'[r].act \in Nat
    BY DEF TypeOK, Tokens, Act
  <2> QED
    BY <2>1, TokensGoOn
<1>2. \A w \in Worker : claim[w] # NoClaim => claim[w].run \in Run /\ claim[w].act \in Nat
  BY DEF TypeOK, Claims, Act
<1>3. CASE NoNewClaim
  BY <1>1, <1>2, <1>3 DEF ClaimsTrail, NoNewClaim
<1>4. ASSUME NEW w \in Worker, NEW r \in Run, Claim(w, r) PROVE ClaimsTrail'
  <2>1. /\ token' = [token EXCEPT ![r] = Claimed(token[r], w)]
        /\ claim' = [claim EXCEPT ![w] =
             [run |-> r, node |-> token[r].node, act |-> token[r].act,
              attempt |-> token[r].attempt + 1, fence |-> token[r].fence + 1,
              answer |-> "none", gen |-> 0, looked |-> FALSE]]
    BY <1>4 DEF Claim
  <2>2. /\ claim'[w].run = r /\ claim'[w].act = token[r].act /\ claim'[w].node = token[r].node
        /\ \A v \in Worker \ {w} : claim'[v] = claim[v]
    BY <2>1 DEF TypeOK
  <2>3. token[r] \in Tokens /\ token'[r] = Claimed(token[r], w)
    BY <2>1 DEF TypeOK
  <2>4. token'[r].act = token[r].act /\ token'[r].node = token[r].node
    BY <2>3, ClaimedRow
  <2> QED
    BY <1>1, <1>2, <2>2, <2>4 DEF ClaimsTrail
<1> QED
  BY <1>3, <1>4, WorkerMakesNoLease, OthersMakeNoLease DEF Next

\* What a step does to the requests of an activation: nothing, or it adds one for a
\* worker that holds a claim on the activation, to a message node only the first.
Requests(r, a) ==
  \/ Len(job'[r][a]) = Len(job[r][a])
  \/ \E w \in Worker :
       /\ claim[w] # NoClaim /\ claim[w].run = r /\ claim[w].act = a
       /\ Kind[claim[w].node] = "message" => Len(job[r][a]) = 0
       /\ Len(job'[r][a]) = Len(job[r][a]) + 1

\* Every step treats the requests of every activation in one of these ways.
LEMMA StepsRequest ==
  ASSUME TypeOK, [Next]_vars, NEW r \in Run, NEW a \in Act
  PROVE  Requests(r, a)
<1>1. /\ \A q \in Run, b \in Act : job[q][b] \in Seq({"active", "succeeded", "failed"})
      /\ job \in [Run -> [Act -> Seq({"active", "succeeded", "failed"})]]
  BY DEF TypeOK
<1>2. ASSUME job' = job PROVE Requests(r, a)
  BY <1>2 DEF Requests
<1>3. ASSUME NEW w \in Worker, RequestChart(w) \/ RequestMessage(w) PROVE Requests(r, a)
  <2> DEFINE c == claim[w]
  <2>1. c # NoClaim /\ c.run \in Run /\ c.act \in Act
    BY <1>3, HeldClaim DEF RequestChart, RequestMessage
  <2>2. \/ job' = job
        \/ /\ \E status : job' = [job EXCEPT ![c.run][c.act] = Append(job[c.run][c.act], status)]
           /\ Kind[c.node] = "message" => job[c.run][c.act] = << >>
    BY <1>3 DEF RequestChart, RequestMessage, StartsJob
  <2>3. ASSUME NEW status,
               job' = [job EXCEPT ![c.run][c.act] = Append(job[c.run][c.act], status)],
               Kind[c.node] = "message" => job[c.run][c.act] = << >>
        PROVE  Requests(r, a)
    <3>1. CASE r = c.run /\ a = c.act
      <4>1. job'[r][a] = Append(job[r][a], status)
        BY <1>1, <2>3, <3>1
      <4>2. Len(job'[r][a]) = Len(job[r][a]) + 1
        BY <1>1, <4>1
      <4>3. Kind[c.node] = "message" => Len(job[r][a]) = 0
        BY <2>3, <3>1
      <4> QED
        BY <2>1, <3>1, <4>2, <4>3 DEF Requests
    <3>2. CASE r # c.run \/ a # c.act
      <4>1. job'[r][a] = job[r][a]
        BY <1>1, <2>3, <3>2
      <4> QED
        BY <4>1 DEF Requests
    <3> QED
      BY <3>1, <3>2
  <2> QED
    BY <1>2, <2>2, <2>3
<1>4. ASSUME NEW q \in Run, NEW b \in Act, JobEnds(q, b) PROVE Requests(r, a)
  <2>1. PICK outcome : job' = [job EXCEPT ![q][b][Len(job[q][b])] = outcome]
    BY <1>4 DEF JobEnds
  <2>2. job'[r][a] = job[r][a]
          \/ job'[r][a] = [job[r][a] EXCEPT ![Len(job[r][a])] = outcome]
    BY <1>1, <2>1
  <2>3. Len(job'[r][a]) = Len(job[r][a])
    BY <1>1, <2>2
  <2> QED
    BY <2>3 DEF Requests
<1>5. ASSUME NEW w \in Worker, WorkerStep(w) PROVE Requests(r, a)
  <2>1. CASE RequestChart(w) \/ RequestMessage(w)
    BY <1>3, <2>1
  <2>2. CASE ~(RequestChart(w) \/ RequestMessage(w))
    BY <1>2, <1>5, <2>2
    DEF WorkerStep, Claim, FinalizeTerminal, FinalizeAdvance, FinalizeWorkItem,
        FinalizeApproval, LookForSignal, FinalizeSignalWait, FinalizeFailure,
        FinalizeStale, Abandon
  <2> QED
    BY <2>1, <2>2
<1>6. ASSUME NEW q \in Run, TokenStep(q) PROVE Requests(r, a)
  BY <1>2, <1>6
  DEF TokenStep, QuarantinePoisonCandidate, LeaseElapses, ClockStepsBack, RecoverExpired,
      QuarantineExpiredClaim, CommitSignal, RollbackSignal, CancelRun
<1>7. ASSUME NEW q \in Run, NEW b \in Act, ObligationStep(q, b) PROVE Requests(r, a)
  <2>1. CASE JobEnds(q, b)
    BY <1>4, <2>1
  <2>2. CASE ~JobEnds(q, b)
    BY <1>2, <1>7, <2>2
    DEF ObligationStep, IngestSignal, WorkItemCommand, CompleteWorkItem, WakeWorkItem,
        SnoozeApproval, DecideApproval, DeadlinePasses, ExpireApproval, WakeApproval,
        AdvancesApproval
  <2> QED
    BY <2>1, <2>2
<1>8. CASE BookingCancel \/ BookingReschedule \/ UNCHANGED vars
  BY <1>2, <1>8 DEF BookingCancel, BookingReschedule, vars
<1> QED
  BY <1>5, <1>6, <1>7, <1>8 DEF Next

\* OneMessagePerActivation: however often the claim of a message node is lost
\* and taken again, and however late a worker that lost it makes its request,
\* the activation has one message at most.
THEOREM OneMessageIsSent == Spec => []OneMessagePerActivation
<1>1. Init => RequestsFit
  BY DEF Init, RequestsFit, ClaimsTrail
<1>2. TypeInv /\ TypeInv' /\ RunTokenCoherent /\ RequestsFit /\ [Next]_vars => RequestsFit'
  <2> SUFFICES ASSUME TypeInv, TypeInv', RunTokenCoherent, RequestsFit, [Next]_vars
               PROVE  RequestsFit'
    OBVIOUS
  <2> USE DEF TypeInv
  <2>1. \A r \in Run : RunStep(r)
    BY RunsStep
  <2>2. ClaimsTrail'
    BY <2>1, ClaimsStayBehind DEF RequestsFit
  <2>3. ASSUME NEW r \in Run, NEW a \in Act
        PROVE  /\ token'[r].act < a => Len(job'[r][a]) = 0
               /\ token'[r].act = a /\ Kind[token'[r].node] = "message" => Len(job'[r][a]) <= 1
    <3>1. /\ a \in Nat /\ token[r].act \in Nat /\ token'[r].act \in Nat
          /\ Len(job[r][a]) \in Nat /\ Len(job'[r][a]) \in Nat
      BY DEF TypeOK, Tokens, Act
    <3>2. \/ token'[r].act = token[r].act /\ token'[r].node = token[r].node
          \/ token'[r].act = token[r].act + 1
      BY <2>1, TokensGoOn
    <3>3. /\ token[r].act < a => Len(job[r][a]) = 0
          /\ token[r].act = a /\ Kind[token[r].node] = "message" => Len(job[r][a]) <= 1
      BY DEF RequestsFit
    <3>4. CASE Len(job'[r][a]) = Len(job[r][a])
      BY <3>1, <3>2, <3>3, <3>4
    <3>5. ASSUME NEW w \in Worker, claim[w] # NoClaim, claim[w].run = r, claim[w].act = a,
                 Kind[claim[w].node] = "message" => Len(job[r][a]) = 0,
                 Len(job'[r][a]) = Len(job[r][a]) + 1
          PROVE  /\ token'[r].act < a => Len(job'[r][a]) = 0
                 /\ token'[r].act = a /\ Kind[token'[r].node] = "message"
                      => Len(job'[r][a]) <= 1
      <4>1. a <= token[r].act /\ (a = token[r].act => claim[w].node = token[r].node)
        BY <3>5 DEF RequestsFit, ClaimsTrail
      <4> QED
        BY <3>1, <3>2, <3>5, <4>1
    <3>6. Requests(r, a)
      BY StepsRequest
    <3> QED
      BY <3>4, <3>5, <3>6 DEF Requests
  <2> QED
    BY <2>2, <2>3 DEF RequestsFit
<1>3. RequestsFit => OneMessagePerActivation
  BY DEF RequestsFit, OneMessagePerActivation
<1> QED
  BY <1>1, <1>2, <1>3, TypesHold, RowsStayCoherent, PTL DEF Spec
==============================================================================
