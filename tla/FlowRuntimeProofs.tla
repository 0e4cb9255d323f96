-------------------------- MODULE FlowRuntimeProofs --------------------------
(***************************************************************************)
(* Facts about FlowRuntime for every graph, any number of runs and workers *)
(* and every value of the bounds.  The invariant is TypeOK together with   *)
(* ParkedOnItsKind: the edge a resumed token takes exists only because the *)
(* state it was parked in fits the kind of its node.                       *)
(***************************************************************************)
EXTENDS FlowRuntime, TLAPS

\* A waiting token stands on a node of the kind that parks so, and an approval
\* has a deadline only on a node that has a timeout edge.
ParkedOnItsKind ==
  \A r \in Run :
    /\ token[r].state = "waiting_signal" => Kind[token[r].node] = "chart"
    /\ token[r].state = "waiting_external" => Kind[token[r].node] = "message"
    /\ token[r].state = "waiting_work_item" => Kind[token[r].node] = "work_item"
    /\ token[r].state = "waiting_approval" =>
         /\ Kind[token[r].node] = "approval"
         /\ approval[r][token[r].act].deadline # "none" => token[r].node \in Expiring

TypeInv == TypeOK /\ ParkedOnItsKind

(***************************************************************************)
(* The row updates keep the row types.                                     *)
(***************************************************************************)
\* An activation and its successor are activations, below the bound.
LEMMA NextAct ==
  ASSUME NEW n \in Act, n < MaxActivation
  PROVE  n + 1 \in Act
BY BoundAssumption DEF Act

\* Moving a token along an existing edge gives a runnable token row.
LEMMA AdvancedIsToken ==
  ASSUME NEW t \in Tokens, NEW h \in DOMAIN Target[t.node], t.act < MaxActivation
  PROVE  /\ Advanced(t, h) \in Tokens
         /\ Advanced(t, h).state = "runnable"
         /\ Target[t.node][h] \in Node
<1>1. t.act + 1 \in Act
  BY NextAct DEF Tokens
<1>2. Target[t.node][h] \in Node
  BY GraphAssumption DEF Tokens
<1> QED
  BY <1>1, <1>2 DEF Advanced, Tokens, TokenStates, ClaimableTokenStates, Leases

\* Releasing a token, under the same or the next fence, gives a token row.
LEMMA ReleasedIsToken ==
  ASSUME NEW t \in Tokens, NEW state \in TokenStates, NEW step \in {0, 1}
  PROVE  /\ Released(t, state, step) \in Tokens
         /\ Released(t, state, step).state = state
         /\ Released(t, state, step).node = t.node
         /\ Released(t, state, step).act = t.act
<1>1. t.fence + step \in Nat
  BY DEF Tokens
<1> QED
  BY <1>1 DEF Released, Tokens, Leases

\* The two forms of a run event are events.
LEMMA EventsAreTyped ==
  ASSUME NEW t \in Tokens, NEW type \in EventTypes
  PROVE  AttemptEvent(type, t) \in Events /\ PlainEvent(type, t) \in Events
BY DEF AttemptEvent, PlainEvent, TraceRow, Events, Tokens

\* The handle of a signal is an edge of the chart or message node it resumes,
\* unless it ends the run; so the resumed token and run rows are well formed.
LEMMA SignaledIsTyped ==
  ASSUME NEW t \in Tokens, NEW outcome \in {"succeeded", "failed"},
         Kind[t.node] \in {"chart", "message"}, t.act < MaxActivation
  PROVE  /\ SignaledToken(t, outcome) \in Tokens
         /\ SignaledToken(t, outcome).state \in {"runnable", "failed"}
         /\ SignaledRun(t, outcome) \in RunRows
         /\ SignaledEvent(t, outcome) \in Events
<1>1. t.node \in Node
  BY DEF Tokens
<1>2. CASE Ends(t.node, outcome)
  <2>1. Released(t, "failed", 0) \in Tokens /\ Released(t, "failed", 0).state = "failed"
    BY ReleasedIsToken DEF TokenStates, TerminalTokenStates
  <2>2. PlainEvent("run_failed", t) \in Events
    BY EventsAreTyped DEF EventTypes
  <2> QED
    BY <1>1, <1>2, <2>1, <2>2
    DEF SignaledToken, SignaledRun, SignaledEvent, RunRows, RunStatuses, TerminalRunStatuses
<1>3. CASE ~Ends(t.node, outcome)
  <2> DEFINE h == SignalHandle(t.node, outcome)
  <2>1. h \in DOMAIN Target[t.node]
    BY <1>1, <1>3, GraphAssumption DEF SignalHandle, Handles, Ends
  <2>2. /\ Advanced(t, h) \in Tokens /\ Advanced(t, h).state = "runnable"
        /\ Target[t.node][h] \in Node
    BY <2>1, AdvancedIsToken
  <2>3. PlainEvent("token_signaled", t) \in Events
    BY EventsAreTyped DEF EventTypes
  <2> QED
    BY <1>3, <2>2, <2>3
    DEF SignaledToken, SignaledRun, SignaledEvent, RunRows, RunStatuses, ClaimableRunStatuses
<1> QED
  BY <1>2, <1>3

(***************************************************************************)
(* Initial states and steps.                                               *)
(***************************************************************************)
\* The enrolled state is well formed.
LEMMA InitTyped == Init => TypeInv
<1> SUFFICES ASSUME Init PROVE TypeInv
  OBVIOUS
<1> USE DEF Init
<1>1. 1 \in Act
  BY BoundAssumption DEF Act
<1>2. token \in [Run -> Tokens]
  BY <1>1, GraphAssumption DEF Tokens, TokenStates, ClaimableTokenStates, Leases
<1>3. run \in [Run -> RunRows]
  BY GraphAssumption DEF RunRows, RunStatuses, ClaimableRunStatuses
<1>4. trace \in [Run -> Seq(Events)]
  BY <1>1 DEF TraceRow, Events, EventTypes
<1>5. wait \in [Run -> [Act -> Waits]] /\ item \in [Run -> [Act -> Items]]
  BY DEF Waits, Items
<1>6. approval \in [Run -> [Act -> Approvals]]
  BY DEF Approvals
<1>7. job \in [Run -> [Act -> Seq({"active", "succeeded", "failed"})]]
  OBVIOUS
<1>8. /\ inbox \in [Run -> SUBSET Signals]
      /\ claim \in [Worker -> Claims \cup {NoClaim}]
      /\ booking \in [state : {"confirmed", "cancelled", "completed"}, revision : Nat]
  OBVIOUS
<1>9. ParkedOnItsKind
  BY DEF ParkedOnItsKind
<1> QED
  BY <1>2, <1>3, <1>4, <1>5, <1>6, <1>7, <1>8, <1>9 DEF TypeInv, TypeOK

\* Claiming a token gives a token row.
LEMMA ClaimedIsToken ==
  ASSUME NEW t \in Tokens, NEW w \in Worker
  PROVE  /\ Claimed(t, w) \in Tokens
         /\ Claimed(t, w).state = "claimed"
<1>1. t.attempt + 1 \in Nat /\ t.fence + 1 \in Nat
  BY DEF Tokens
<1> QED
  BY <1>1 DEF Claimed, Tokens, TokenStates, Leases

\* A claim keeps the rows well formed.
LEMMA ClaimTyped ==
  ASSUME TypeInv, NEW w \in Worker, NEW r \in Run, Claim(w, r)
  PROVE  TypeInv'
<1> USE DEF TypeInv, TypeOK
<1>1. token[r] \in Tokens
  OBVIOUS
<1>2. Claimed(token[r], w) \in Tokens /\ Claimed(token[r], w).state = "claimed"
  BY <1>1, ClaimedIsToken
<1>3. token' = [token EXCEPT ![r] = Claimed(token[r], w)]
  BY DEF Claim
<1>4. run' \in [Run -> RunRows]
  BY <1>1 DEF Claim, RunRows, Tokens, RunStatuses, ClaimableRunStatuses
<1>5. claim' \in [Worker -> Claims \cup {NoClaim}]
  BY <1>1 DEF Claim, Claims, Tokens, Answers
<1>6. ParkedOnItsKind'
  BY <1>2, <1>3 DEF Claim, ParkedOnItsKind, obligations
<1> QED
  BY <1>2, <1>3, <1>4, <1>5, <1>6 DEF Claim, obligations

\* A run failed by quarantine or recovery keeps well-formed rows.
LEMMA QuarantineTyped ==
  ASSUME TypeInv, NEW r \in Run,
         QuarantinePoisonCandidate(r) \/ RecoverExpired(r) \/ QuarantineExpiredClaim(r)
  PROVE  TypeInv'
<1> USE DEF TypeInv, TypeOK
<1> DEFINE ends == {"retry_scheduled", "failed"}
<1>1. PICK state \in ends, step \in {0, 1} : token' = [token EXCEPT ![r] = Released(@, state, step)]
  BY DEF QuarantinePoisonCandidate, RecoverExpired, QuarantineExpiredClaim
<1>2. Released(token[r], state, step) \in Tokens /\ Released(token[r], state, step).state = state
  BY ReleasedIsToken DEF TokenStates, TerminalTokenStates, ClaimableTokenStates
<1>3. run' \in [Run -> RunRows]
  <2>1. run[r] \in RunRows /\ token[r].node \in Node
    BY DEF Tokens
  <2>2. PICK row \in RunRows : run' = [run EXCEPT ![r] = row]
    BY <2>1 DEF QuarantinePoisonCandidate, RecoverExpired, QuarantineExpiredClaim,
           RunRows, RunStatuses, ClaimableRunStatuses, TerminalRunStatuses
  <2> QED
    BY <2>2
<1>4. \A type \in EventTypes : /\ AttemptEvent(type, token[r]) \in Events
                               /\ PlainEvent(type, token[r]) \in Events
  BY EventsAreTyped
<1>5. trace' \in [Run -> Seq(Events)]
  <2>1. PICK event \in Events : trace' = [trace EXCEPT ![r] = Append(@, event)]
    BY <1>4 DEF QuarantinePoisonCandidate, RecoverExpired, QuarantineExpiredClaim, EventTypes
  <2> QED
    BY <2>1
<1>6. UNCHANGED <<obligations, job, inbox, claim, booking>>
  BY DEF QuarantinePoisonCandidate, RecoverExpired, QuarantineExpiredClaim
<1>7. ParkedOnItsKind'
  BY <1>1, <1>2, <1>6 DEF ParkedOnItsKind, obligations
<1> QED
  BY <1>1, <1>2, <1>3, <1>5, <1>6, <1>7 DEF obligations

(***************************************************************************)
(* Workers: external requests and finalize.                                *)
(***************************************************************************)
\* A held claim names a run and its node, and dropping it is well typed.
LEMMA HeldClaim ==
  ASSUME TypeOK, NEW w \in Worker, claim[w] # NoClaim
  PROVE  /\ claim[w] \in Claims
         /\ claim[w].run \in Run /\ claim[w].act \in Act
         /\ Idle(w) => claim' \in [Worker -> Claims \cup {NoClaim}]
BY DEF TypeOK, Claims, Idle

\* An answer keeps the claim well formed.
LEMMA AnsweredTyped ==
  ASSUME TypeOK, NEW w \in Worker, claim[w] # NoClaim,
         NEW answer \in Answers, NEW gen \in Nat, Answered(w, answer, gen)
  PROVE  claim' \in [Worker -> Claims \cup {NoClaim}]
BY HeldClaim DEF TypeOK, Claims, Answered

\* A requested job is added to the jobs of the activation.
LEMMA StartsJobTyped ==
  ASSUME TypeOK, NEW w \in Worker, claim[w] # NoClaim,
         NEW status \in {"active", "succeeded"}, NEW answer \in Answers,
         StartsJob(w, status, answer)
  PROVE  /\ claim' \in [Worker -> Claims \cup {NoClaim}]
         /\ job' \in [Run -> [Act -> Seq({"active", "succeeded", "failed"})]]
<1> DEFINE known == job[claim[w].run][claim[w].act]
<1>1. claim[w].run \in Run /\ claim[w].act \in Act
  BY HeldClaim
<1>2. known \in Seq({"active", "succeeded", "failed"})
  BY <1>1 DEF TypeOK
<1>3. Len(known) + 1 \in Nat
  <2> HIDE DEF known
  <2> QED
    BY <1>2
<1>4. claim' \in [Worker -> Claims \cup {NoClaim}]
  BY <1>3, AnsweredTyped DEF StartsJob
<1>5. Append(known, status) \in Seq({"active", "succeeded", "failed"})
  BY <1>2
<1>6. job' = [job EXCEPT ![claim[w].run][claim[w].act] = Append(known, status)]
  BY DEF StartsJob
<1> QED
  BY <1>1, <1>4, <1>5, <1>6 DEF TypeOK

\* The external requests keep jobs and claims well formed.
LEMMA RequestTyped ==
  ASSUME TypeInv, NEW w \in Worker, RequestChart(w) \/ RequestMessage(w)
  PROVE  TypeInv'
<1> DEFINE Good == /\ claim' \in [Worker -> Claims \cup {NoClaim}]
                   /\ job' \in [Run -> [Act -> Seq({"active", "succeeded", "failed"})]]
<1>1. claim[w] # NoClaim /\ TypeOK
  BY DEF RequestChart, RequestMessage, TypeInv
<1>2. claim[w].run \in Run /\ claim[w].act \in Act
  BY <1>1, HeldClaim
<1>3. Len(job[claim[w].run][claim[w].act]) \in Nat
  BY <1>1, <1>2 DEF TypeOK
<1>4. \A answer \in Answers, gen \in Nat : Answered(w, answer, gen) /\ job' = job => Good
  BY <1>1, AnsweredTyped DEF TypeOK
<1>5. \A status \in {"active", "succeeded"}, answer \in Answers :
        StartsJob(w, status, answer) => Good
  BY <1>1, StartsJobTyped
<1>6. ASSUME RequestChart(w) PROVE Good
  BY <1>3, <1>4, <1>5, <1>6 DEF RequestChart, Answers
<1>7. ASSUME RequestMessage(w) PROVE Good
  BY <1>4, <1>5, <1>7 DEF RequestMessage, Answers
<1>8. UNCHANGED <<token, run, trace, obligations, inbox, booking>>
  BY DEF RequestChart, RequestMessage
<1> QED
  BY <1>6, <1>7, <1>8 DEF TypeInv, TypeOK, ParkedOnItsKind, obligations

\* The holder of a finalizable claim stands on a node of the claimed kind.
LEMMA FinalizableClaim ==
  ASSUME TypeOK, NEW w \in Worker, NEW kind, CanFinalize(w, kind)
  PROVE  /\ claim[w].run \in Run
         /\ token[claim[w].run] \in Tokens
         /\ token[claim[w].run].node = claim[w].node
         /\ Kind[claim[w].node] = kind
         /\ Idle(w) => claim' \in [Worker -> Claims \cup {NoClaim}]
BY HeldClaim DEF TypeOK, CanFinalize, HoldsToken

\* A finalize that neither parks nor consumes a signal.
LEMMA FinalizeTerminalTyped ==
  ASSUME TypeInv, NEW w \in Worker, FinalizeTerminal(w)
  PROVE  TypeInv'
<1> DEFINE r == claim[w].run
<1> USE DEF TypeInv, TypeOK
<1>1. r \in Run /\ token[r] \in Tokens /\ claim' \in [Worker -> Claims \cup {NoClaim}]
  BY FinalizableClaim DEF FinalizeTerminal
<1>2. Released(token[r], "completed", 0) \in Tokens /\ Released(token[r], "completed", 0).state = "completed"
  BY <1>1, ReleasedIsToken DEF TokenStates, TerminalTokenStates
<1>3. token' = [token EXCEPT ![r] = Released(token[r], "completed", 0)]
  BY DEF FinalizeTerminal
<1>4. run' \in [Run -> RunRows]
  BY <1>1 DEF FinalizeTerminal, RunRows, RunStatuses, TerminalRunStatuses, Tokens
<1>5. AttemptEvent("run_completed", token[r]) \in Events
  BY <1>1, EventsAreTyped DEF EventTypes
<1>6. trace' \in [Run -> Seq(Events)]
  BY <1>1, <1>5 DEF FinalizeTerminal
<1>7. ParkedOnItsKind'
  BY <1>1, <1>2, <1>3 DEF FinalizeTerminal, ParkedOnItsKind, obligations
<1> QED
  BY <1>1, <1>2, <1>3, <1>4, <1>6, <1>7 DEF FinalizeTerminal, obligations

\* A worker moves the token along an edge of its node.
LEMMA FinalizeAdvanceTyped ==
  ASSUME TypeInv, NEW w \in Worker, FinalizeAdvance(w)
  PROVE  TypeInv'
<1> DEFINE r == claim[w].run
           n == claim[w].node
<1> USE DEF TypeInv, TypeOK
<1>1. CanFinalize(w, "step") \/ CanFinalize(w, "message")
  BY DEF FinalizeAdvance
<1>2. /\ r \in Run /\ token[r] \in Tokens /\ token[r].node = n
      /\ Kind[n] \in {"step", "message"}
      /\ claim' \in [Worker -> Claims \cup {NoClaim}]
  BY <1>1, FinalizableClaim DEF FinalizeAdvance
<1>3. n \in Node
  BY <1>2 DEF Tokens
<1>4. Kind[n] = "message" => "error" \in DOMAIN Target[n]
  BY <1>3, GraphAssumption DEF Handles
<1>5. PICK h \in DOMAIN Target[n] :
        /\ token' = [token EXCEPT ![r] = Advanced(token[r], h)]
        /\ run' = [run EXCEPT ![r] = [status |-> "running", node |-> Target[n][h]]]
  BY <1>2, <1>4 DEF FinalizeAdvance
<1>6. /\ Advanced(token[r], h) \in Tokens /\ Advanced(token[r], h).state = "runnable"
      /\ Target[n][h] \in Node
  BY <1>2, AdvancedIsToken DEF FinalizeAdvance, CanAdvance
<1>7. run' \in [Run -> RunRows]
  BY <1>5, <1>6 DEF RunRows, RunStatuses, ClaimableRunStatuses
<1>8. AttemptEvent("token_advanced", token[r]) \in Events
  BY <1>2, EventsAreTyped DEF EventTypes
<1>9. trace' \in [Run -> Seq(Events)]
  BY <1>2, <1>8 DEF FinalizeAdvance
<1>10. ParkedOnItsKind'
  BY <1>2, <1>5, <1>6 DEF FinalizeAdvance, ParkedOnItsKind, obligations
<1> QED
  BY <1>2, <1>5, <1>6, <1>7, <1>9, <1>10 DEF FinalizeAdvance, obligations

\* Parking keeps the rows of run, token and trace well formed.
LEMMA ParksTyped ==
  ASSUME TypeOK, NEW r \in Run, NEW state \in WaitingTokenStates, ParksToken(r, state)
  PROVE  /\ token' = [token EXCEPT ![r] = Released(token[r], state, 0)]
         /\ Released(token[r], state, 0).state = state
         /\ Released(token[r], state, 0).node = token[r].node
         /\ Released(token[r], state, 0).act = token[r].act
         /\ token' \in [Run -> Tokens] /\ run' \in [Run -> RunRows]
         /\ trace' \in [Run -> Seq(Events)]
<1> USE DEF TypeOK
<1>1. token[r] \in Tokens
  OBVIOUS
<1>2. /\ Released(token[r], state, 0) \in Tokens
      /\ Released(token[r], state, 0).state = state
      /\ Released(token[r], state, 0).node = token[r].node
      /\ Released(token[r], state, 0).act = token[r].act
  BY <1>1, ReleasedIsToken DEF TokenStates
<1>3. token' = [token EXCEPT ![r] = Released(token[r], state, 0)]
  BY DEF ParksToken
<1>4. run' \in [Run -> RunRows]
  BY <1>1 DEF ParksToken, RunRows, RunStatuses, Tokens
<1>5. AttemptEvent("token_waiting", token[r]) \in Events
  BY <1>1, EventsAreTyped DEF EventTypes
<1>6. trace' \in [Run -> Seq(Events)]
  BY <1>5 DEF ParksToken
<1> QED
  BY <1>2, <1>3, <1>4, <1>6

\* A work item is opened for the activation that is parked on it.
LEMMA FinalizeWorkItemTyped ==
  ASSUME TypeInv, NEW w \in Worker, FinalizeWorkItem(w)
  PROVE  TypeInv'
<1> DEFINE r == claim[w].run
<1> USE DEF TypeInv
<1>1. /\ r \in Run /\ token[r] \in Tokens /\ Kind[token[r].node] = "work_item"
      /\ claim' \in [Worker -> Claims \cup {NoClaim}]
  BY FinalizableClaim DEF FinalizeWorkItem
<1>2. /\ token' = [token EXCEPT ![r] = Released(token[r], "waiting_work_item", 0)]
      /\ Released(token[r], "waiting_work_item", 0).state = "waiting_work_item"
      /\ Released(token[r], "waiting_work_item", 0).node = token[r].node
      /\ token' \in [Run -> Tokens] /\ run' \in [Run -> RunRows]
      /\ trace' \in [Run -> Seq(Events)]
  BY <1>1, ParksTyped DEF FinalizeWorkItem, WaitingTokenStates
<1>3. [status |-> "pending", rev |-> 1] \in Items
  BY DEF Items, ActiveItemStatuses
<1>4. item' \in [Run -> [Act -> Items]]
  BY <1>1, <1>3 DEF FinalizeWorkItem, TypeOK, Tokens
<1>5. ParkedOnItsKind'
  BY <1>1, <1>2 DEF FinalizeWorkItem, ParkedOnItsKind, TypeOK
<1> QED
  BY <1>1, <1>2, <1>4, <1>5 DEF FinalizeWorkItem, TypeOK

\* An approval is opened for the activation that is parked on it, with a
\* deadline where the node has one.
LEMMA FinalizeApprovalTyped ==
  ASSUME TypeInv, NEW w \in Worker, FinalizeApproval(w)
  PROVE  TypeInv'
<1> DEFINE r == claim[w].run
           opened == [status |-> "pending", rev |-> 1,
                      deadline |-> IF token[r].node \in Expiring THEN "ahead" ELSE "none"]
<1> USE DEF TypeInv
<1>1. /\ r \in Run /\ token[r] \in Tokens /\ Kind[token[r].node] = "approval"
      /\ claim' \in [Worker -> Claims \cup {NoClaim}]
  BY FinalizableClaim DEF FinalizeApproval
<1>2. /\ token' = [token EXCEPT ![r] = Released(token[r], "waiting_approval", 0)]
      /\ Released(token[r], "waiting_approval", 0).state = "waiting_approval"
      /\ Released(token[r], "waiting_approval", 0).node = token[r].node
      /\ Released(token[r], "waiting_approval", 0).act = token[r].act
      /\ token' \in [Run -> Tokens] /\ run' \in [Run -> RunRows]
      /\ trace' \in [Run -> Seq(Events)]
  BY <1>1, ParksTyped DEF FinalizeApproval, WaitingTokenStates
<1>3. opened \in Approvals
  BY DEF Approvals, OpenApprovalStatuses
<1>4. approval' = [approval EXCEPT ![r][token[r].act] = opened]
  BY DEF FinalizeApproval
<1>5. token[r].act \in Act
  BY <1>1 DEF Tokens
<1>6. approval' \in [Run -> [Act -> Approvals]]
  BY <1>1, <1>3, <1>4, <1>5 DEF TypeOK
<1>7. approval'[r][token[r].act].deadline # "none" => token[r].node \in Expiring
  BY <1>1, <1>4, <1>5 DEF TypeOK
<1>8. \A q \in Run \ {r} : approval'[q] = approval[q] /\ token'[q] = token[q]
  BY <1>2, <1>4 DEF TypeOK
<1>9. ParkedOnItsKind'
  BY <1>1, <1>2, <1>7, <1>8 DEF ParkedOnItsKind, TypeOK
<1> QED
  BY <1>1, <1>2, <1>6, <1>9 DEF FinalizeApproval, TypeOK

\* A signal resumes or ends the run of a chart or message node; the rows of
\* run, token and trace stay well formed.
LEMMA SignaledRowsTyped ==
  ASSUME TypeInv, NEW r \in Run, NEW outcome \in {"succeeded", "failed"},
         Kind[token[r].node] \in {"chart", "message"}, CanAdvance(r),
         token' = [token EXCEPT ![r] = SignaledToken(token[r], outcome)],
         run' = [run EXCEPT ![r] = SignaledRun(token[r], outcome)],
         UNCHANGED approval
  PROVE  /\ token' \in [Run -> Tokens] /\ run' \in [Run -> RunRows]
         /\ SignaledEvent(token[r], outcome) \in Events
         /\ ParkedOnItsKind'
<1> USE DEF TypeInv, TypeOK
<1>1. token[r] \in Tokens
  OBVIOUS
<1>2. /\ SignaledToken(token[r], outcome) \in Tokens
      /\ SignaledToken(token[r], outcome).state \in {"runnable", "failed"}
      /\ SignaledRun(token[r], outcome) \in RunRows
      /\ SignaledEvent(token[r], outcome) \in Events
  BY <1>1, SignaledIsTyped DEF CanAdvance
<1>3. ParkedOnItsKind'
  BY <1>2 DEF ParkedOnItsKind
<1> QED
  BY <1>2, <1>3

\* A look marks the signals that are being ingested, and the claim.
LEMMA LookForSignalTyped ==
  ASSUME TypeInv, NEW w \in Worker, LookForSignal(w)
  PROVE  TypeInv'
<1> DEFINE r == claim[w].run
           raced(s) == s.raced \/ (/\ s.act = claim[w].act /\ s.gen = claim[w].gen
                                  /\ s.state = "inserted")
<1> USE DEF TypeInv
<1>1. claim[w] # NoClaim
  BY DEF LookForSignal, OpensWait, CanFinalize
<1>2. r \in Run /\ claim[w] \in Claims /\ inbox[r] \in SUBSET Signals
  BY <1>1, HeldClaim DEF TypeOK
<1>3. \A s \in inbox[r] : [s EXCEPT !.raced = raced(s)] \in Signals
  BY <1>2 DEF Signals
<1>4. inbox' = [inbox EXCEPT ![r] = {[s EXCEPT !.raced = raced(s)] : s \in inbox[r]}]
  BY DEF LookForSignal
<1>5. inbox' \in [Run -> SUBSET Signals]
  <2> HIDE DEF raced
  <2> QED
    BY <1>2, <1>3, <1>4 DEF TypeOK
<1>6. claim' \in [Worker -> Claims \cup {NoClaim}]
  BY <1>2 DEF LookForSignal, Claims, TypeOK
<1> QED
  BY <1>5, <1>6 DEF LookForSignal, TypeOK, ParkedOnItsKind, obligations

\* A finalized wait, alone or together with the signal it takes at once.
LEMMA FinalizeSignalWaitTyped ==
  ASSUME TypeInv, NEW w \in Worker, FinalizeSignalWait(w)
  PROVE  TypeInv'
<1> DEFINE r == claim[w].run
           t == token[r]
           c == claim[w]
           opened(status) == [status |-> status, gen |-> c.gen,
                              replay |-> c.answer = "existing"]
           event == AttemptEvent("token_waiting", t)
           parks == /\ ParksToken(r, IF Kind[t.node] = "chart" THEN "waiting_signal"
                                                              ELSE "waiting_external")
                    /\ wait' = [wait EXCEPT ![r][t.act] = opened("waiting")]
                    /\ inbox' = inbox
           consumes(outcome, rows) ==
                    /\ CanAdvance(r)
                    /\ token' = [token EXCEPT ![r] = SignaledToken(t, outcome)]
                    /\ run' = [run EXCEPT ![r] = SignaledRun(t, outcome)]
                    /\ trace' = [trace EXCEPT ![r] =
                                   @ \o <<event, SignaledEvent(t, outcome)>>]
                    /\ wait' = [wait EXCEPT ![r][t.act] = opened("consumed")]
                    /\ inbox' = [inbox EXCEPT ![r] = rows]
<1> USE DEF TypeInv
<1>1. CanFinalize(w, "chart") \/ CanFinalize(w, "message")
  BY DEF FinalizeSignalWait, OpensWait
<1>2. claim[w] # NoClaim
  BY <1>1 DEF CanFinalize
<1>3. /\ r \in Run /\ t \in Tokens /\ Kind[t.node] \in {"chart", "message"}
      /\ claim' \in [Worker -> Claims \cup {NoClaim}]
  BY <1>1, FinalizableClaim DEF FinalizeSignalWait
<1>4. t.act \in Act /\ c.gen \in Nat
  BY <1>2, <1>3, HeldClaim DEF Tokens, Claims
<1>5. /\ UNCHANGED <<item, approval, job, booking>>
      /\ \/ parks
         \/ consumes("succeeded",
              inbox[r] \cup {Signal(t.act, c.gen, "token", "succeeded", "consumed", FALSE)})
         \/ \E s \in StoredSignals(r, c.gen) :
              consumes(s.outcome, (inbox[r] \ {s}) \cup {[s EXCEPT !.state = "consumed"]})
  BY DEF FinalizeSignalWait
<1>6. \A status \in {"waiting", "consumed"} : opened(status) \in Waits
  BY <1>4 DEF Waits
<1>7. event \in Events
  BY <1>3, EventsAreTyped DEF EventTypes
<1>8. ASSUME parks PROVE TypeInv'
  <2> DEFINE state == IF Kind[t.node] = "chart" THEN "waiting_signal" ELSE "waiting_external"
  <2>1. state \in WaitingTokenStates
    BY DEF WaitingTokenStates
  <2>2. /\ token' = [token EXCEPT ![r] = Released(t, state, 0)]
        /\ Released(t, state, 0).state = state
        /\ Released(t, state, 0).node = t.node
        /\ token' \in [Run -> Tokens] /\ run' \in [Run -> RunRows]
        /\ trace' \in [Run -> Seq(Events)]
    BY <1>3, <1>8, <2>1, ParksTyped
  <2>3. wait' \in [Run -> [Act -> Waits]]
    <3>1. opened("waiting") \in Waits
      BY <1>6
    <3>2. wait' = [wait EXCEPT ![r][t.act] = opened("waiting")]
      BY <1>8
    <3> HIDE DEF opened
    <3> QED
      BY <1>3, <1>4, <3>1, <3>2 DEF TypeOK
  <2>4. ParkedOnItsKind'
    BY <1>3, <1>5, <2>2 DEF ParkedOnItsKind, TypeOK
  <2> QED
    BY <1>3, <1>5, <1>8, <2>2, <2>3, <2>4 DEF TypeOK
<1>9. ASSUME NEW outcome \in {"succeeded", "failed"}, NEW rows \in SUBSET Signals,
             consumes(outcome, rows)
      PROVE  TypeInv'
  <2>1. /\ token' \in [Run -> Tokens] /\ run' \in [Run -> RunRows]
        /\ SignaledEvent(t, outcome) \in Events
        /\ ParkedOnItsKind'
    BY <1>3, <1>5, <1>9, SignaledRowsTyped
  <2>2. wait' \in [Run -> [Act -> Waits]]
    <3>1. opened("consumed") \in Waits
      BY <1>6
    <3>2. wait' = [wait EXCEPT ![r][t.act] = opened("consumed")]
      BY <1>9
    <3> HIDE DEF opened
    <3> QED
      BY <1>3, <1>4, <3>1, <3>2 DEF TypeOK
  <2>3. trace' \in [Run -> Seq(Events)]
    <3> DEFINE second == SignaledEvent(t, outcome)
    <3>1. trace' = [trace EXCEPT ![r] = trace[r] \o <<event, second>>]
      BY <1>9
    <3>2. event \in Events /\ second \in Events /\ trace[r] \in Seq(Events)
      BY <1>3, <1>7, <2>1 DEF TypeOK
    <3> HIDE DEF event, second
    <3>3. trace[r] \o <<event, second>> \in Seq(Events)
      BY <3>2
    <3> QED
      BY <3>1, <3>3 DEF TypeOK
  <2>4. inbox' \in [Run -> SUBSET Signals]
    BY <1>3, <1>9 DEF TypeOK
  <2> QED
    BY <1>3, <1>5, <2>1, <2>2, <2>3, <2>4 DEF TypeOK
<1>10. inbox[r] \in SUBSET Signals
  BY <1>3 DEF TypeOK
<1>11. Signal(t.act, c.gen, "token", "succeeded", "consumed", FALSE) \in Signals
  BY <1>4 DEF Signal, Signals
<1>12. \A s \in StoredSignals(r, c.gen) :
         /\ s \in Signals /\ s.outcome \in {"succeeded", "failed"}
         /\ [s EXCEPT !.state = "consumed"] \in Signals
  BY <1>10 DEF StoredSignals, Signals
<1> HIDE DEF parks, consumes
<1> QED
  BY <1>5, <1>8, <1>9, <1>10, <1>11, <1>12

\* A failed attempt is retried or ends the run.
LEMMA FinalizeFailureTyped ==
  ASSUME TypeInv, NEW w \in Worker, FinalizeFailure(w)
  PROVE  TypeInv'
<1> DEFINE r == claim[w].run
<1> USE DEF TypeInv, TypeOK
<1>1. r \in Run /\ token[r] \in Tokens /\ claim' \in [Worker -> Claims \cup {NoClaim}]
  BY HeldClaim DEF FinalizeFailure
<1>2. PICK state \in {"retry_scheduled", "failed"} :
        token' = [token EXCEPT ![r] = Released(token[r], state, 0)]
  BY DEF FinalizeFailure
<1>3. Released(token[r], state, 0) \in Tokens /\ Released(token[r], state, 0).state = state
  BY <1>1, ReleasedIsToken DEF TokenStates, TerminalTokenStates, ClaimableTokenStates
<1>4. PICK status \in {"failed_retryable", "failed_terminal"} :
        run' = [run EXCEPT ![r] = [status |-> status, node |-> token[r].node]]
  BY DEF FinalizeFailure
<1>5. run' \in [Run -> RunRows]
  BY <1>1, <1>4 DEF RunRows, RunStatuses, ClaimableRunStatuses, TerminalRunStatuses, Tokens
<1>6. \A type \in EventTypes : AttemptEvent(type, token[r]) \in Events
  BY <1>1, EventsAreTyped
<1>7. PICK type \in {"token_retry_scheduled", "run_failed"} :
        trace' = [trace EXCEPT ![r] = Append(@, AttemptEvent(type, token[r]))]
  BY DEF FinalizeFailure
<1>8. trace' \in [Run -> Seq(Events)]
  BY <1>1, <1>6, <1>7 DEF EventTypes
<1>9. ParkedOnItsKind'
  BY <1>1, <1>2, <1>3 DEF FinalizeFailure, ParkedOnItsKind, obligations
<1> QED
  BY <1>1, <1>2, <1>3, <1>5, <1>8, <1>9 DEF FinalizeFailure, obligations

\* A worker that forgets its claim changes nothing else.
LEMMA DroppedClaimTyped ==
  ASSUME TypeInv, NEW w \in Worker, FinalizeStale(w) \/ Abandon(w)
  PROVE  TypeInv'
BY HeldClaim
DEF TypeInv, TypeOK, ParkedOnItsKind, FinalizeStale, Abandon, obligations

\* The lease column moves with time, nothing else does.
LEMMA LeaseTimeTyped ==
  ASSUME TypeInv, NEW r \in Run, LeaseElapses(r) \/ ClockStepsBack(r)
  PROVE  TypeInv'
<1> USE DEF TypeInv, TypeOK
<1>1. PICK lease \in {"elapsed", "future"} : token' = [token EXCEPT ![r].lease = lease]
  BY DEF LeaseElapses, ClockStepsBack
<1>2. UNCHANGED <<run, trace, wait, item, approval, job, inbox, claim, booking>>
  BY DEF LeaseElapses, ClockStepsBack, obligations
<1>3. token[r] \in Tokens /\ token' = [token EXCEPT ![r] = [token[r] EXCEPT !.lease = lease]]
  BY <1>1
<1>4. /\ [token[r] EXCEPT !.lease = lease] \in Tokens
      /\ \A q \in Run : /\ token'[q].state = token[q].state
                        /\ token'[q].node = token[q].node
                        /\ token'[q].act = token[q].act
  BY <1>3 DEF Tokens, Leases
<1>5. token' \in [Run -> Tokens]
  BY <1>3, <1>4
<1>6. ParkedOnItsKind'
  BY <1>2, <1>4 DEF ParkedOnItsKind
<1> QED
  BY <1>2, <1>5, <1>6

(***************************************************************************)
(* Jobs and signals.                                                       *)
(***************************************************************************)
\* The end of a job fills in its last entry.
LEMMA JobEndsTyped ==
  ASSUME TypeInv, NEW r \in Run, NEW a \in Act, JobEnds(r, a)
  PROVE  TypeInv'
<1> DEFINE known == job[r][a]
<1> USE DEF TypeInv, TypeOK
<1>1. known \in Seq({"active", "succeeded", "failed"}) /\ known # << >>
  BY DEF JobEnds
<1>2. PICK outcome \in {"succeeded", "failed"} : job' = [job EXCEPT ![r][a][Len(known)] = outcome]
  BY DEF JobEnds
<1>3. [known EXCEPT ![Len(known)] = outcome] \in Seq({"active", "succeeded", "failed"})
  <2> HIDE DEF known
  <2> QED
    BY <1>1
<1>4. job' = [job EXCEPT ![r] = [job[r] EXCEPT ![a] = [known EXCEPT ![Len(known)] = outcome]]]
  BY <1>2
<1>5. job' \in [Run -> [Act -> Seq({"active", "succeeded", "failed"})]]
  <2> HIDE DEF known
  <2> QED
    BY <1>3, <1>4
<1> QED
  BY <1>5 DEF JobEnds, ParkedOnItsKind, obligations

\* A delivered signal is stored and, if it meets its wait, applied.
LEMMA IngestSignalTyped ==
  ASSUME TypeInv, NEW r \in Run, NEW a \in Act, NEW g \in DOMAIN job[r][a],
         IngestSignal(r, a, g)
  PROVE  TypeInv'
<1> DEFINE outcome == job[r][a][g]
           t == token[r]
           meets == /\ wait[r][a].status = "waiting" /\ wait[r][a].gen = g
                    /\ ~wait[r][a].replay
                    /\ t.state \in {"waiting_signal", "waiting_external"}
                    /\ run[r].status = "waiting"
<1> USE DEF TypeInv
<1>1. job[r][a] \in Seq({"active", "succeeded", "failed"})
  BY DEF TypeOK
<1>2. outcome \in {"succeeded", "failed"} /\ g \in Nat
  BY <1>1 DEF IngestSignal
<1>3. UNCHANGED <<item, approval, job, claim, booking>>
  BY DEF IngestSignal
<1>4. inbox' \in [Run -> SUBSET Signals]
  <2> DEFINE raced == \E w \in Worker : Looking(w, r, a, g)
  <2>1. PICK state \in {"consumed", "inserted"} :
          inbox' = [inbox EXCEPT ![r] = @ \cup {Signal(a, g, "job", outcome, state, raced)}]
    BY DEF IngestSignal
  <2>2. raced \in BOOLEAN
    OBVIOUS
  <2> HIDE DEF raced
  <2>3. Signal(a, g, "job", outcome, state, raced) \in Signals
    BY <1>2, <2>2 DEF Signal, Signals
  <2> QED
    BY <2>1, <2>3 DEF TypeOK
<1>5. CASE ~meets
  <2>1. UNCHANGED <<token, run, trace, wait>>
    BY <1>5 DEF IngestSignal
  <2> QED
    BY <1>3, <1>4, <2>1 DEF TypeOK, ParkedOnItsKind
<1>6. CASE meets
  <2>1. /\ CanAdvance(r)
        /\ token' = [token EXCEPT ![r] = SignaledToken(t, outcome)]
        /\ run' = [run EXCEPT ![r] = SignaledRun(t, outcome)]
        /\ trace' = [trace EXCEPT ![r] = Append(@, SignaledEvent(t, outcome))]
        /\ wait' = [wait EXCEPT ![r][a].status = "consumed"]
    BY <1>6 DEF IngestSignal
  <2>2. Kind[t.node] \in {"chart", "message"}
    BY <1>6 DEF ParkedOnItsKind
  <2>3. /\ token' \in [Run -> Tokens] /\ run' \in [Run -> RunRows]
        /\ SignaledEvent(t, outcome) \in Events
        /\ ParkedOnItsKind'
    BY <1>2, <1>3, <2>1, <2>2, SignaledRowsTyped
  <2>4. trace' \in [Run -> Seq(Events)]
    BY <2>1, <2>3 DEF TypeOK
  <2>5. wait' \in [Run -> [Act -> Waits]]
    <3> DEFINE row == wait[r][a]
    <3>a. row \in Waits
      BY DEF TypeOK
    <3>1. [row EXCEPT !.status = "consumed"] \in Waits
      <4> HIDE DEF row
      <4> QED
        BY <3>a DEF Waits
    <3>2. wait' = [wait EXCEPT ![r] = [wait[r] EXCEPT ![a] =
                                         [row EXCEPT !.status = "consumed"]]]
      BY <2>1
    <3> HIDE DEF row
    <3> QED
      BY <3>1, <3>2 DEF TypeOK
  <2> QED
    BY <1>3, <1>4, <2>3, <2>4, <2>5 DEF TypeOK
<1> QED
  BY <1>5, <1>6

\* An ingest without a wait commits its signal or takes it back.
LEMMA SignalSettledTyped ==
  ASSUME TypeInv, NEW r \in Run, CommitSignal(r) \/ RollbackSignal(r)
  PROVE  TypeInv'
<1> USE DEF TypeInv
<1>1. inbox[r] \in SUBSET Signals
  BY DEF TypeOK
<1>2. \A s \in inbox[r] : [s EXCEPT !.state = "stored"] \in Signals
  BY <1>1 DEF Signals
<1>3. PICK rows \in SUBSET Signals : inbox' = [inbox EXCEPT ![r] = rows]
  <2>1. CASE CommitSignal(r)
    <3>1. PICK s \in inbox[r] :
            inbox' = [inbox EXCEPT ![r] = (@ \ {s}) \cup {[s EXCEPT !.state = "stored"]}]
      BY <2>1 DEF CommitSignal
    <3> QED
      BY <1>1, <1>2, <3>1
  <2>2. CASE RollbackSignal(r)
    BY <1>1, <2>2 DEF RollbackSignal
  <2> QED
    BY <2>1, <2>2
<1>4. inbox' \in [Run -> SUBSET Signals]
  BY <1>3 DEF TypeOK
<1> QED
  BY <1>4 DEF CommitSignal, RollbackSignal, TypeOK, ParkedOnItsKind, obligations

(***************************************************************************)
(* Work items and approvals.                                               *)
(***************************************************************************)
\* A work item takes a new status under its next revision.
LEMMA ItemBecomesTyped ==
  ASSUME TypeOK, NEW r \in Run, NEW a \in Act,
         NEW status \in {"pending", "in_progress", "snoozed", "completed"},
         ItemBecomes(r, a, status)
  PROVE  item' \in [Run -> [Act -> Items]]
<1>1. item[r][a] \in Items
  BY DEF TypeOK
<1>2. item[r][a].rev + 1 \in Nat
  BY <1>1 DEF Items
<1>3. [status |-> status, rev |-> item[r][a].rev + 1] \in Items
  BY <1>2 DEF Items, ActiveItemStatuses
<1>4. item' = [item EXCEPT ![r][a] = [status |-> status, rev |-> item[r][a].rev + 1]]
  BY DEF ItemBecomes
<1> QED
  BY <1>3, <1>4 DEF TypeOK

\* Commands and the sweep change the item and the trace only.
LEMMA ItemMoveTyped ==
  ASSUME TypeInv, NEW r \in Run, NEW a \in Act,
         WorkItemCommand(r, a) \/ WakeWorkItem(r, a)
  PROVE  TypeInv'
<1> USE DEF TypeInv
<1>1. item' \in [Run -> [Act -> Items]]
  BY ItemBecomesTyped DEF WorkItemCommand, WakeWorkItem
<1>2. PlainEvent("work_item_available", token[r]) \in Events
  BY EventsAreTyped DEF EventTypes, TypeOK
<1>3. trace' \in [Run -> Seq(Events)]
  <2>1. CASE WorkItemCommand(r, a)
    BY <2>1 DEF WorkItemCommand, TypeOK
  <2>2. CASE WakeWorkItem(r, a)
    <3>1. trace' = [trace EXCEPT ![r] = Append(trace[r], PlainEvent("work_item_available", token[r]))]
      BY <2>2 DEF WakeWorkItem
    <3> QED
      BY <1>2, <3>1 DEF TypeOK
  <2> QED
    BY <2>1, <2>2
<1>4. UNCHANGED <<token, run, wait, approval, job, inbox, claim, booking>>
  BY DEF WorkItemCommand, WakeWorkItem
<1> QED
  BY <1>1, <1>3, <1>4 DEF TypeOK, ParkedOnItsKind

\* A completed work item moves its token along "success".
LEMMA CompleteWorkItemTyped ==
  ASSUME TypeInv, NEW r \in Run, NEW a \in Act, CompleteWorkItem(r, a)
  PROVE  TypeInv'
<1> USE DEF TypeInv
<1>1. token[r] \in Tokens /\ token[r].node \in Node /\ token[r].act < MaxActivation
  BY DEF TypeOK, Tokens, CompleteWorkItem, CanAdvance
<1>2. Kind[token[r].node] = "work_item"
  BY DEF CompleteWorkItem, ItemRuntimeCoherent, ParkedOnItsKind
<1>3. "success" \in DOMAIN Target[token[r].node]
  BY <1>1, <1>2, GraphAssumption DEF Handles
<1>4. /\ Advanced(token[r], "success") \in Tokens
      /\ Advanced(token[r], "success").state = "runnable"
      /\ Target[token[r].node]["success"] \in Node
  BY <1>1, <1>3, AdvancedIsToken
<1>5. token' = [token EXCEPT ![r] = Advanced(token[r], "success")]
  BY DEF CompleteWorkItem
<1>6. run' \in [Run -> RunRows]
  BY <1>4 DEF CompleteWorkItem, TypeOK, RunRows, RunStatuses, ClaimableRunStatuses
<1>7. item' \in [Run -> [Act -> Items]]
  BY ItemBecomesTyped DEF CompleteWorkItem
<1>8. PlainEvent("token_advanced", token[r]) \in Events
  BY <1>1, EventsAreTyped DEF EventTypes
<1>9. trace' \in [Run -> Seq(Events)]
  BY <1>8 DEF CompleteWorkItem, TypeOK
<1>10. ParkedOnItsKind'
  BY <1>4, <1>5 DEF CompleteWorkItem, ParkedOnItsKind, TypeOK
<1> QED
  BY <1>4, <1>5, <1>6, <1>7, <1>9, <1>10 DEF CompleteWorkItem, TypeOK

\* An approval takes a new status under its next revision and keeps its deadline.
LEMMA ApprovalBecomesTyped ==
  ASSUME TypeOK, NEW r \in Run, NEW a \in Act,
         NEW status \in {"pending", "snoozed", "approved", "rejected", "expired"},
         ApprovalBecomes(r, a, status)
  PROVE  /\ approval' \in [Run -> [Act -> Approvals]]
         /\ \A q \in Run, b \in Act : approval'[q][b].deadline = approval[q][b].deadline
<1> DEFINE row == [approval[r][a] EXCEPT !.status = status, !.rev = @ + 1]
<1>1. approval[r][a] \in Approvals /\ approval[r][a].rev + 1 \in Nat
  BY DEF TypeOK, Approvals
<1>2. row \in Approvals /\ row.deadline = approval[r][a].deadline
  BY <1>1 DEF Approvals, OpenApprovalStatuses
<1>3. approval' = [approval EXCEPT ![r] = [approval[r] EXCEPT ![a] = row]]
  BY DEF ApprovalBecomes, TypeOK
<1> HIDE DEF row
<1> QED
  BY <1>2, <1>3 DEF TypeOK

\* Snoozing and waking change the approval and the trace only.
LEMMA ApprovalMoveTyped ==
  ASSUME TypeInv, NEW r \in Run, NEW a \in Act,
         SnoozeApproval(r, a) \/ WakeApproval(r, a)
  PROVE  TypeInv'
<1> USE DEF TypeInv
<1>1. /\ approval' \in [Run -> [Act -> Approvals]]
      /\ \A q \in Run, b \in Act : approval'[q][b].deadline = approval[q][b].deadline
  BY ApprovalBecomesTyped DEF SnoozeApproval, WakeApproval
<1>2. PlainEvent("approval_available", token[r]) \in Events
  BY EventsAreTyped DEF EventTypes, TypeOK
<1>3. trace' \in [Run -> Seq(Events)]
  <2>1. CASE SnoozeApproval(r, a)
    BY <2>1 DEF SnoozeApproval, TypeOK
  <2>2. CASE WakeApproval(r, a)
    <3>1. trace' = [trace EXCEPT ![r] = Append(trace[r], PlainEvent("approval_available", token[r]))]
      BY <2>2 DEF WakeApproval
    <3> QED
      BY <1>2, <3>1 DEF TypeOK
  <2> QED
    BY <2>1, <2>2
<1>4. UNCHANGED <<token, run, wait, item, job, inbox, claim, booking>>
  BY DEF SnoozeApproval, WakeApproval
<1>5. \A q \in Run : token[q].act \in Act
  BY DEF TypeOK, Tokens
<1>6. ParkedOnItsKind'
  BY <1>1, <1>4, <1>5 DEF ParkedOnItsKind
<1> QED
  BY <1>1, <1>3, <1>4, <1>6 DEF TypeOK

\* A deadline can pass only where there is one.
LEMMA DeadlinePassesTyped ==
  ASSUME TypeInv, NEW r \in Run, NEW a \in Act, DeadlinePasses(r, a)
  PROVE  TypeInv'
<1> DEFINE row == approval[r][a]
<1> USE DEF TypeInv
<1>1. row \in Approvals /\ row.deadline = "ahead"
  BY DEF DeadlinePasses, TypeOK
<1>2. approval' = [approval EXCEPT ![r] = [approval[r] EXCEPT ![a] =
                                             [row EXCEPT !.deadline = "passed"]]]
  BY DEF DeadlinePasses
<1> HIDE DEF row
<1>3. [row EXCEPT !.deadline = "passed"] \in Approvals
  BY <1>1 DEF Approvals
<1>4. approval' \in [Run -> [Act -> Approvals]]
  BY <1>2, <1>3 DEF TypeOK
<1>5. \A q \in Run, b \in Act :
        approval'[q][b].deadline # "none" => approval[q][b].deadline # "none"
  BY <1>1, <1>2 DEF TypeOK, row
<1>6. UNCHANGED <<token, run, trace, wait, item, job, inbox, claim, booking>>
  BY DEF DeadlinePasses
<1>7. \A q \in Run : token[q].act \in Act
  BY DEF TypeOK, Tokens
<1>8. ParkedOnItsKind'
  BY <1>5, <1>6, <1>7 DEF ParkedOnItsKind
<1> QED
  BY <1>4, <1>6, <1>8 DEF TypeOK

\* A decided or expired approval moves its token along an edge of its node.
LEMMA SettledApprovalTyped ==
  ASSUME TypeInv, NEW r \in Run, NEW a \in Act,
         DecideApproval(r, a) \/ ExpireApproval(r, a)
  PROVE  TypeInv'
<1> USE DEF TypeInv
<1>1. PICK handle \in {"approved", "rejected", "timeout"},
           status \in {"approved", "rejected", "expired"},
           type \in {"token_advanced", "approval_expired"} :
        /\ AdvancesApproval(r, a, handle, status, type)
        /\ handle = "timeout" => approval[r][a].deadline = "passed"
  BY DEF DecideApproval, ExpireApproval
<1>2. /\ token[r] \in Tokens /\ token[r].node \in Node /\ token[r].act < MaxActivation
      /\ token[r].act = a /\ token[r].state = "waiting_approval"
  BY <1>1 DEF TypeOK, Tokens, AdvancesApproval, ApprovalRuntimeCoherent, CanAdvance
<1>3. /\ Kind[token[r].node] = "approval"
      /\ handle = "timeout" => token[r].node \in Expiring
  BY <1>1, <1>2 DEF ParkedOnItsKind
<1>4. handle \in DOMAIN Target[token[r].node]
  BY <1>2, <1>3, GraphAssumption DEF Handles
<1>5. /\ Advanced(token[r], handle) \in Tokens
      /\ Advanced(token[r], handle).state = "runnable"
      /\ Target[token[r].node][handle] \in Node
  BY <1>2, <1>4, AdvancedIsToken
<1>6. token' = [token EXCEPT ![r] = Advanced(token[r], handle)]
  BY <1>1 DEF AdvancesApproval
<1>7. run' \in [Run -> RunRows]
  BY <1>1, <1>5 DEF AdvancesApproval, TypeOK, RunRows, RunStatuses, ClaimableRunStatuses
<1>8. PlainEvent(type, token[r]) \in Events
  BY <1>2, EventsAreTyped DEF EventTypes
<1>9. trace' \in [Run -> Seq(Events)]
  BY <1>1, <1>8 DEF AdvancesApproval, TypeOK
<1>10. /\ approval' \in [Run -> [Act -> Approvals]]
       /\ \A q \in Run, b \in Act : approval'[q][b].deadline = approval[q][b].deadline
  BY <1>1, ApprovalBecomesTyped DEF AdvancesApproval
<1>11. \A q \in Run : token[q].act \in Act
  BY DEF TypeOK, Tokens
<1>12. ParkedOnItsKind'
  BY <1>5, <1>6, <1>10, <1>11 DEF ParkedOnItsKind, TypeOK
<1> QED
  BY <1>1, <1>5, <1>6, <1>7, <1>9, <1>10, <1>12 DEF AdvancesApproval, TypeOK

(***************************************************************************)
(* Cancellation and the booking.                                           *)
(***************************************************************************)
\* Canceling any set of runs keeps the rows well formed.
LEMMA CancelsRunsTyped ==
  ASSUME TypeInv, NEW runs \in SUBSET Run, CancelsRuns(runs), UNCHANGED approval
  PROVE  /\ token' \in [Run -> Tokens] /\ run' \in [Run -> RunRows]
         /\ trace' \in [Run -> Seq(Events)]
         /\ wait' \in [Run -> [Act -> Waits]] /\ item' \in [Run -> [Act -> Items]]
         /\ ParkedOnItsKind'
<1> USE DEF TypeInv
<1>1. \A r \in Run : /\ Released(token[r], "canceled", 1) \in Tokens
                     /\ Released(token[r], "canceled", 1).state = "canceled"
  BY ReleasedIsToken DEF TypeOK, TokenStates, TerminalTokenStates
<1>2. \A r \in Run : token'[r] = IF r \in runs THEN Released(token[r], "canceled", 1)
                                              ELSE token[r]
  BY DEF CancelsRuns
<1>3. token' \in [Run -> Tokens]
  BY <1>1 DEF CancelsRuns, TypeOK
<1>4. ParkedOnItsKind'
  BY <1>1, <1>2 DEF ParkedOnItsKind
<1>5. \A r \in Run : [run[r] EXCEPT !.status = "canceled"] \in RunRows
  <2> SUFFICES ASSUME NEW row \in RunRows PROVE [row EXCEPT !.status = "canceled"] \in RunRows
    BY DEF TypeOK
  <2> QED
    BY DEF RunRows, RunStatuses, TerminalRunStatuses
<1>6. run' \in [Run -> RunRows]
  BY <1>5 DEF CancelsRuns, TypeOK
<1>7. \A r \in Run : CanceledTrace(r) \in Seq(Events)
  <2> SUFFICES ASSUME NEW r \in Run PROVE CanceledTrace(r) \in Seq(Events)
    OBVIOUS
  <2>1. /\ AttemptEvent("run_canceled", token[r]) \in Events
        /\ PlainEvent("run_canceled", token[r]) \in Events
    BY EventsAreTyped DEF TypeOK, EventTypes
  <2> QED
    BY <2>1 DEF CanceledTrace, TypeOK
<1>8. trace' \in [Run -> Seq(Events)]
  BY <1>7 DEF CancelsRuns, TypeOK
<1>9. \A r \in Run : CanceledWait(r) \in [Act -> Waits]
  <2> SUFFICES ASSUME NEW r \in Run PROVE CanceledWait(r) \in [Act -> Waits]
    OBVIOUS
  <2> DEFINE row == wait[r][token[r].act]
             status == IF row.status = "waiting" THEN "canceled" ELSE row.status
  <2>1. token[r].act \in Act /\ wait[r] \in [Act -> Waits]
    BY DEF TypeOK, Tokens
  <2>2. row \in Waits
    BY <2>1
  <2>3. CanceledWait(r) = [wait[r] EXCEPT ![token[r].act] = [row EXCEPT !.status = status]]
    BY DEF CanceledWait
  <2> HIDE DEF row
  <2>4. [row EXCEPT !.status = status] \in Waits
    BY <2>2 DEF Waits
  <2> QED
    BY <2>1, <2>3, <2>4
<1>10. wait' \in [Run -> [Act -> Waits]]
  BY <1>9 DEF CancelsRuns, TypeOK
<1>11. \A r \in Run : CanceledItems(r) \in [Act -> Items]
  <2> SUFFICES ASSUME NEW r \in Run, NEW a \in Act
               PROVE  [status |-> "canceled", rev |-> item[r][a].rev + 1] \in Items
    BY DEF CanceledItems, TypeOK
  <2>1. item[r][a] \in Items
    BY DEF TypeOK
  <2>2. item[r][a].rev + 1 \in Nat
    BY <2>1 DEF Items
  <2> QED
    BY <2>2 DEF Items
<1>12. item' \in [Run -> [Act -> Items]]
  BY <1>11 DEF CancelsRuns, TypeOK
<1> QED
  BY <1>3, <1>4, <1>6, <1>8, <1>10, <1>12

\* Cancellation by the owner or by the booking.
LEMMA CancellationTyped ==
  ASSUME TypeInv, BookingCancel \/ \E r \in Run : CancelRun(r)
  PROVE  TypeInv'
<1> USE DEF TypeInv
<1>1. OpenBookingRuns \in SUBSET Run
  BY GraphAssumption DEF OpenBookingRuns
<1>2. PICK runs \in SUBSET Run : CancelsRuns(runs)
  BY <1>1 DEF BookingCancel, CancelRun
<1>3. UNCHANGED <<approval, job, inbox, claim>>
  BY DEF BookingCancel, CancelRun
<1>4. booking' \in [state : {"confirmed", "cancelled", "completed"}, revision : Nat]
  <2>1. CASE BookingCancel
    BY <2>1 DEF BookingCancel, BookingMoves, TypeOK
  <2>2. CASE \E r \in Run : CancelRun(r)
    BY <2>2 DEF CancelRun, TypeOK
  <2> QED
    BY <2>1, <2>2
<1> QED
  BY <1>2, <1>3, <1>4, CancelsRunsTyped DEF TypeOK

\* A rescheduled booking moves the deadlines and the wake times of its work items.
LEMMA BookingRescheduleTyped ==
  ASSUME TypeInv, BookingReschedule
  PROVE  TypeInv'
<1> DEFINE due == {r \in OpenBookingRuns : /\ token[r].state = "waiting_work_item"
                                           /\ token[r].node \in BookingDue}
           moved(r, woken) ==
             [status |-> IF r \in woken THEN "pending" ELSE item[r][token[r].act].status,
              rev |-> item[r][token[r].act].rev + 1]
<1> USE DEF TypeInv
<1>1. PICK woken \in SUBSET Run :
        item' = [r \in Run |-> IF r \in due
                   THEN [item[r] EXCEPT ![token[r].act] = moved(r, woken)]
                   ELSE item[r]]
  BY GraphAssumption DEF BookingReschedule, OpenBookingRuns
<1>2. \A r \in Run : moved(r, woken) \in Items
  <2> SUFFICES ASSUME NEW r \in Run PROVE moved(r, woken) \in Items
    OBVIOUS
  <2> DEFINE row == item[r][token[r].act]
  <2>1. row \in Items
    BY DEF TypeOK, Tokens
  <2> HIDE DEF row
  <2>2. row.rev + 1 \in Nat
    BY <2>1 DEF Items
  <2>3. [status |-> IF r \in woken THEN "pending" ELSE row.status, rev |-> row.rev + 1] \in Items
    BY <2>1, <2>2 DEF Items, ActiveItemStatuses
  <2> QED
    BY <2>3 DEF row
<1> HIDE DEF due, moved
<1>3. item' \in [Run -> [Act -> Items]]
  BY <1>1, <1>2 DEF TypeOK
<1>4. \A r \in Run : PlainEvent("booking_rescheduled", token[r]) \in Events
  BY EventsAreTyped DEF EventTypes, TypeOK
<1>5. trace' \in [Run -> Seq(Events)]
  <2>1. \A r \in Run : Append(trace[r], PlainEvent("booking_rescheduled", token[r])) \in Seq(Events)
    BY <1>4 DEF TypeOK
  <2>2. trace' = [r \in Run |-> IF r \in OpenBookingRuns
                    THEN Append(trace[r], PlainEvent("booking_rescheduled", token[r]))
                    ELSE trace[r]]
    BY DEF BookingReschedule
  <2> QED
    BY <2>1, <2>2 DEF TypeOK
<1>6. booking' \in [state : {"confirmed", "cancelled", "completed"}, revision : Nat]
  BY DEF BookingReschedule, BookingMoves, TypeOK
<1>7. UNCHANGED <<token, run, wait, approval, job, inbox, claim>>
  BY DEF BookingReschedule
<1> QED
  BY <1>3, <1>5, <1>6, <1>7 DEF TypeOK, ParkedOnItsKind

(***************************************************************************)
(* The type theorem.                                                       *)
(***************************************************************************)
\* Every step keeps the invariant.
LEMMA StepTyped == TypeInv /\ [Next]_vars => TypeInv'
<1> SUFFICES ASSUME TypeInv, [Next]_vars PROVE TypeInv'
  OBVIOUS
<1>1. CASE \E w \in Worker : WorkerStep(w)
  BY <1>1, ClaimTyped, RequestTyped, FinalizeTerminalTyped, FinalizeAdvanceTyped,
     FinalizeWorkItemTyped, FinalizeApprovalTyped, LookForSignalTyped,
     FinalizeSignalWaitTyped, FinalizeFailureTyped, DroppedClaimTyped
  DEF WorkerStep
<1>2. CASE \E r \in Run : TokenStep(r)
  BY <1>2, QuarantineTyped, LeaseTimeTyped, SignalSettledTyped, CancellationTyped
  DEF TokenStep
<1>3. CASE \E r \in Run, a \in Act : ObligationStep(r, a)
  BY <1>3, JobEndsTyped, IngestSignalTyped, ItemMoveTyped, CompleteWorkItemTyped,
     ApprovalMoveTyped, DeadlinePassesTyped, SettledApprovalTyped
  DEF ObligationStep
<1>4. CASE BookingCancel \/ BookingReschedule
  BY <1>4, CancellationTyped, BookingRescheduleTyped
<1>5. CASE UNCHANGED vars
  BY <1>5 DEF TypeInv, TypeOK, ParkedOnItsKind, vars
<1> QED
  BY <1>1, <1>2, <1>3, <1>4, <1>5 DEF Next

\* In every behaviour, for every graph, every row has its type and every waiting
\* token stands on a node of the kind it waits for, so an edge is always there.
THEOREM TypesHold == Spec => []TypeInv
<1>1. Init => TypeInv
  BY InitTyped
<1>2. TypeInv /\ [Next]_vars => TypeInv'
  BY StepTyped
<1> QED
  BY <1>1, <1>2, PTL DEF Spec

\* TypeOK, the type invariant of the runs.
THEOREM TypeCorrect == Spec => []TypeOK
<1>1. TypeInv => TypeOK
  BY DEF TypeInv
<1> QED
  BY <1>1, TypesHold, PTL
==============================================================================
