------------------------- MODULE FlowSignalRendezvous -------------------------
(***************************************************************************)
(* A terminal signal of a chart job meets the runs that wait for the job,  *)
(* statement by statement.  finalize(wait_signal) inserts a wait and then  *)
(* looks for a stored signal; ingest inserts a signal and then looks for a *)
(* wait.  Both run under READ COMMITTED: a statement sees what was         *)
(* committed when it started and the transaction's own writes, and         *)
(* SELECT ... FOR UPDATE waits for a locked row and checks it again.       *)
(*                                                                         *)
(* All runs ask for the same chart, so a run may join the active job of    *)
(* another one or have its succeeded result replayed.  A run's wait, token *)
(* and run rows count as one row here; every transaction locks them        *)
(* together, or is aborted and tried again.                                *)
(***************************************************************************)
EXTENDS Integers, Sequences, FiniteSets

CONSTANTS
  Run,      \* runs with one natal_chart_request activation each
  Courier,  \* workers that deliver terminal signals
  Nobody,   \* no row
  MaxJobs   \* bound: jobs created for the fingerprint

ASSUME RendezvousAssumption ==
  /\ IsFiniteSet(Run) /\ Run \cap Courier = {}
  /\ Nobody \notin Run \cup Courier \cup Nat /\ Run \cap Nat = {}
  /\ MaxJobs \in Nat \ {0}

\* A process runs transactions: a run's finalize, or a courier's ingest.
Proc == Run \cup Courier

\* Where a signal comes from: a job's terminal event, or the token that
\* replays a result that already exists.
Source == (1 .. MaxJobs) \cup Run

VARIABLES
  job,    \* the jobs of the fingerprint, in order of creation
  run,    \* per run: where its activation is, the job it was answered with
  inbox,  \* committed signals
  older,  \* per wait, those with an earlier createdAt, committed or not
  tx      \* open transactions

vars == <<job, run, inbox, older, tx>>

\* "took" is the wait row locked for consumption.  "before" is history: the
\* waits (for a courier) or signals (for a finalize) the transaction was opened
\* after.
NoTx == [at |-> "none", src |-> Nobody, seen |-> {}, took |-> Nobody, before |-> {}]

Init ==
  /\ job = << >>
  /\ run = [r \in Run |-> [at |-> "idle", job |-> 0, replay |-> FALSE]]
  /\ inbox = [s \in Source |-> "absent"]
  /\ older = [r \in Run |-> {}]
  /\ tx = [p \in Proc |-> NoTx]

(***************************************************************************)
(* The job behind the runs.                                                *)
(***************************************************************************)
Answered(r, j, replay) == run' = [run EXCEPT ![r] = [at |-> "asked", job |-> j, replay |-> replay]]

\* A succeeded result is replayed, an active job joined, a failed one redone.
Ask(r) ==
  /\ run[r].at = "idle"
  /\ LET last == Len(job) IN
     IF last > 0 /\ job[last] # "failed"
       THEN Answered(r, last, job[last] = "succeeded") /\ job' = job
       ELSE /\ last < MaxJobs
            /\ job' = Append(job, "active")
            /\ Answered(r, last + 1, FALSE)
  /\ UNCHANGED <<inbox, older, tx>>

JobEnds(j) ==
  /\ job[j] = "active"
  /\ \E outcome \in {"succeeded", "failed"} : job' = [job EXCEPT ![j] = outcome]
  /\ UNCHANGED <<run, inbox, older, tx>>

(***************************************************************************)
(* Locks and visibility.                                                   *)
(***************************************************************************)
Open(p) == tx[p].at # "none"

\* A finalize holds its own run's rows, whoever consumes a wait holds that one.
RowLocked(r, p) == \E q \in Proc \ {p} : Open(q) /\ (q = r \/ tx[q].took = r)
SignalLocked(s, p) == \E q \in Proc \ {p} : Open(q) /\ tx[q].src = s

Correlation(s) == IF s \in Run THEN run[s].job ELSE s
Outcome(s) == IF s \in Run THEN "succeeded" ELSE job[s]

\* A wait that names a source takes no other one.
Matches(r, s) == run[r].job = Correlation(s) /\ (run[r].replay => s = r)

\* A committed wait that is still one, or a wait of the transaction itself.
StillWaiting(r, p) == run[r].at = "waiting" \/ r = p

\* The waits the statement of p that matches signal s sees.
VisibleWaits(p, s) == {r \in Run : Matches(r, s) /\ StillWaiting(r, p)}

StoredFor(r) == {s \in Source : inbox[s] = "stored" /\ Matches(r, s)}

(***************************************************************************)
(* finalize(wait_signal).                                                  *)
(***************************************************************************)
\* Lock the token, insert the wait and, for a result that exists, its signal.
OpenWait(r) ==
  /\ run[r].at = "asked" /\ ~Open(r)
  /\ older' = [older EXCEPT ![r] = {x \in Run : Open(x) \/ run[x].at = "waiting"}]
  /\ tx' = [tx EXCEPT ![r] = [NoTx EXCEPT !.at = "inserted",
                                          !.src = IF run[r].replay THEN r ELSE Nobody,
                                          !.before = StoredFor(r)]]
  /\ UNCHANGED <<job, run, inbox>>

\* Look for a stored signal; only one that nobody has locked is returned.
SelectSignal(r) ==
  /\ tx[r].at = "inserted"
  /\ IF run[r].replay
       THEN tx' = [tx EXCEPT ![r].at = "matching"]
       ELSE \/ /\ StoredFor(r) = {}
               /\ tx' = [tx EXCEPT ![r].at = "done"]
            \/ \E s \in StoredFor(r) :
                 /\ ~SignalLocked(s, r)
                 /\ tx' = [tx EXCEPT ![r].at = "matching", ![r].src = s]
  /\ UNCHANGED <<job, run, inbox, older>>

(***************************************************************************)
(* ingest.                                                                 *)
(***************************************************************************)
\* Insert the signal.  A redelivery waits for the row and changes nothing.
OpenIngest(c, j) ==
  /\ ~Open(c)
  /\ job[j] # "active" /\ inbox[j] = "absent" /\ ~SignalLocked(j, c)
  /\ tx' = [tx EXCEPT ![c] = [NoTx EXCEPT !.at = "matching", !.src = j,
              !.before = {r \in Run : run[r].at = "waiting" /\ Matches(r, j)}]]
  /\ UNCHANGED <<job, run, inbox, older>>

(***************************************************************************)
(* consumeFlowExecutionSignal.                                             *)
(***************************************************************************)
\* The statement that looks for a wait starts.
SelectWait(p) ==
  /\ tx[p].at = "matching"
  /\ tx' = [tx EXCEPT ![p].at = "locking", ![p].seen = VisibleWaits(p, tx[p].src)]
  /\ UNCHANGED <<job, run, inbox, older>>

\* The row it comes to next, in the order of createdAt.
Oldest(p) == {r \in tx[p].seen : older[r] \cap tx[p].seen = {}}

NothingLeft(p) == tx[p].seen = {} /\ tx' = [tx EXCEPT ![p].at = "done"]
Takes(p, r) == tx' = [tx EXCEPT ![p].at = "done", ![p].took = r, ![p].seen = {}]
Skips(p, r) == tx' = [tx EXCEPT ![p].seen = @ \ {r}]

\* Mutation of LockWait: a locked row is skipped.
LockWait_SkipLocked(p) ==
  /\ tx[p].at = "locking"
  /\ \/ NothingLeft(p)
     \/ \E r \in Oldest(p) : IF ~RowLocked(r, p) /\ StillWaiting(r, p) THEN Takes(p, r) ELSE Skips(p, r)
  /\ UNCHANGED <<job, run, inbox, older>>

\* Mutation of LockWait: a row that was waited for is not checked again.
LockWait_NoRecheck(p) ==
  /\ tx[p].at = "locking"
  /\ NothingLeft(p) \/ \E r \in Oldest(p) : ~RowLocked(r, p) /\ Takes(p, r)
  /\ UNCHANGED <<job, run, inbox, older>>

\* It locks the oldest row it saw that, once unlocked, is still waiting.
LockWait(p) ==
  /\ tx[p].at = "locking"
  /\ \/ NothingLeft(p)
     \/ \E r \in Oldest(p) : ~RowLocked(r, p) /\ IF StillWaiting(r, p) THEN Takes(p, r) ELSE Skips(p, r)
  /\ UNCHANGED <<job, run, inbox, older>>

Resumed(s) == IF Outcome(s) = "failed" THEN "failed" ELSE "advanced"

\* Everything the transaction wrote becomes visible and its locks are freed.
Commit(p) ==
  /\ tx[p].at = "done"
  /\ LET s == tx[p].src
         taken == tx[p].took IN
     /\ run' = [r \in Run |->
          IF r = taken THEN [run[r] EXCEPT !.at = Resumed(s)]
          ELSE IF r = p THEN [run[r] EXCEPT !.at = "waiting"] ELSE run[r]]
     /\ inbox' = [x \in Source |->
          IF x # s THEN inbox[x] ELSE IF taken = Nobody THEN "stored" ELSE "consumed"]
  /\ tx' = [tx EXCEPT ![p] = NoTx]
  /\ UNCHANGED <<job, older>>

\* Mutation of Rollback: the inserted wait outlives the transaction.
Rollback_KeepsWait(p) ==
  /\ Open(p)
  /\ tx' = [tx EXCEPT ![p] = NoTx]
  /\ run' = [r \in Run |-> IF r = p THEN [at |-> "idle", job |-> 0, replay |-> FALSE]
                                    ELSE run[r]]
  /\ UNCHANGED <<job, inbox, older>>

\* The process dies or PostgreSQL aborts the transaction.  A signal will be
\* delivered again; a run is claimed again once its lease has been recovered,
\* and asks again.
Rollback(p) ==
  /\ Open(p)
  /\ tx' = [tx EXCEPT ![p] = NoTx]
  /\ older' = [r \in Run |-> IF r = p THEN {} ELSE older[r] \ {p}]
  /\ run' = [r \in Run |-> IF r = p THEN [at |-> "idle", job |-> 0, replay |-> FALSE]
                                    ELSE run[r]]
  /\ UNCHANGED <<job, inbox>>

\* The owner cancels the run.
Cancel(r) ==
  /\ run[r].at \in {"idle", "asked", "waiting"}
  /\ ~RowLocked(r, Nobody)
  /\ run' = [run EXCEPT ![r].at = "canceled"]
  /\ UNCHANGED <<job, inbox, older, tx>>

Next ==
  \/ \E r \in Run : Ask(r) \/ OpenWait(r) \/ SelectSignal(r) \/ Cancel(r)
  \/ \E j \in DOMAIN job : JobEnds(j) \/ \E c \in Courier : OpenIngest(c, j)
  \/ \E p \in Proc : SelectWait(p) \/ LockWait(p) \/ Commit(p) \/ Rollback(p)

Spec == Init /\ [][Next]_vars

(***************************************************************************)
(* Properties.                                                             *)
(***************************************************************************)
\* The rows and open transactions are well formed, and no two waits are each
\* older than the other.
TypeOK ==
  /\ job \in Seq({"active", "succeeded", "failed"}) /\ Len(job) <= MaxJobs
  /\ run \in [Run -> [at : {"idle", "asked", "waiting", "advanced", "failed", "canceled"},
                      job : 0 .. MaxJobs, replay : BOOLEAN]]
  /\ inbox \in [Source -> {"absent", "stored", "consumed"}]
  /\ older \in [Run -> SUBSET Run] /\ \A r, x \in Run : x \in older[r] => r \notin older[x]
  /\ tx \in [Proc -> [at : {"none", "inserted", "matching", "locking", "done"},
                      src : Source \cup {Nobody}, seen : SUBSET Run,
                      took : Run \cup {Nobody}, before : SUBSET (Source \cup Run)]]

\* However the transactions interleave, each consumed signal has resumed exactly
\* one run and each resumed run has consumed exactly one signal (no row ties them
\* together but the two locks), and a run is failed only by a failed job.
OneSignalPerResumedRun ==
  /\ Cardinality({r \in Run : run[r].at \in {"advanced", "failed"}})
       = Cardinality({s \in Source : inbox[s] = "consumed"})
  /\ \A r \in Run :
       run[r].at \in {"advanced", "failed"} =>
         (run[r].at = "failed" <=> job[run[r].job] = "failed")

\* The half of lossless matching the two transactions do guarantee: one that
\* was opened after the other side was committed does not commit next to it
\* unmatched, whatever other transactions do in between.
LaterTransactionMatches ==
  [][\A p \in Proc :
       Open(p) /\ ~Open(p)' /\ (p \in Courier => inbox'[tx[p].src] = "stored") =>
         \A x \in tx[p].before :
           IF p \in Courier THEN run'[x].at # "waiting"
           ELSE inbox'[x] = "stored" => run'[p].at # "waiting"]_vars

\* ADR 0011: "Every signal is persisted before matching, so signal-before-wait
\* and wait-before-signal are both lossless."  Once all transactions are over,
\* no run waits next to a stored signal it matches.
SignalsAreLossless ==
  (\A p \in Proc : ~Open(p)) =>
    \A r \in Run : run[r].at = "waiting" => StoredFor(r) = {}
===============================================================================
