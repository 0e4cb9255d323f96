---------------------- MODULE FlowSignalRendezvousProofs ----------------------
(***************************************************************************)
(* For any number of runs, couriers and jobs, and whatever order the       *)
(* statements of their transactions take: every consumed signal resumes    *)
(* one run and every resumed run has consumed one, and a transaction that  *)
(* begins after the other side has been committed finds it.                *)
(***************************************************************************)
EXTENDS FlowSignalRendezvous, FiniteSetTheorems, TLAPS

(***************************************************************************)
(* The inductive invariant.  Two transactions never hold the same signal   *)
(* or the same wait, what one holds is as it was when it was locked, and   *)
(* what was committed before it began stays in its sight.                  *)
(***************************************************************************)
Fresh(r) == run[r].at \in {"idle", "asked"}
HasResumed(r) == run[r].at \in {"advanced", "failed"}

\* A finalize runs while its run has been answered; before it, nothing of the run
\* is written and no wait is younger than the run's.
RunsWait ==
  \A r \in Run :
    /\ Open(r) => run[r].at = "asked"
    /\ run[r].at \in {"asked", "waiting", "advanced", "failed"} => run[r].job \in DOMAIN job
    /\ run[r].replay => run[r].job \in DOMAIN job /\ job[run[r].job] = "succeeded"
    /\ \A x \in older[r] : Fresh(x) => Open(x)
    /\ run[r].at = "idle" => ~run[r].replay

\* A job's signal is that of a job that has ended; a token's is never left stored.
SignalsStand ==
  /\ \A j \in 1 .. MaxJobs : inbox[j] # "absent" => j \in DOMAIN job /\ job[j] # "active"
  /\ \A r \in Run : /\ inbox[r] # "stored"
                    /\ inbox[r] = "consumed" => run[r].replay /\ ~Fresh(r)

\* What a transaction that has a signal knows of it, and of the waits it has seen.
CourierStands(c) ==
  /\ tx[c].src \in DOMAIN job /\ job[tx[c].src] # "active" /\ inbox[tx[c].src] = "absent"
  /\ tx[c].at # "inserted"

FinalizeStands(r) ==
  /\ run[r].replay => tx[r].src = r
  /\ ~run[r].replay /\ tx[r].src # Nobody =>
       tx[r].src \in 1 .. MaxJobs /\ inbox[tx[r].src] = "stored" /\ run[r].job = tx[r].src
  /\ tx[r].at = "inserted" /\ ~run[r].replay => tx[r].src = Nobody
  /\ tx[r].at \in {"matching", "locking"} => tx[r].src # Nobody
  /\ tx[r].at = "locking" => r \in tx[r].seen
  /\ tx[r].at = "done" /\ tx[r].src # Nobody => tx[r].took # Nobody

WaitStands(p, r) == Matches(r, tx[p].src) /\ (r # p => ~Fresh(r))

Stands(p) ==
  Open(p) =>
    /\ p \in Courier => CourierStands(p)
    /\ p \in Run => FinalizeStands(p)
    /\ tx[p].seen # {} \/ tx[p].took # Nobody => tx[p].src # Nobody
    /\ \A r \in tx[p].seen : WaitStands(p, r)
    /\ tx[p].took # Nobody =>
         tx[p].at = "done" /\ WaitStands(p, tx[p].took) /\ StillWaiting(tx[p].took, p)

TransactionsStand == \A p \in Proc : Stands(p)

\* No signal and no wait is in the hands of two transactions.
Apart(t, u) == /\ t.src = u.src => t.src = Nobody
               /\ t.took = u.took => t.took = Nobody

OneHolder == \A p, q \in Proc : p # q /\ Open(p) /\ Open(q) => Apart(tx[p], tx[q])

\* A run is resumed with the outcome of its job, which is final.
OutcomesStand ==
  \A r \in Run : HasResumed(r) =>
    job[run[r].job] # "active" /\ (run[r].at = "failed" <=> job[run[r].job] = "failed")

ResumedRuns == {r \in Run : HasResumed(r)}
ConsumedSignals == {s \in Source : inbox[s] = "consumed"}
EqualCounts == Cardinality(ResumedRuns) = Cardinality(ConsumedSignals)

\* What was committed before a transaction is in its sight until it is over.
CourierSees(c) ==
  \A x \in tx[c].before :
    /\ x \in Run /\ ~Fresh(x) /\ Matches(x, tx[c].src)
    /\ run[x].at = "waiting" => \/ tx[c].at = "matching"
                                \/ tx[c].at = "locking" /\ x \in tx[c].seen
                                \/ tx[c].took # Nobody

FinalizeSees(r) ==
  \A x \in tx[r].before :
    /\ x \in 1 .. MaxJobs /\ x = run[r].job /\ ~run[r].replay
    /\ inbox[x] \in {"stored", "consumed"}
    /\ inbox[x] = "stored" => tx[r].at = "inserted" \/ tx[r].src = x

Sees(p) == Open(p) => (p \in Courier => CourierSees(p)) /\ (p \in Run => FinalizeSees(p))

Sight == \A p \in Proc : Sees(p)

IInv == /\ TypeOK /\ RunsWait /\ SignalsStand /\ TransactionsStand /\ OneHolder
        /\ OutcomesStand /\ EqualCounts /\ Sight

-------------------------------------------------------------------------------
Transaction == [at : {"none", "inserted", "matching", "locking", "done"},
                src : Source \cup {Nobody}, seen : SUBSET Run,
                took : Run \cup {Nobody}, before : SUBSET (Source \cup Run)]

LEMMA ProcessesDiffer ==
  /\ Run \subseteq Proc /\ Courier \subseteq Proc /\ Proc = Run \cup Courier
  /\ Run \subseteq Source /\ 1 .. MaxJobs \subseteq Source
  /\ Nobody \notin Source /\ Nobody \notin Proc /\ Nobody \notin Run
  /\ \A r \in Run : r \notin Courier /\ r \notin 1 .. MaxJobs
  /\ MaxJobs \in Nat /\ IsFiniteSet(Run) /\ IsFiniteSet(Source)
<1>1. IsFiniteSet(1 .. MaxJobs)
  BY RendezvousAssumption, FS_Interval
<1>2. IsFiniteSet(Source)
  BY <1>1, RendezvousAssumption, FS_Union DEF Source
<1>3. \A j \in 1 .. MaxJobs : j \in Nat
  BY RendezvousAssumption
<1> QED BY <1>2, <1>3, RendezvousAssumption DEF Proc, Source

LEMMA StartsApart == Init => IInv
<1> SUFFICES ASSUME Init PROVE IInv
  OBVIOUS
<1> USE DEF Init
<1>1. NoTx \in Transaction /\ NoTx.at = "none"
  BY DEF NoTx, Transaction
<1>2. TypeOK
  BY <1>1, ProcessesDiffer DEF TypeOK, Transaction
<1>3. \A p \in Proc : ~Open(p)
  BY <1>1 DEF Open
<1>4. RunsWait /\ SignalsStand
  BY <1>3, ProcessesDiffer DEF RunsWait, SignalsStand
<1>5. TransactionsStand /\ OneHolder /\ Sight
  BY <1>3 DEF TransactionsStand, Stands, OneHolder, Sight, Sees
<1>6. OutcomesStand
  BY DEF OutcomesStand, HasResumed
<1>7. EqualCounts
  <2>1. ResumedRuns = {} /\ ConsumedSignals = {}
    BY DEF ResumedRuns, ConsumedSignals, HasResumed
  <2> QED BY <2>1 DEF EqualCounts
<1> QED BY <1>2, <1>4, <1>5, <1>6, <1>7 DEF IInv

(***************************************************************************)
(* Steps of one transaction: only its own record changes.                  *)
(***************************************************************************)
LEMMA OneTransactionMoves ==
  ASSUME IInv, NEW p \in Proc, NEW t \in Transaction, t.at # "none",
         tx' = [tx EXCEPT ![p] = t], UNCHANGED <<job, run, inbox>>,
         older' \in [Run -> SUBSET Run], \A r, x \in Run : x \in older'[r] => r \notin older'[x],
         \A r \in Run : \A x \in older'[r] : Fresh(x) => Open(x) \/ x = p,
         p \in Run => run[p].at = "asked",
         Stands(p)', Sees(p)',
         \A q \in Proc : q # p /\ Open(q) => Apart(t, tx[q])
  PROVE  IInv'
<1> USE DEF IInv
<1>1. tx' \in [Proc -> Transaction] /\ tx'[p] = t /\ \A q \in Proc : q # p => tx'[q] = tx[q]
  BY DEF TypeOK, Transaction
<1>2. TypeOK'
  BY <1>1 DEF TypeOK, Transaction
<1>3. \A q \in Proc : Open(q)' <=> Open(q) \/ q = p
  BY <1>1 DEF Open
<1>4. RunsWait' /\ SignalsStand'
  BY <1>3, ProcessesDiffer DEF RunsWait, SignalsStand, Fresh
<1>5. ASSUME NEW q \in Proc, q # p PROVE Stands(q)' /\ Sees(q)'
  <2>1. tx'[q] = tx[q] /\ Stands(q) /\ Sees(q)
    BY <1>1, <1>5 DEF TransactionsStand, Sight
  <2>2. Stands(q)'
    BY <2>1 DEF Stands, Open, CourierStands, FinalizeStands, WaitStands, Matches, Correlation,
                StillWaiting, Fresh
  <2>3. Sees(q)'
    BY <2>1 DEF Sees, Open, CourierSees, FinalizeSees, Matches, Correlation, Fresh
  <2> QED BY <2>2, <2>3
<1>6. TransactionsStand' /\ Sight'
  BY <1>5 DEF TransactionsStand, Sight
<1>7. OneHolder'
  <2> SUFFICES ASSUME NEW x \in Proc, NEW y \in Proc, x # y, Open(x)', Open(y)'
               PROVE  Apart(tx'[x], tx'[y])
    BY DEF OneHolder, Apart
  <2>1. CASE x # p /\ y # p
    BY <1>1, <1>3, <2>1 DEF OneHolder
  <2>2. CASE x = p
    BY <1>1, <1>3, <2>2
  <2>3. CASE y = p
    BY <1>1, <1>3, <2>3 DEF Apart
  <2> QED BY <2>1, <2>2, <2>3
<1>8. OutcomesStand' /\ EqualCounts'
  BY DEF OutcomesStand, HasResumed, EqualCounts, ResumedRuns, ConsumedSignals
<1> QED BY <1>2, <1>4, <1>6, <1>7, <1>8

LEMMA OwnTransaction ==
  ASSUME IInv, NEW p \in Proc
  PROVE  /\ tx[p] \in Transaction /\ tx \in [Proc -> Transaction] /\ Stands(p) /\ Sees(p)
         /\ p \in Run /\ Open(p) => run[p].at = "asked"
         /\ older \in [Run -> SUBSET Run] /\ \A r, x \in Run : x \in older[r] => r \notin older[x]
         /\ \A r \in Run : \A x \in older[r] : Fresh(x) => Open(x)
         /\ \A q \in Proc : q # p /\ Open(p) /\ Open(q) => Apart(tx[p], tx[q])
  BY DEF IInv, TypeOK, Transaction, TransactionsStand, Sight, RunsWait, OneHolder

\* The signal of a token is in the hands of its own run only.
LEMMA TokensStayOwn ==
  ASSUME IInv, NEW q \in Proc, Open(q), NEW r \in Run, r # q
  PROVE  tx[q].src # r
<1> USE ProcessesDiffer
<1>1. Stands(q)
  BY DEF IInv, TransactionsStand
<1>2. CASE q \in Courier
  BY <1>1, <1>2 DEF Stands, CourierStands, IInv, TypeOK
<1>3. CASE q \in Run
  BY <1>1, <1>3 DEF Stands, FinalizeStands
<1> QED BY <1>2, <1>3

LEMMA OpenWaitKeeps ==
  ASSUME IInv, NEW r \in Run, OpenWait(r)
  PROVE  IInv'
<1> USE ProcessesDiffer
<1> DEFINE s == IF run[r].replay THEN r ELSE Nobody
           t == [NoTx EXCEPT !.at = "inserted", !.src = s, !.before = StoredFor(r)]
<1>1. /\ run[r].at = "asked" /\ ~Open(r) /\ UNCHANGED <<job, run, inbox>>
      /\ older' = [older EXCEPT ![r] = {x \in Run : Open(x) \/ run[x].at = "waiting"}]
      /\ tx' = [tx EXCEPT ![r] = t]
  BY DEF OpenWait
<1>2. /\ t \in Transaction /\ t.at = "inserted" /\ t.src = s /\ t.seen = {} /\ t.took = Nobody
      /\ t.before = StoredFor(r) /\ t.at # "none" /\ r \in Proc
  <2>1. s \in Source \cup {Nobody} /\ StoredFor(r) \in SUBSET (Source \cup Run)
    BY DEF StoredFor
  <2> HIDE DEF s
  <2> DEFINE b == StoredFor(r)
  <2>2. b \in SUBSET (Source \cup Run) /\ t = [NoTx EXCEPT !.at = "inserted", !.src = s, !.before = b]
    BY <2>1
  <2> HIDE DEF t, b
  <2>3. /\ t \in Transaction /\ t.at = "inserted" /\ t.src = s /\ t.seen = {} /\ t.took = Nobody
        /\ t.before = b
    BY <2>1, <2>2 DEF NoTx, Transaction
  <2> QED BY <2>3 DEF b
<1> HIDE DEF t
<1>3. /\ older' \in [Run -> SUBSET Run] /\ \A y \in Run : y # r => older'[y] = older[y]
      /\ older'[r] = {x \in Run : Open(x) \/ run[x].at = "waiting"}
      /\ older \in [Run -> SUBSET Run]
  BY <1>1, OwnTransaction
<1>4. r \notin older'[r] /\ \A y \in Run : r \notin older[y]
  BY <1>1, <1>3 DEF IInv, RunsWait, Fresh
<1>5. \A y, x \in Run : x \in older'[y] => y \notin older'[x]
  BY <1>3, <1>4, OwnTransaction
<1>6. \A y \in Run : \A x \in older'[y] : Fresh(x) => Open(x) \/ x = r
  BY <1>3, OwnTransaction DEF Fresh
<1>7. tx'[r] = t
  BY <1>1, OwnTransaction
<1>8. Stands(r)'
  BY <1>1, <1>2, <1>7 DEF Stands, CourierStands, FinalizeStands
<1>9. Sees(r)'
  <2>1. ASSUME NEW x \in StoredFor(r) PROVE x \in 1 .. MaxJobs /\ x = run[r].job /\ ~run[r].replay /\ inbox[x] = "stored"
    <3>1. inbox[x] = "stored" /\ x \in Source /\ Matches(r, x)
      BY DEF StoredFor
    <3>2. x \notin Run
      BY <3>1 DEF IInv, SignalsStand
    <3> QED BY <3>1, <3>2 DEF Matches, Correlation, Source
  <2> QED BY <1>1, <1>2, <1>7, <2>1 DEF Sees, FinalizeSees
<1>10. ASSUME NEW q \in Proc, q # r, Open(q) PROVE Apart(t, tx[q])
  <2>1. tx[q].src # r
    BY <1>10, TokensStayOwn
  <2> QED BY <1>2, <2>1 DEF Apart
<1> QED BY <1>1, <1>2, <1>3, <1>5, <1>6, <1>8, <1>9, <1>10, OneTransactionMoves

LEMMA SelectSignalKeeps ==
  ASSUME IInv, NEW r \in Run, SelectSignal(r)
  PROVE  IInv'
<1> USE ProcessesDiffer
<1>1. tx[r].at = "inserted" /\ UNCHANGED <<job, run, inbox, older>> /\ r \in Proc /\ r \notin Courier /\ Open(r)
  BY DEF SelectSignal, Open
<1>2. tx[r] \in Transaction /\ FinalizeStands(r) /\ FinalizeSees(r) /\ run[r].at = "asked" /\ Stands(r)
  BY <1>1, OwnTransaction DEF Stands, Sees
<1>3. \A q \in Proc : q # r /\ Open(q) => Apart(tx[r], tx[q])
  BY <1>1, OwnTransaction
<1>4. ASSUME NEW t \in Transaction, t.at # "none", tx' = [tx EXCEPT ![r] = t],
             \A q \in Proc : q # r /\ Open(q) => Apart(t, tx[q]), Stands(r)', Sees(r)'
      PROVE  IInv'
  BY <1>1, <1>2, <1>4, OwnTransaction, OneTransactionMoves
<1>5. CASE run[r].replay
  <2> DEFINE t == [tx[r] EXCEPT !.at = "matching"]
  <2>1. tx' = [tx EXCEPT ![r] = t]
    BY <1>1, <1>2, <1>5, OwnTransaction DEF SelectSignal, Transaction
  <2>2. /\ t \in Transaction /\ t.at = "matching" /\ t.src = tx[r].src /\ t.seen = tx[r].seen
        /\ t.took = tx[r].took /\ t.before = tx[r].before
    BY <1>2 DEF Transaction
  <2> HIDE DEF t
  <2>3. tx'[r] = t
    BY <2>1, OwnTransaction
  <2>4. Stands(r)'
    <3>1. t.took = Nobody
      BY <1>1, <1>2, <2>2 DEF Stands
    <3> QED BY <1>1, <1>2, <1>5, <2>2, <2>3, <3>1 DEF Stands, FinalizeStands, WaitStands, Matches, Correlation, Fresh
  <2>5. Sees(r)'
    BY <1>1, <1>2, <1>5, <2>2, <2>3 DEF Sees, FinalizeSees
  <2>6. \A q \in Proc : q # r /\ Open(q) => Apart(t, tx[q])
    BY <1>3, <2>2 DEF Apart
  <2>7. t.at # "none"
    BY <2>2
  <2> QED BY <1>4, <2>1, <2>2, <2>4, <2>5, <2>6, <2>7
<1>6. CASE ~run[r].replay
  <2>0. tx[r].src = Nobody /\ tx[r].seen = {} /\ tx[r].took = Nobody
    BY <1>1, <1>2, <1>6 DEF Stands, FinalizeStands
  <2>1. CASE StoredFor(r) = {} /\ tx' = [tx EXCEPT ![r].at = "done"]
    <3> DEFINE t == [tx[r] EXCEPT !.at = "done"]
    <3>1. tx' = [tx EXCEPT ![r] = t]
      BY <1>2, <2>1, OwnTransaction DEF Transaction
    <3>2. /\ t \in Transaction /\ t.at = "done" /\ t.src = Nobody /\ t.seen = {}
          /\ t.took = Nobody /\ t.before = tx[r].before
      BY <1>2, <2>0 DEF Transaction
    <3> HIDE DEF t
    <3>3. tx'[r] = t
      BY <3>1, OwnTransaction
    <3>4. Stands(r)'
      BY <1>1, <1>6, <3>2, <3>3 DEF Stands, FinalizeStands
    <3>5. Sees(r)'
      <4>1. \A x \in tx[r].before : inbox[x] # "stored"
        BY <1>2, <1>6, <2>1 DEF FinalizeSees, StoredFor, Matches, Correlation
      <4> QED BY <1>1, <1>2, <3>2, <3>3, <4>1 DEF Sees, FinalizeSees
    <3> QED BY <1>4, <3>1, <3>2, <3>4, <3>5 DEF Apart
  <2>2. ASSUME NEW s \in StoredFor(r), ~SignalLocked(s, r),
               tx' = [tx EXCEPT ![r].at = "matching", ![r].src = s]
        PROVE  IInv'
    <3> DEFINE t == [tx[r] EXCEPT !.at = "matching", !.src = s]
    <3>0. s \in Source /\ inbox[s] = "stored" /\ Matches(r, s) /\ s \in 1 .. MaxJobs /\ s = run[r].job
      <4>1. inbox[s] = "stored" /\ s \in Source /\ Matches(r, s)
        BY DEF StoredFor
      <4>2. s \notin Run
        BY <4>1 DEF IInv, SignalsStand
      <4> QED BY <4>1, <4>2 DEF Matches, Correlation, Source
    <3>1. tx' = [tx EXCEPT ![r] = t]
      BY <1>2, <2>2, OwnTransaction DEF Transaction
    <3>2. /\ t \in Transaction /\ t.at = "matching" /\ t.src = s /\ t.seen = {}
          /\ t.took = Nobody /\ t.before = tx[r].before
      BY <1>2, <2>0, <3>0 DEF Transaction
    <3> HIDE DEF t
    <3>3. tx'[r] = t
      BY <3>1, OwnTransaction
    <3>4. Stands(r)'
      BY <1>1, <1>6, <3>0, <3>2, <3>3 DEF Stands, FinalizeStands
    <3>5. Sees(r)'
      BY <1>1, <1>2, <3>0, <3>2, <3>3 DEF Sees, FinalizeSees
    <3>6. \A q \in Proc : q # r /\ Open(q) => Apart(t, tx[q])
      BY <2>2, <3>2 DEF SignalLocked, Apart
    <3> QED BY <1>4, <3>1, <3>2, <3>4, <3>5, <3>6
  <2> QED BY <1>6, <2>1, <2>2 DEF SelectSignal
<1> QED BY <1>5, <1>6

LEMMA OpenIngestKeeps ==
  ASSUME IInv, NEW j \in DOMAIN job, NEW c \in Courier, OpenIngest(c, j)
  PROVE  IInv'
<1> USE ProcessesDiffer
<1> DEFINE B == {r \in Run : run[r].at = "waiting" /\ Matches(r, j)}
           t == [NoTx EXCEPT !.at = "matching", !.src = j, !.before = B]
<1>1. /\ ~Open(c) /\ UNCHANGED <<job, run, inbox, older>>
      /\ job[j] # "active" /\ inbox[j] = "absent" /\ ~SignalLocked(j, c)
      /\ tx' = [tx EXCEPT ![c] = t]
  BY DEF OpenIngest
<1>2. j \in 1 .. MaxJobs /\ j \in Source /\ c \in Proc /\ c \notin Run
  BY DEF IInv, TypeOK
<1>3. /\ t \in Transaction /\ t.at = "matching" /\ t.src = j /\ t.seen = {} /\ t.took = Nobody
      /\ t.before = B /\ t.at # "none"
  <2> DEFINE b == B
  <2>1. b \in SUBSET (Source \cup Run) /\ t = [NoTx EXCEPT !.at = "matching", !.src = j, !.before = b]
    OBVIOUS
  <2> HIDE DEF t, b
  <2>2. /\ t \in Transaction /\ t.at = "matching" /\ t.src = j /\ t.seen = {} /\ t.took = Nobody
        /\ t.before = b
    BY <1>2, <2>1 DEF NoTx, Transaction
  <2> QED BY <2>2 DEF b
<1> HIDE DEF t
<1>4. tx'[c] = t
  BY <1>1, <1>2, OwnTransaction
<1>5. Stands(c)'
  BY <1>1, <1>2, <1>3, <1>4 DEF Stands, CourierStands
<1>6. Sees(c)'
  BY <1>1, <1>2, <1>3, <1>4 DEF Sees, CourierSees, Fresh, Matches, Correlation
<1>7. \A q \in Proc : q # c /\ Open(q) => Apart(t, tx[q])
  <2>1. \A q \in Proc : q # c /\ Open(q) => tx[q].src # j
    BY <1>1 DEF SignalLocked
  <2> QED BY <1>2, <1>3, <2>1 DEF Apart
<1> QED BY <1>1, <1>2, <1>3, <1>5, <1>6, <1>7, OwnTransaction, OneTransactionMoves

LEMMA SelectWaitKeeps ==
  ASSUME IInv, NEW p \in Proc, SelectWait(p)
  PROVE  IInv'
<1> USE ProcessesDiffer
<1> DEFINE s == tx[p].src
           S == VisibleWaits(p, s)
           t == [tx[p] EXCEPT !.at = "locking", !.seen = S]
<1>1. tx[p].at = "matching" /\ UNCHANGED <<job, run, inbox, older>> /\ Open(p)
  BY DEF SelectWait, Open
<1>2. tx[p] \in Transaction /\ S \in SUBSET Run
  BY OwnTransaction DEF VisibleWaits
<1>3. tx' = [tx EXCEPT ![p] = t]
  BY <1>2, OwnTransaction DEF SelectWait, Transaction
<1> HIDE DEF S
<1>4. /\ t \in Transaction /\ t.at = "locking" /\ t.src = s /\ t.seen = S /\ t.took = tx[p].took
      /\ t.before = tx[p].before
  BY <1>2 DEF Transaction
<1> HIDE DEF t
<1>5. tx'[p] = t
  BY <1>3, OwnTransaction
<1>6. /\ s # Nobody /\ tx[p].took = Nobody
      /\ p \in Courier => CourierStands(p) /\ CourierSees(p)
      /\ p \in Run => FinalizeStands(p) /\ FinalizeSees(p)
  <2>1. Stands(p) /\ Sees(p)
    BY OwnTransaction
  <2>2. p \in Courier => s \in 1 .. MaxJobs
    BY <1>1, <2>1 DEF Stands, CourierStands, IInv, TypeOK
  <2> QED BY <1>1, <2>1, <2>2 DEF Stands, Sees, FinalizeStands
<1>7. p \in Run => p \in S
  <2>1. ASSUME p \in Run PROVE Matches(p, s)
    BY <1>1, <1>6, <2>1 DEF FinalizeStands, Matches, Correlation
  <2> QED BY <2>1 DEF S, VisibleWaits, StillWaiting
<1>8. \A r \in S : Matches(r, s) /\ (r # p => ~Fresh(r))
  BY DEF S, VisibleWaits, StillWaiting, Fresh
<1>9. Stands(p)'
  <2>1. p \in Courier => CourierStands(p)'
    BY <1>1, <1>4, <1>5, <1>6 DEF CourierStands
  <2>2. p \in Run => FinalizeStands(p)'
    BY <1>1, <1>4, <1>5, <1>6, <1>7 DEF FinalizeStands
  <2>3. \A r \in S : WaitStands(p, r)'
    BY <1>1, <1>4, <1>5, <1>8 DEF WaitStands, Matches, Correlation, Fresh
  <2> QED BY <1>4, <1>5, <1>6, <2>1, <2>2, <2>3 DEF Stands
<1>10. Sees(p)'
  <2>1. p \in Courier => CourierSees(p)'
    <3>1. ASSUME p \in Courier, NEW x \in tx[p].before, run[x].at = "waiting" PROVE x \in S
      BY <1>6, <3>1 DEF CourierSees, S, VisibleWaits, StillWaiting
    <3> QED BY <1>1, <1>4, <1>5, <1>6, <3>1 DEF CourierSees, Fresh, Matches, Correlation
  <2>2. p \in Run => FinalizeSees(p)'
    BY <1>1, <1>4, <1>5, <1>6 DEF FinalizeSees
  <2> QED BY <2>1, <2>2 DEF Sees
<1>11. \A q \in Proc : q # p /\ Open(q) => Apart(t, tx[q])
  BY <1>1, <1>4, OwnTransaction DEF Apart
<1>12. t.at # "none"
  BY <1>4
<1> QED BY <1>1, <1>3, <1>4, <1>9, <1>10, <1>11, <1>12, OwnTransaction, OneTransactionMoves

LEMMA LockWaitKeeps ==
  ASSUME IInv, NEW p \in Proc, LockWait(p)
  PROVE  IInv'
<1> USE ProcessesDiffer
<1>1. tx[p].at = "locking" /\ UNCHANGED <<job, run, inbox, older>> /\ Open(p)
  BY DEF LockWait, Open
<1>2. /\ tx[p] \in Transaction /\ Stands(p) /\ Sees(p)
      /\ tx[p].took = Nobody /\ tx[p].src # Nobody
      /\ p \in Courier => CourierStands(p) /\ CourierSees(p)
      /\ p \in Run => FinalizeStands(p) /\ FinalizeSees(p)
      /\ \A r \in tx[p].seen : WaitStands(p, r)
  <2>1. Stands(p) /\ Sees(p) /\ tx[p] \in Transaction
    BY OwnTransaction
  <2>2. p \in Courier => tx[p].src \in 1 .. MaxJobs
    BY <1>1, <2>1 DEF Stands, CourierStands, IInv, TypeOK
  <2> QED BY <1>1, <2>1, <2>2 DEF Stands, Sees, FinalizeStands
<1>3. ASSUME NEW t \in Transaction, t.at # "none", tx' = [tx EXCEPT ![p] = t],
             \A q \in Proc : q # p /\ Open(q) => Apart(t, tx[q]), Stands(p)', Sees(p)'
      PROVE  IInv'
  BY <1>1, <1>3, OwnTransaction, OneTransactionMoves
<1>4. CASE NothingLeft(p)
  <2> DEFINE t == [tx[p] EXCEPT !.at = "done"]
  <2>1. tx[p].seen = {} /\ tx' = [tx EXCEPT ![p] = t]
    BY <1>2, <1>4, OwnTransaction DEF NothingLeft, Transaction
  <2>2. /\ t \in Transaction /\ t.at = "done" /\ t.src = tx[p].src /\ t.seen = {} /\ t.took = Nobody
        /\ t.before = tx[p].before
    BY <1>2, <2>1 DEF Transaction
  <2> HIDE DEF t
  <2>3. tx'[p] = t
    BY <2>1, OwnTransaction
  <2>4. p \in Courier /\ p \notin Run
    BY <1>1, <1>2, <2>1 DEF FinalizeStands
  <2>5. Stands(p)'
    <3>1. CourierStands(p)'
      BY <1>1, <1>2, <2>2, <2>3, <2>4 DEF CourierStands
    <3> QED BY <2>2, <2>3, <2>4, <3>1 DEF Stands
  <2>6. Sees(p)'
    <3>1. CourierSees(p)'
      BY <1>1, <1>2, <2>1, <2>2, <2>3, <2>4 DEF CourierSees, Fresh, Matches, Correlation
    <3> QED BY <2>4, <3>1 DEF Sees
  <2>7. \A q \in Proc : q # p /\ Open(q) => Apart(t, tx[q])
    BY <1>1, <1>2, <2>2, OwnTransaction DEF Apart
  <2> QED BY <1>3, <2>1, <2>2, <2>5, <2>6, <2>7
<1>5. ASSUME NEW r \in Oldest(p), ~RowLocked(r, p), StillWaiting(r, p), Takes(p, r)
      PROVE  IInv'
  <2> DEFINE t == [tx[p] EXCEPT !.at = "done", !.took = r, !.seen = {}]
  <2>0. r \in Run /\ r \in tx[p].seen /\ WaitStands(p, r)
    BY <1>2 DEF Oldest, Transaction
  <2>1. tx' = [tx EXCEPT ![p] = t]
    BY <1>2, <1>5, OwnTransaction DEF Takes, Transaction
  <2>2. /\ t \in Transaction /\ t.at = "done" /\ t.src = tx[p].src /\ t.seen = {} /\ t.took = r
        /\ t.before = tx[p].before
    BY <1>2, <2>0 DEF Transaction
  <2> HIDE DEF t
  <2>3. tx'[p] = t
    BY <2>1, OwnTransaction
  <2>4. Stands(p)'
    <3>1. p \in Courier => CourierStands(p)'
      BY <1>1, <1>2, <2>2, <2>3 DEF CourierStands
    <3>2. p \in Run => FinalizeStands(p)'
      BY <1>1, <1>2, <2>0, <2>2, <2>3 DEF FinalizeStands
    <3>3. WaitStands(p, r)' /\ StillWaiting(r, p)'
      BY <1>1, <1>5, <2>0, <2>2, <2>3 DEF WaitStands, StillWaiting, Matches, Correlation, Fresh
    <3> QED BY <1>2, <2>2, <2>3, <3>1, <3>2, <3>3 DEF Stands
  <2>5. Sees(p)'
    <3>1. p \in Courier => CourierSees(p)'
      BY <1>1, <1>2, <2>0, <2>2, <2>3 DEF CourierSees, Fresh, Matches, Correlation
    <3>2. p \in Run => FinalizeSees(p)'
      BY <1>1, <1>2, <2>2, <2>3 DEF FinalizeSees
    <3> QED BY <3>1, <3>2 DEF Sees
  <2>6. ASSUME NEW q \in Proc, q # p, Open(q) PROVE Apart(t, tx[q])
    <3>1. tx[q].took # r
      BY <1>5, <2>6 DEF RowLocked
    <3>2. Apart(tx[p], tx[q])
      BY <1>1, <2>6, OwnTransaction
    <3> QED BY <2>2, <3>1, <3>2 DEF Apart
  <2> QED BY <1>3, <2>1, <2>2, <2>4, <2>5, <2>6
<1>6. ASSUME NEW r \in Oldest(p), ~StillWaiting(r, p), Skips(p, r)
      PROVE  IInv'
  <2> DEFINE rest == tx[p].seen \ {r}
             t == [tx[p] EXCEPT !.seen = rest]
  <2>1. tx' = [tx EXCEPT ![p] = t]
    BY <1>2, <1>6, OwnTransaction DEF Skips, Transaction
  <2>2. /\ t \in Transaction /\ t.at = "locking" /\ t.src = tx[p].src /\ t.seen = rest /\ t.took = Nobody
        /\ t.before = tx[p].before
    BY <1>1, <1>2 DEF Transaction
  <2> HIDE DEF t
  <2>3. tx'[p] = t
    BY <2>1, OwnTransaction
  <2>4. r # p /\ run[r].at # "waiting"
    BY <1>6 DEF StillWaiting
  <2>5. Stands(p)'
    <3>1. p \in Courier => CourierStands(p)'
      BY <1>1, <1>2, <2>2, <2>3 DEF CourierStands
    <3>2. p \in Run => FinalizeStands(p)'
      BY <1>1, <1>2, <2>2, <2>3, <2>4 DEF FinalizeStands
    <3>3. \A x \in rest : WaitStands(p, x)'
      BY <1>1, <1>2, <2>2, <2>3 DEF WaitStands, Matches, Correlation, Fresh
    <3> QED BY <1>2, <2>2, <2>3, <3>1, <3>2, <3>3 DEF Stands
  <2>6. Sees(p)'
    <3>1. p \in Courier => CourierSees(p)'
      BY <1>1, <1>2, <2>2, <2>3, <2>4 DEF CourierSees, Fresh, Matches, Correlation
    <3>2. p \in Run => FinalizeSees(p)'
      BY <1>1, <1>2, <2>2, <2>3 DEF FinalizeSees
    <3> QED BY <3>1, <3>2 DEF Sees
  <2>7. \A q \in Proc : q # p /\ Open(q) => Apart(t, tx[q])
    BY <1>1, <1>2, <2>2, OwnTransaction DEF Apart
  <2>8. t.at # "none"
    BY <2>2
  <2> QED BY <1>3, <2>1, <2>2, <2>5, <2>6, <2>7, <2>8
<1> QED BY <1>4, <1>5, <1>6 DEF LockWait

(***************************************************************************)
(* Steps of the runs and the jobs.                                         *)
(***************************************************************************)
LEMMA CancelKeeps ==
  ASSUME IInv, NEW r \in Run, Cancel(r)
  PROVE  IInv'
<1> USE ProcessesDiffer DEF IInv
<1>1. /\ run[r].at \in {"idle", "asked", "waiting"} /\ UNCHANGED <<job, inbox, older, tx>>
      /\ run' = [run EXCEPT ![r].at = "canceled"]
  BY DEF Cancel
<1>2. /\ TypeOK'
      /\ \A x \in Run : /\ run'[x].job = run[x].job /\ run'[x].replay = run[x].replay
                        /\ run'[x].at = IF x = r THEN "canceled" ELSE run[x].at
  BY <1>1 DEF TypeOK
<1>3. /\ \A q \in Proc : Open(q)' <=> Open(q)
      /\ \A q \in Proc : Open(q) => q # r /\ tx[q].took # r
  BY <1>1 DEF Cancel, RowLocked, Open
<1>4. \A x \in Run : Fresh(x)' <=> Fresh(x) /\ x # r
  BY <1>2 DEF Fresh
<1>5. RunsWait' /\ SignalsStand'
  <2>1. RunsWait'
    BY <1>1, <1>2, <1>3, <1>4 DEF RunsWait, TypeOK
  <2>2. SignalsStand'
    BY <1>1, <1>2, <1>4 DEF SignalsStand
  <2> QED BY <2>1, <2>2
<1>6. \A x \in Run, y \in Source : Matches(x, y)' <=> Matches(x, y)
  BY <1>2 DEF Matches, Correlation
<1>7. ASSUME NEW q \in Proc, Open(q) PROVE Stands(q)' /\ Sees(q)'
  <2>1. Stands(q) /\ Sees(q) /\ tx'[q] = tx[q] /\ q # r /\ tx[q].took # r /\ tx[q] \in Transaction
    BY <1>1, <1>3, <1>7, OwnTransaction
  <2>2. \A x \in Run : tx[q].src # Nobody /\ WaitStands(q, x) => WaitStands(q, x)'
    BY <2>1, <1>4, <1>6 DEF WaitStands, Transaction
  <2>3. Stands(q)'
    <3>1. q \in Courier => CourierStands(q)'
      BY <1>1, <1>7, <2>1 DEF Stands, CourierStands
    <3>2. q \in Run => FinalizeStands(q)'
      BY <1>1, <1>2, <1>7, <2>1 DEF Stands, FinalizeStands
    <3>3. tx[q].took # Nobody => StillWaiting(tx[q].took, q)'
      BY <1>2, <1>7, <2>1 DEF Stands, StillWaiting, Transaction
    <3> QED BY <1>7, <2>1, <2>2, <3>1, <3>2, <3>3 DEF Stands, Transaction
  <2>4. Sees(q)'
    <3>1. q \in Courier => CourierSees(q)'
      <4>1. q \in Courier => tx[q].src \in Source
        BY <1>7, <2>1 DEF Stands, CourierStands, TypeOK, Source
      <4> QED BY <1>2, <1>4, <1>6, <1>7, <2>1, <4>1 DEF Sees, CourierSees
    <3>2. q \in Run => FinalizeSees(q)'
      BY <1>1, <1>2, <1>7, <2>1 DEF Sees, FinalizeSees
    <3> QED BY <3>1, <3>2 DEF Sees
  <2> QED BY <2>3, <2>4
<1>8. TransactionsStand' /\ Sight' /\ OneHolder'
  <2>1. \A q \in Proc : Stands(q)' /\ Sees(q)'
    BY <1>3, <1>7 DEF Stands, Sees
  <2>2. OneHolder'
    BY <1>1, <1>3 DEF OneHolder, Apart
  <2> QED BY <2>1, <2>2 DEF TransactionsStand, Sight
<1>9. \A x \in Run : HasResumed(x)' <=> HasResumed(x)
  BY <1>1, <1>2 DEF HasResumed
<1>10. OutcomesStand' /\ EqualCounts'
  <2>1. \A x \in Run : HasResumed(x) => x # r
    BY <1>1 DEF HasResumed
  <2>2. OutcomesStand'
    BY <1>1, <1>2, <1>9, <2>1 DEF OutcomesStand
  <2>3. ResumedRuns' = ResumedRuns /\ ConsumedSignals' = ConsumedSignals
    BY <1>1, <1>9 DEF ResumedRuns, ConsumedSignals
  <2> QED BY <2>2, <2>3 DEF EqualCounts
<1> QED BY <1>2, <1>5, <1>8, <1>10

LEMMA JobEndsKeeps ==
  ASSUME IInv, NEW j \in DOMAIN job, JobEnds(j)
  PROVE  IInv'
<1> USE ProcessesDiffer DEF IInv
<1>1. /\ job[j] = "active" /\ UNCHANGED <<run, inbox, older, tx>>
      /\ job' \in Seq({"active", "succeeded", "failed"}) /\ Len(job') = Len(job)
      /\ DOMAIN job' = DOMAIN job /\ \A i \in DOMAIN job : i # j => job'[i] = job[i]
      /\ job'[j] # "active"
  BY DEF JobEnds, TypeOK
<1>2. TypeOK' /\ RunsWait' /\ SignalsStand'
  <2>1. TypeOK'
    BY <1>1 DEF TypeOK
  <2>2. RunsWait'
    BY <1>1 DEF RunsWait, Fresh, Open
  <2>3. SignalsStand'
    BY <1>1 DEF SignalsStand, Fresh
  <2> QED BY <2>1, <2>2, <2>3
<1>3. ASSUME NEW q \in Proc PROVE Stands(q)' /\ Sees(q)'
  <2>1. Stands(q) /\ Sees(q)
    BY OwnTransaction
  <2>2. Stands(q)'
    BY <1>1, <2>1 DEF Stands, CourierStands, FinalizeStands, WaitStands, StillWaiting, Matches, Correlation,
                      Fresh, Open
  <2>3. Sees(q)'
    BY <1>1, <2>1 DEF Sees, CourierSees, FinalizeSees, Matches, Correlation, Fresh, Open
  <2> QED BY <2>2, <2>3
<1>4. TransactionsStand' /\ Sight' /\ OneHolder'
  BY <1>1, <1>3 DEF TransactionsStand, Sight, OneHolder, Open, Apart
<1>5. OutcomesStand' /\ EqualCounts'
  BY <1>1 DEF OutcomesStand, HasResumed, EqualCounts, ResumedRuns, ConsumedSignals, RunsWait
<1> QED BY <1>2, <1>4, <1>5

LEMMA AskKeeps ==
  ASSUME IInv, NEW r \in Run, Ask(r)
  PROVE  IInv'
<1> USE ProcessesDiffer DEF IInv
<1>1. \E k \in Nat : \E replay \in BOOLEAN :
        /\ run' = [run EXCEPT ![r] = [at |-> "asked", job |-> k, replay |-> replay]]
        /\ job' \in Seq({"active", "succeeded", "failed"}) /\ Len(job') <= MaxJobs
        /\ k \in DOMAIN job' /\ (replay => job'[k] = "succeeded")
        /\ DOMAIN job \subseteq DOMAIN job' /\ \A i \in DOMAIN job : job'[i] = job[i]
  <2> DEFINE last == Len(job)
             replay == job[last] = "succeeded"
  <2>1. last \in Nat /\ last <= MaxJobs /\ job \in Seq({"active", "succeeded", "failed"})
    BY DEF TypeOK
  <2>2. CASE last > 0 /\ job[last] # "failed"
    <3>1. /\ run' = [run EXCEPT ![r] = [at |-> "asked", job |-> last, replay |-> replay]]
          /\ job' = job
      BY <2>2 DEF Ask, Answered
    <3>2. replay \in BOOLEAN /\ (replay => job[last] = "succeeded")
      OBVIOUS
    <3>3. last \in DOMAIN job
      BY <2>1, <2>2
    <3> HIDE DEF last, replay
    <3> QED BY <2>1, <3>1, <3>2, <3>3 DEF last
  <2>3. CASE ~(last > 0 /\ job[last] # "failed")
    <3>1. /\ job' = Append(job, "active") /\ last < MaxJobs
          /\ run' = [run EXCEPT ![r] = [at |-> "asked", job |-> last + 1, replay |-> FALSE]]
      BY <2>3 DEF Ask, Answered
    <3>2. /\ job' \in Seq({"active", "succeeded", "failed"}) /\ Len(job') = last + 1
          /\ \A i \in DOMAIN job : i \in DOMAIN job' /\ job'[i] = job[i]
          /\ last + 1 \in DOMAIN job' /\ last + 1 \in Nat
      BY <2>1, <3>1
    <3> DEFINE k == last + 1
    <3>3. k \in Nat /\ FALSE \in BOOLEAN /\ Len(job') <= MaxJobs /\ k \in DOMAIN job'
          /\ run' = [run EXCEPT ![r] = [at |-> "asked", job |-> k, replay |-> FALSE]]
      BY <2>1, <3>1, <3>2
    <3> HIDE DEF k
    <3> QED BY <3>2, <3>3
  <2> QED BY <2>2, <2>3
<1>2. run[r].at = "idle" /\ UNCHANGED <<inbox, older, tx>>
  BY DEF Ask
<1>3. /\ \A x \in Run : x # r => run'[x] = run[x]
      /\ run'[r].at = "asked" /\ run'[r].job \in DOMAIN job' /\ (run'[r].replay => job'[run'[r].job] = "succeeded")
      /\ DOMAIN job \subseteq DOMAIN job' /\ \A i \in DOMAIN job : job'[i] = job[i]
  BY <1>1 DEF TypeOK
<1>4. TypeOK'
  <2>1. PICK k \in Nat, replay \in BOOLEAN :
          /\ run' = [run EXCEPT ![r] = [at |-> "asked", job |-> k, replay |-> replay]]
          /\ job' \in Seq({"active", "succeeded", "failed"}) /\ Len(job') <= MaxJobs
          /\ k \in DOMAIN job'
    BY <1>1
  <2>2. k \in 0 .. MaxJobs
    BY <2>1
  <2>3. run' \in [Run -> [at : {"idle", "asked", "waiting", "advanced", "failed", "canceled"},
                          job : 0 .. MaxJobs, replay : BOOLEAN]]
    BY <2>1, <2>2 DEF TypeOK
  <2> QED BY <1>2, <2>1, <2>3 DEF TypeOK
<1>5. /\ ~Open(r) /\ (\A q \in Proc : Open(q)' <=> Open(q)) /\ inbox[r] # "consumed"
      /\ \A x \in Run : Fresh(x)' <=> Fresh(x)
  BY <1>2, <1>3 DEF RunsWait, SignalsStand, Fresh, Open
<1>6. RunsWait'
  <2>1. \A x \in Run : older'[x] \subseteq Run /\ \A y \in older'[x] : Fresh(y)' => Open(y)'
    BY <1>2, <1>5 DEF RunsWait, TypeOK
  <2>2. ASSUME NEW x \in Run
        PROVE  /\ Open(x)' => run'[x].at = "asked"
               /\ run'[x].at \in {"asked", "waiting", "advanced", "failed"} => run'[x].job \in DOMAIN job'
               /\ run'[x].replay => run'[x].job \in DOMAIN job' /\ job'[run'[x].job] = "succeeded"
               /\ run'[x].at = "idle" => ~run'[x].replay
    <3>1. CASE x = r
      BY <1>3, <3>1
    <3>2. CASE x # r
      BY <1>3, <1>5, <3>2 DEF RunsWait
    <3> QED BY <3>1, <3>2
  <2> QED BY <2>1, <2>2 DEF RunsWait
<1>7. SignalsStand'
  BY <1>2, <1>3, <1>5 DEF SignalsStand
<1>8. ASSUME NEW q \in Proc, Open(q) PROVE Stands(q)' /\ Sees(q)'
  <2>1. Stands(q) /\ Sees(q) /\ tx'[q] = tx[q] /\ q # r /\ tx[q] \in Transaction
    BY <1>2, <1>5, <1>8, OwnTransaction
  <2>2. tx[q].src # r
    BY <1>8, <2>1, TokensStayOwn
  <2>3. \A x \in Run : ~Fresh(x) \/ x = q => (Matches(x, tx[q].src)' <=> Matches(x, tx[q].src))
    BY <1>2, <1>3, <2>1, <2>2 DEF Matches, Correlation, Fresh
  <2>4. \A x \in Run : WaitStands(q, x) => WaitStands(q, x)'
    BY <1>5, <2>1, <2>3 DEF WaitStands
  <2>5. Stands(q)'
    <3>1. q \in Courier => CourierStands(q)'
      BY <1>2, <1>3, <1>8, <2>1 DEF Stands, CourierStands
    <3>2. q \in Run => FinalizeStands(q)'
      BY <1>2, <1>3, <1>8, <2>1 DEF Stands, FinalizeStands
    <3>3. tx[q].took # Nobody => StillWaiting(tx[q].took, q)'
      BY <1>2, <1>3, <1>8, <2>1 DEF Stands, StillWaiting, Transaction
    <3> QED BY <1>8, <2>1, <2>4, <3>1, <3>2, <3>3 DEF Stands, Transaction
  <2>6. Sees(q)'
    <3>1. q \in Courier => CourierSees(q)'
      BY <1>2, <1>3, <1>5, <1>8, <2>1, <2>3 DEF Sees, CourierSees
    <3>2. q \in Run => FinalizeSees(q)'
      BY <1>2, <1>3, <1>8, <2>1 DEF Sees, FinalizeSees
    <3> QED BY <3>1, <3>2 DEF Sees
  <2> QED BY <2>5, <2>6
<1>9. TransactionsStand' /\ Sight' /\ OneHolder'
  <2>1. \A q \in Proc : Stands(q)' /\ Sees(q)'
    BY <1>5, <1>8 DEF Stands, Sees
  <2>2. OneHolder'
    BY <1>2, <1>5 DEF OneHolder, Apart
  <2> QED BY <2>1, <2>2 DEF TransactionsStand, Sight
<1>10. \A x \in Run : HasResumed(x)' <=> HasResumed(x)
  BY <1>2, <1>3 DEF HasResumed
<1>11. OutcomesStand'
  BY <1>2, <1>3, <1>10 DEF OutcomesStand, RunsWait, HasResumed
<1>12. EqualCounts'
  BY <1>2, <1>10 DEF EqualCounts, ResumedRuns, ConsumedSignals
<1> QED BY <1>4, <1>6, <1>7, <1>9, <1>11, <1>12

LEMMA RollbackKeeps ==
  ASSUME IInv, NEW p \in Proc, Rollback(p)
  PROVE  IInv'
<1> USE ProcessesDiffer DEF IInv
<1>1. /\ Open(p) /\ tx' = [tx EXCEPT ![p] = NoTx] /\ UNCHANGED <<job, inbox>>
      /\ older' = [x \in Run |-> IF x = p THEN {} ELSE older[x] \ {p}]
      /\ run' = [x \in Run |-> IF x = p THEN [at |-> "idle", job |-> 0, replay |-> FALSE] ELSE run[x]]
  BY DEF Rollback
<1>2. NoTx \in Transaction /\ NoTx.at = "none"
  BY DEF NoTx, Transaction
<1>3. /\ tx' \in [Proc -> Transaction] /\ \A q \in Proc : q # p => tx'[q] = tx[q]
      /\ tx'[p].at = "none"
  BY <1>1, <1>2, OwnTransaction
<1>4. /\ \A x \in Run : x # p => run'[x] = run[x]
      /\ p \in Run => run'[p].at = "idle" /\ ~run'[p].replay /\ run[p].at = "asked"
  BY <1>1, OwnTransaction
<1>5. TypeOK'
  <2>1. run' \in [Run -> [at : {"idle", "asked", "waiting", "advanced", "failed", "canceled"},
                          job : 0 .. MaxJobs, replay : BOOLEAN]]
    BY <1>1 DEF TypeOK
  <2> QED BY <1>1, <1>3, <2>1 DEF TypeOK, Transaction
<1>6. /\ \A q \in Proc : Open(q)' <=> Open(q) /\ q # p
      /\ \A x \in Run : Fresh(x)' <=> Fresh(x)
  BY <1>3, <1>4 DEF Open, Fresh
<1>7. RunsWait'
  BY <1>1, <1>4, <1>6 DEF RunsWait, TypeOK
<1>8. SignalsStand'
  <2>1. p \in Run => inbox[p] # "consumed"
    BY <1>4 DEF SignalsStand, Fresh
  <2> QED BY <1>1, <1>4, <1>6, <2>1 DEF SignalsStand
<1>9. ASSUME NEW q \in Proc, q # p, Open(q) PROVE Stands(q)' /\ Sees(q)'
  <2>1. Stands(q) /\ Sees(q) /\ tx'[q] = tx[q] /\ tx[q] \in Transaction
    BY <1>3, <1>9, OwnTransaction
  <2>2. p \in Run => tx[q].src # p
    BY <1>9, TokensStayOwn
  <2>3. \A x \in Run : ~Fresh(x) \/ x = q => (Matches(x, tx[q].src)' <=> Matches(x, tx[q].src))
    BY <1>4, <1>9, <2>1, <2>2 DEF Matches, Correlation, Fresh
  <2>4. \A x \in Run : WaitStands(q, x) => WaitStands(q, x)'
    BY <1>6, <2>1, <2>3 DEF WaitStands
  <2>5. Stands(q)'
    <3>1. q \in Courier => CourierStands(q)'
      BY <1>1, <1>9, <2>1 DEF Stands, CourierStands
    <3>2. q \in Run => FinalizeStands(q)'
      BY <1>1, <1>4, <1>9, <2>1 DEF Stands, FinalizeStands
    <3>3. tx[q].took # Nobody => StillWaiting(tx[q].took, q)'
      BY <1>4, <1>9, <2>1 DEF Stands, StillWaiting, Transaction
    <3> QED BY <1>9, <2>1, <2>4, <3>1, <3>2, <3>3 DEF Stands, Transaction
  <2>6. Sees(q)'
    <3>1. q \in Courier => CourierSees(q)'
      BY <1>4, <1>6, <1>9, <2>1, <2>3 DEF Sees, CourierSees, Fresh
    <3>2. q \in Run => FinalizeSees(q)'
      BY <1>1, <1>4, <1>9, <2>1 DEF Sees, FinalizeSees
    <3> QED BY <3>1, <3>2 DEF Sees
  <2> QED BY <2>5, <2>6
<1>10. TransactionsStand' /\ Sight' /\ OneHolder'
  <2>1. \A q \in Proc : Stands(q)' /\ Sees(q)'
    BY <1>6, <1>9 DEF Stands, Sees
  <2>2. OneHolder'
    BY <1>3, <1>6 DEF OneHolder, Apart
  <2> QED BY <2>1, <2>2 DEF TransactionsStand, Sight
<1>11. \A x \in Run : HasResumed(x)' <=> HasResumed(x)
  BY <1>4 DEF HasResumed
<1>12. OutcomesStand' /\ EqualCounts'
  BY <1>1, <1>4, <1>11 DEF OutcomesStand, EqualCounts, ResumedRuns, ConsumedSignals, HasResumed
<1> QED BY <1>5, <1>7, <1>8, <1>10, <1>12

(***************************************************************************)
(* A commit: the only step that writes the inbox and resumes a run.        *)
(***************************************************************************)
\* What p holds when it commits: nothing, a signal, or a signal and a wait for it.
LEMMA WhatACommitHolds ==
  ASSUME IInv, NEW p \in Proc, Commit(p), NEW s, s = tx[p].src, NEW taken, taken = tx[p].took
  PROVE  /\ Open(p) /\ s \in Source \cup {Nobody} /\ taken \in Run \cup {Nobody}
         /\ taken # Nobody =>
              /\ s # Nobody /\ Matches(taken, s) /\ ~HasResumed(taken)
              /\ taken # p => run[taken].at = "waiting"
         /\ s # Nobody =>
              /\ inbox[s] # "consumed"
              /\ s \in 1 .. MaxJobs => s \in DOMAIN job /\ job[s] # "active"
              /\ s \in Run => s = p /\ run[p].replay
              /\ taken = Nobody => p \in Courier /\ inbox[s] = "absent"
         /\ p \in Run => run[p].at = "asked"
<1> USE ProcessesDiffer DEF IInv
<1>1. tx[p].at = "done" /\ Open(p)
  BY DEF Commit, Open
<1>2. tx[p] \in Transaction /\ Stands(p) /\ (p \in Run => run[p].at = "asked")
  BY <1>1, OwnTransaction
<1>3. s \in Source \cup {Nobody} /\ taken \in Run \cup {Nobody}
  BY <1>2 DEF Transaction
<1>4. ASSUME taken # Nobody
      PROVE  /\ s # Nobody /\ Matches(taken, s) /\ ~HasResumed(taken)
             /\ taken # p => run[taken].at = "waiting"
  BY <1>1, <1>2, <1>3, <1>4 DEF Stands, WaitStands, StillWaiting, HasResumed
<1>5. ASSUME s # Nobody
      PROVE  /\ inbox[s] # "consumed"
             /\ s \in 1 .. MaxJobs => s \in DOMAIN job /\ job[s] # "active"
             /\ s \in Run => s = p /\ run[p].replay
             /\ taken = Nobody => p \in Courier /\ inbox[s] = "absent"
  <2>1. CASE p \in Courier
    <3>1. s \in DOMAIN job /\ job[s] # "active" /\ inbox[s] = "absent"
      BY <1>1, <1>2, <2>1 DEF Stands, CourierStands
    <3>2. s \in 1 .. MaxJobs
      BY <3>1 DEF TypeOK
    <3> QED BY <2>1, <3>1, <3>2
  <2>2. CASE p \in Run
    <3>1. FinalizeStands(p)
      BY <1>1, <1>2, <2>2 DEF Stands
    <3>2. taken # Nobody
      BY <1>1, <1>5, <3>1 DEF FinalizeStands
    <3>3. CASE run[p].replay
      BY <1>2, <2>2, <3>1, <3>2, <3>3 DEF FinalizeStands, SignalsStand, Fresh
    <3>4. CASE ~run[p].replay
      BY <1>5, <3>1, <3>2, <3>4 DEF FinalizeStands, SignalsStand
    <3> QED BY <3>3, <3>4
  <2> QED BY <2>1, <2>2
<1> QED BY <1>1, <1>2, <1>3, <1>4, <1>5

LEMMA CommitKeeps ==
  ASSUME IInv, NEW p \in Proc, Commit(p)
  PROVE  IInv'
<1> USE ProcessesDiffer DEF IInv
<1> DEFINE s == tx[p].src
           taken == tx[p].took
<1>1. /\ tx' = [tx EXCEPT ![p] = NoTx] /\ UNCHANGED <<job, older>>
      /\ run' = [r \in Run |->
           IF r = taken THEN [run[r] EXCEPT !.at = Resumed(s)]
           ELSE IF r = p THEN [run[r] EXCEPT !.at = "waiting"] ELSE run[r]]
      /\ inbox' = [x \in Source |->
           IF x # s THEN inbox[x] ELSE IF taken = Nobody THEN "stored" ELSE "consumed"]
  BY DEF Commit
<1>2. /\ Open(p) /\ s \in Source \cup {Nobody} /\ taken \in Run \cup {Nobody}
      /\ taken # Nobody =>
           /\ s # Nobody /\ Matches(taken, s) /\ ~HasResumed(taken)
           /\ taken # p => run[taken].at = "waiting"
      /\ s # Nobody =>
           /\ inbox[s] # "consumed"
           /\ s \in 1 .. MaxJobs => s \in DOMAIN job /\ job[s] # "active"
           /\ s \in Run => s = p /\ run[p].replay
           /\ taken = Nobody => p \in Courier /\ inbox[s] = "absent"
      /\ p \in Run => run[p].at = "asked"
  BY WhatACommitHolds
<1> HIDE DEF s, taken
<1>3. NoTx \in Transaction /\ NoTx.at = "none"
  BY DEF NoTx, Transaction
<1>4. /\ tx' \in [Proc -> Transaction] /\ \A q \in Proc : q # p => tx'[q] = tx[q]
      /\ tx'[p].at = "none"
  BY <1>1, <1>3, OwnTransaction
<1>5. Resumed(s) \in {"advanced", "failed"}
  BY DEF Resumed
<1>6. /\ run' \in [Run -> [at : {"idle", "asked", "waiting", "advanced", "failed", "canceled"},
                           job : 0 .. MaxJobs, replay : BOOLEAN]]
      /\ \A r \in Run : /\ run'[r].job = run[r].job /\ run'[r].replay = run[r].replay
                        /\ run'[r].at = IF r = taken THEN Resumed(s)
                                        ELSE IF r = p THEN "waiting" ELSE run[r].at
  BY <1>1, <1>5 DEF TypeOK
<1>7. /\ inbox' \in [Source -> {"absent", "stored", "consumed"}]
      /\ \A x \in Source : inbox'[x] = IF x # s THEN inbox[x]
                                       ELSE IF taken = Nobody THEN "stored" ELSE "consumed"
  BY <1>1 DEF TypeOK
<1>8. TypeOK'
  BY <1>1, <1>4, <1>6, <1>7 DEF TypeOK, Transaction
<1>9. /\ \A q \in Proc : Open(q)' <=> Open(q) /\ q # p
      /\ \A r \in Run : Fresh(r)' <=> Fresh(r) /\ r # p /\ r # taken
      /\ taken # Nobody /\ taken # p => ~Open(taken) /\ ~Fresh(taken)
  <2>1. \A q \in Proc : Open(q)' <=> Open(q) /\ q # p
    BY <1>4 DEF Open
  <2>2. \A r \in Run : Fresh(r)' <=> Fresh(r) /\ r # p /\ r # taken
    BY <1>5, <1>6 DEF Fresh
  <2>3. taken # Nobody /\ taken # p => ~Open(taken) /\ ~Fresh(taken)
    BY <1>2 DEF RunsWait, Fresh
  <2> QED BY <2>1, <2>2, <2>3
<1>10. RunsWait'
  <2>1. \A x \in Run : older'[x] \subseteq Run /\ \A y \in older'[x] : Fresh(y)' => Open(y)'
    BY <1>1, <1>9 DEF RunsWait, TypeOK
  <2>2. ASSUME NEW x \in Run
        PROVE  /\ Open(x)' => run'[x].at = "asked"
               /\ run'[x].at \in {"asked", "waiting", "advanced", "failed"} => run'[x].job \in DOMAIN job'
               /\ run'[x].replay => run'[x].job \in DOMAIN job' /\ job'[run'[x].job] = "succeeded"
               /\ run'[x].at = "idle" => ~run'[x].replay
    <3>1. run[x].at \in {"asked", "waiting"} \/ (x # p /\ x # taken)
      BY <1>2
    <3>2. run'[x].at \in {"waiting", "advanced", "failed"} \/ (x # p /\ x # taken)
      BY <1>5, <1>6
    <3>3. CASE x # p /\ x # taken
      BY <1>1, <1>6, <1>9, <3>3 DEF RunsWait
    <3>4. CASE ~(x # p /\ x # taken)
      BY <1>1, <1>6, <1>9, <3>1, <3>2, <3>4 DEF RunsWait
    <3> QED BY <3>3, <3>4
  <2> QED BY <2>1, <2>2 DEF RunsWait
<1>11. SignalsStand'
  <2>1. ASSUME NEW j \in 1 .. MaxJobs, inbox'[j] # "absent" PROVE j \in DOMAIN job' /\ job'[j] # "active"
    BY <1>1, <1>2, <1>7, <2>1 DEF SignalsStand
  <2>2. ASSUME NEW r \in Run
        PROVE  /\ inbox'[r] # "stored"
               /\ inbox'[r] = "consumed" => run'[r].replay /\ ~Fresh(r)'
    <3>1. CASE r = s
      BY <1>2, <1>6, <1>7, <1>9, <3>1
    <3>2. CASE r # s
      BY <1>6, <1>7, <1>9, <3>2 DEF SignalsStand
    <3> QED BY <3>1, <3>2
  <2> QED BY <2>1, <2>2 DEF SignalsStand
<1>12. \A x \in Run, y \in Source : Matches(x, y)' <=> Matches(x, y)
  BY <1>6 DEF Matches, Correlation
<1>13. ASSUME NEW q \in Proc, q # p, Open(q) PROVE Stands(q)' /\ Sees(q)'
  <2>1. /\ Stands(q) /\ Sees(q) /\ tx'[q] = tx[q] /\ tx[q] \in Transaction
        /\ q \in Run => run[q].at = "asked"
        /\ tx[q].src = s => s = Nobody
        /\ tx[q].took = taken => taken = Nobody
    BY <1>2, <1>4, <1>13, OwnTransaction DEF OneHolder, Apart, s, taken
  <2>2. q # taken /\ (q \in Run => run'[q].at = run[q].at)
    BY <1>2, <1>6, <1>9, <1>13
  <2>3. tx[q].src # Nobody => inbox'[tx[q].src] = inbox[tx[q].src]
    BY <1>7, <2>1 DEF Transaction
  <2>4. \A x \in Run : tx[q].src # Nobody /\ WaitStands(q, x) => WaitStands(q, x)'
    BY <1>9, <1>12, <2>1 DEF WaitStands, Transaction
  <2>5. Stands(q)'
    <3>1. q \in Courier => CourierStands(q)'
      <4>1. q \in Courier => CourierStands(q) /\ tx[q].src # Nobody
        BY <1>13, <2>1 DEF Stands, CourierStands, TypeOK
      <4> QED BY <1>1, <2>1, <2>3, <4>1 DEF CourierStands
    <3>2. q \in Run => FinalizeStands(q)'
      <4>1. q \in Run => FinalizeStands(q)
        BY <1>13, <2>1 DEF Stands
      <4> QED BY <1>6, <2>1, <2>2, <2>3, <4>1 DEF FinalizeStands
    <3>3. tx[q].took # Nobody => StillWaiting(tx[q].took, q)'
      <4>1. ASSUME tx[q].took # Nobody, tx[q].took # q PROVE run'[tx[q].took].at = "waiting"
        <5>1. run[tx[q].took].at = "waiting" /\ tx[q].took \in Run /\ tx[q].took # taken
          BY <1>13, <2>1, <4>1 DEF Stands, StillWaiting, Transaction
        <5>2. tx[q].took # p
          BY <1>2, <5>1
        <5> QED BY <1>6, <5>1, <5>2
      <4> QED BY <2>1, <4>1 DEF StillWaiting
    <3> QED BY <1>13, <2>1, <2>4, <3>1, <3>2, <3>3 DEF Stands, Transaction
  <2>6. Sees(q)'
    <3>1. q \in Courier => CourierSees(q)'
      <4>1. ASSUME q \in Courier PROVE CourierSees(q) /\ tx[q].src \in Source
        BY <1>13, <2>1, <4>1 DEF Sees, Stands, CourierStands, TypeOK, Source
      <4>2. ASSUME q \in Courier, NEW x \in tx[q].before
            PROVE  /\ x \in Run /\ ~Fresh(x)' /\ Matches(x, tx[q].src)'
                   /\ run'[x].at = "waiting" => run[x].at = "waiting"
        <5>1. x \in Run /\ ~Fresh(x) /\ Matches(x, tx[q].src)
          BY <4>1, <4>2 DEF CourierSees
        <5>2. x # p
          BY <1>2, <5>1 DEF Fresh
        <5>3. ~Fresh(x)'
          BY <1>9, <5>1
        <5>4. Matches(x, tx[q].src)'
          BY <1>6, <2>1, <4>1, <5>1 DEF Matches, Correlation
        <5>5. run'[x].at = "waiting" => run[x].at = "waiting"
          BY <1>5, <1>6, <5>1, <5>2
        <5> QED BY <5>1, <5>3, <5>4, <5>5
      <4> QED BY <2>1, <4>1, <4>2 DEF CourierSees
    <3>2. q \in Run => FinalizeSees(q)'
      <4>1. ASSUME q \in Run, NEW x \in tx[q].before
            PROVE  /\ x \in 1 .. MaxJobs /\ x = run'[q].job /\ ~run'[q].replay
                   /\ inbox'[x] \in {"stored", "consumed"}
                   /\ inbox'[x] = "stored" => tx[q].at = "inserted" \/ tx[q].src = x
        <5>1. /\ x \in 1 .. MaxJobs /\ x = run[q].job /\ ~run[q].replay
              /\ inbox[x] \in {"stored", "consumed"}
              /\ inbox[x] = "stored" => tx[q].at = "inserted" \/ tx[q].src = x
          BY <1>13, <2>1, <4>1 DEF Sees, FinalizeSees
        <5>2. inbox'[x] = "stored" => inbox[x] = "stored"
          BY <1>2, <1>7, <5>1
        <5> QED BY <1>6, <1>7, <4>1, <5>1, <5>2
      <4> QED BY <2>1, <4>1 DEF FinalizeSees
    <3> QED BY <3>1, <3>2 DEF Sees
  <2> QED BY <2>5, <2>6
<1>14. TransactionsStand' /\ Sight' /\ OneHolder'
  <2>1. \A q \in Proc : Stands(q)' /\ Sees(q)'
    BY <1>9, <1>13 DEF Stands, Sees
  <2>2. OneHolder'
    BY <1>4, <1>9 DEF OneHolder, Apart
  <2> QED BY <2>1, <2>2 DEF TransactionsStand, Sight
<1>15. \A r \in Run : HasResumed(r)' <=> HasResumed(r) \/ r = taken
  BY <1>2, <1>5, <1>6 DEF HasResumed
<1>16. OutcomesStand'
  <2> SUFFICES ASSUME NEW r \in Run, HasResumed(r)'
               PROVE  job'[run'[r].job] # "active" /\ (run'[r].at = "failed" <=> job'[run'[r].job] = "failed")
    BY DEF OutcomesStand
  <2>1. CASE r = taken
    <3>1. s # Nobody /\ s \in Source /\ run[r].job = Correlation(s) /\ run'[r].at = Resumed(s)
      BY <1>2, <1>6, <2>1 DEF Matches
    <3>2. CASE s \in Run
      <4>1. run[r].job = run[p].job /\ p \in Run /\ Resumed(s) = "advanced"
        BY <1>2, <3>1, <3>2 DEF Correlation, Resumed, Outcome
      <4>2. job[run[p].job] = "succeeded"
        BY <1>2, <3>1, <3>2, <4>1 DEF RunsWait
      <4> QED BY <1>1, <1>6, <3>1, <4>1, <4>2
    <3>3. CASE s \notin Run
      <4>1. s \in 1 .. MaxJobs /\ run[r].job = s /\ job[s] # "active"
        BY <1>2, <3>1, <3>3 DEF Correlation, Source
      <4>2. Resumed(s) = "failed" <=> job[s] = "failed"
        BY <3>3 DEF Resumed, Outcome
      <4> QED BY <1>1, <1>6, <3>1, <4>1, <4>2
    <3> QED BY <3>2, <3>3
  <2>2. CASE r # taken
    <3>1. HasResumed(r)
      BY <1>15, <2>2
    <3>2. r # p
      BY <1>2, <3>1 DEF HasResumed
    <3> QED BY <1>1, <1>6, <2>2, <3>1, <3>2 DEF OutcomesStand
  <2> QED BY <2>1, <2>2
<1>17. EqualCounts'
  <2>1. ResumedRuns \subseteq Run /\ IsFiniteSet(ResumedRuns) /\ ConsumedSignals \subseteq Source /\ IsFiniteSet(ConsumedSignals)
    BY FS_Subset DEF ResumedRuns, ConsumedSignals
  <2>2. CASE taken = Nobody
    <3>1. ResumedRuns' = ResumedRuns
      BY <1>15, <2>2 DEF ResumedRuns
    <3>2. ConsumedSignals' = ConsumedSignals
      BY <1>2, <1>7, <2>2 DEF ConsumedSignals
    <3> QED BY <3>1, <3>2 DEF EqualCounts
  <2>3. CASE taken # Nobody
    <3>1. ResumedRuns' = ResumedRuns \cup {taken} /\ taken \notin ResumedRuns
      BY <1>2, <1>15, <2>3 DEF ResumedRuns
    <3>2. ConsumedSignals' = ConsumedSignals \cup {s} /\ s \notin ConsumedSignals
      BY <1>2, <1>7, <2>3 DEF ConsumedSignals
    <3>3. Cardinality(ResumedRuns') = Cardinality(ResumedRuns) + 1
      BY <2>1, <3>1, FS_AddElement
    <3>4. Cardinality(ConsumedSignals') = Cardinality(ConsumedSignals) + 1
      BY <2>1, <3>2, FS_AddElement
    <3> QED BY <3>3, <3>4 DEF EqualCounts
  <2> QED BY <2>2, <2>3
<1> QED BY <1>8, <1>10, <1>11, <1>14, <1>16, <1>17

LEMMA StepsKeep == IInv /\ [Next]_vars => IInv'
<1> SUFFICES ASSUME IInv, [Next]_vars PROVE IInv'
  OBVIOUS
<1>1. ASSUME NEW r \in Run, Ask(r) \/ OpenWait(r) \/ SelectSignal(r) \/ Cancel(r) PROVE IInv'
  BY <1>1, AskKeeps, OpenWaitKeeps, SelectSignalKeeps, CancelKeeps
<1>2. ASSUME NEW j \in DOMAIN job, JobEnds(j) PROVE IInv'
  BY <1>2, JobEndsKeeps
<1>3. ASSUME NEW j \in DOMAIN job, NEW c \in Courier, OpenIngest(c, j) PROVE IInv'
  BY <1>3, OpenIngestKeeps
<1>4. ASSUME NEW p \in Proc, SelectWait(p) \/ LockWait(p) \/ Commit(p) \/ Rollback(p) PROVE IInv'
  BY <1>4, SelectWaitKeeps, LockWaitKeeps, CommitKeeps, RollbackKeeps
<1>5. CASE UNCHANGED vars
  BY <1>5 DEF vars, IInv, TypeOK, RunsWait, Fresh, Open, SignalsStand, TransactionsStand, Stands,
              CourierStands, FinalizeStands, WaitStands, Matches, Correlation, StillWaiting,
              OneHolder, Apart, OutcomesStand, HasResumed, EqualCounts, ResumedRuns,
              ConsumedSignals, Sight, Sees, CourierSees, FinalizeSees
<1> QED BY <1>1, <1>2, <1>3, <1>4, <1>5 DEF Next

LEMMA AlwaysApart == Spec => []IInv
BY StartsApart, StepsKeep, PTL DEF Spec

\* Whatever order the statements of the open transactions take, the rows stay well
\* formed and the waits a courier walks through in the order of createdAt are ordered.
THEOREM RendezvousTypes == Spec => []TypeOK
<1>1. IInv => TypeOK
  BY DEF IInv
<1> QED BY <1>1, AlwaysApart, PTL

\* Consumed signals and resumed runs are equally many for any number of runs, couriers
\* and jobs, and a run is failed only by a failed job: two transactions that meet at a
\* wait or at a signal never both take it, and none resumes a run without its signal.
THEOREM EachSignalResumesOneRun == Spec => []OneSignalPerResumedRun
<1>1. IInv => OneSignalPerResumedRun
  BY DEF IInv, OneSignalPerResumedRun, EqualCounts, ResumedRuns, ConsumedSignals, OutcomesStand,
         HasResumed
<1> QED BY <1>1, AlwaysApart, PTL

\* Nothing that a transaction was opened after waits next to what it leaves.
LeavesNoMatch(p) ==
  \A x \in tx[p].before : IF p \in Courier THEN run'[x].at # "waiting"
                          ELSE inbox'[x] = "stored" => run'[p].at # "waiting"

Ends(p) == Open(p) /\ ~Open(p)' /\ (p \in Courier => inbox'[tx[p].src] = "stored")

LEMMA OnlyAnEndCloses ==
  ASSUME IInv, [Next]_vars, NEW p \in Proc, Open(p), ~Open(p)'
  PROVE  Commit(p) \/ Rollback(p)
<1> USE ProcessesDiffer DEF Open
<1> USE DEF IInv
<1>1. tx \in [Proc -> Transaction]
  BY OwnTransaction
<1>2. \A q \in Proc \ {p} : \A t : tx' = [tx EXCEPT ![q] = t] => tx'[p] = tx[p]
  BY <1>1
<1>3. tx' # tx
  OBVIOUS
<1>4. ASSUME NEW r \in Run, Ask(r) \/ OpenWait(r) \/ SelectSignal(r) \/ Cancel(r) PROVE FALSE
  <2>1. ~Ask(r) /\ ~Cancel(r)
    BY <1>3 DEF Ask, Cancel
  <2>2. OpenWait(r) => tx'[p].at # "none"
    BY <1>1 DEF OpenWait
  <2>3. ASSUME SelectSignal(r) PROVE tx'[p].at # "none"
    <3>1. CASE tx' = [tx EXCEPT ![r].at = "matching"]
      BY <1>1, <3>1
    <3>2. CASE tx' = [tx EXCEPT ![r].at = "done"]
      BY <1>1, <3>2
    <3>3. ASSUME NEW s, tx' = [tx EXCEPT ![r].at = "matching", ![r].src = s]
          PROVE  tx'[p].at # "none"
      <4>1. tx' = [tx EXCEPT ![r] = [tx[r] EXCEPT !.at = "matching", !.src = s]]
        BY <1>1, <3>3 DEF Transaction
      <4>2. [tx[r] EXCEPT !.at = "matching", !.src = s].at = "matching"
        BY <1>1 DEF Transaction
      <4> QED BY <1>1, <4>1, <4>2
    <3> QED BY <2>3, <3>1, <3>2, <3>3 DEF SelectSignal
  <2> QED BY <1>4, <2>1, <2>2, <2>3
<1>5. ASSUME NEW j \in DOMAIN job, JobEnds(j) PROVE FALSE
  BY <1>3, <1>5 DEF JobEnds
<1>6. ASSUME NEW j \in DOMAIN job, NEW c \in Courier, OpenIngest(c, j) PROVE FALSE
  <2>1. tx'[p].at # "none"
    BY <1>1, <1>6 DEF OpenIngest
  <2> QED BY <2>1
<1>7. ASSUME NEW q \in Proc, SelectWait(q) \/ LockWait(q) PROVE FALSE
  <2>1. SelectWait(q) => tx'[p].at # "none"
    BY <1>1 DEF SelectWait
  <2>2. ASSUME LockWait(q) PROVE tx'[p].at # "none"
    <3>1. CASE NothingLeft(q)
      BY <1>1, <3>1 DEF NothingLeft
    <3>2. ASSUME NEW r, Takes(q, r) PROVE tx'[p].at # "none"
      <4>1. /\ tx' = [tx EXCEPT ![q] = [tx[q] EXCEPT !.at = "done", !.took = r, !.seen = {}]]
            /\ [tx[q] EXCEPT !.at = "done", !.took = r, !.seen = {}].at = "done"
        BY <1>1, <3>2 DEF Takes, Transaction
      <4> QED BY <1>1, <4>1
    <3>3. ASSUME NEW r, Skips(q, r) PROVE tx'[p].at # "none"
      BY <1>1, <3>3 DEF Skips
    <3> QED BY <2>2, <3>1, <3>2, <3>3 DEF LockWait
  <2> QED BY <1>7, <2>1, <2>2
<1>8. ASSUME NEW q \in Proc, q # p, Commit(q) \/ Rollback(q) PROVE FALSE
  BY <1>1, <1>2, <1>8 DEF Commit, Rollback
<1>9. CASE UNCHANGED vars
  BY <1>3, <1>9 DEF vars
<1> QED BY <1>4, <1>5, <1>6, <1>7, <1>8, <1>9 DEF Next

LEMMA ACommitLeavesNoMatch ==
  ASSUME IInv, NEW p \in Proc, Commit(p), Ends(p)
  PROVE  LeavesNoMatch(p)
<1> USE ProcessesDiffer DEF IInv
<1>1. tx[p].at = "done" /\ Open(p) /\ Stands(p) /\ Sees(p) /\ tx[p] \in Transaction
      /\ (p \in Run => run[p].at = "asked")
  BY OwnTransaction DEF Commit, Open
<1>2. /\ run \in [Run -> [at : {"idle", "asked", "waiting", "advanced", "failed", "canceled"},
                          job : 0 .. MaxJobs, replay : BOOLEAN]]
      /\ inbox \in [Source -> {"absent", "stored", "consumed"}]
  BY DEF TypeOK
<1>3. \A r \in Run : run'[r].at = IF r = tx[p].took THEN Resumed(tx[p].src)
                                  ELSE IF r = p THEN "waiting" ELSE run[r].at
  BY <1>2 DEF Commit
<1>4. \A x \in Source : inbox'[x] = IF x # tx[p].src THEN inbox[x]
                                    ELSE IF tx[p].took = Nobody THEN "stored" ELSE "consumed"
  BY DEF Commit
<1>5. CASE p \in Courier
  <2>1. CourierStands(p) /\ CourierSees(p)
    BY <1>1, <1>5 DEF Stands, Sees
  <2>2. tx[p].src \in Source
    BY <2>1 DEF CourierStands, TypeOK
  <2>3. tx[p].took = Nobody
    BY <1>4, <1>5, <2>2 DEF Ends
  <2>4. ASSUME NEW x \in tx[p].before PROVE run'[x].at # "waiting"
    BY <1>1, <1>3, <1>5, <2>1, <2>3, <2>4 DEF CourierSees
  <2> QED BY <1>5, <2>4 DEF LeavesNoMatch
<1>6. CASE p \in Run
  <2>1. FinalizeStands(p) /\ FinalizeSees(p)
    BY <1>1, <1>6 DEF Stands, Sees
  <2>2. ASSUME NEW x \in tx[p].before PROVE inbox'[x] = "stored" => run'[p].at # "waiting"
    <3>1. x \in 1 .. MaxJobs /\ (inbox[x] = "stored" => tx[p].src = x) /\ inbox[x] \in {"stored", "consumed"}
      BY <1>1, <2>1, <2>2 DEF FinalizeSees
    <3>2. CASE inbox[x] = "consumed"
      BY <1>1, <1>4, <1>6, <2>1, <3>1, <3>2, <1>2 DEF FinalizeStands
    <3>3. CASE inbox[x] = "stored"
      BY <1>1, <1>4, <2>1, <3>1, <3>3 DEF FinalizeStands
    <3> QED BY <3>1, <3>2, <3>3
  <2> QED BY <1>6, <2>2 DEF LeavesNoMatch
<1> QED BY <1>5, <1>6

LEMMA ARollbackLeavesNoMatch ==
  ASSUME IInv, NEW p \in Proc, Rollback(p), Ends(p)
  PROVE  LeavesNoMatch(p)
<1> USE ProcessesDiffer DEF IInv
<1>1. Open(p) /\ Stands(p)
  BY OwnTransaction DEF Rollback
<1>2. p \in Run
  <2>1. ASSUME p \in Courier PROVE inbox[tx[p].src] = "absent" /\ inbox' = inbox
    BY <1>1, <2>1 DEF Stands, CourierStands, Rollback
  <2> QED BY <2>1 DEF Ends
<1>3. run'[p].at = "idle"
  BY <1>2 DEF Rollback
<1> QED BY <1>2, <1>3 DEF LeavesNoMatch

\* The half of the lossless rendezvous that holds: a transaction that was opened after
\* the other side was committed never commits next to it unmatched.
THEOREM LaterTransactionsFindTheirMatch == Spec => LaterTransactionMatches
<1> DEFINE Step == \A p \in Proc : Ends(p) => LeavesNoMatch(p)
<1>1. IInv /\ [Next]_vars => Step
  BY OnlyAnEndCloses, ACommitLeavesNoMatch, ARollbackLeavesNoMatch DEF Ends
<1>2. Step <=> \A p \in Proc :
        Open(p) /\ ~Open(p)' /\ (p \in Courier => inbox'[tx[p].src] = "stored") =>
          \A x \in tx[p].before :
            IF p \in Courier THEN run'[x].at # "waiting"
            ELSE inbox'[x] = "stored" => run'[p].at # "waiting"
  BY DEF Ends, LeavesNoMatch
<1> HIDE DEF Step
<1> QED BY <1>1, <1>2, AlwaysApart, PTL DEF Spec, LaterTransactionMatches
===============================================================================
