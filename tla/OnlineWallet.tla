------------------------------ MODULE OnlineWallet ------------------------------
(***************************************************************************)
(* The online wallet of one astrologer: what a captured sale is owed, until*)
(* it has been paid out or refunded.  A sale enters as a root lot; every   *)
(* command consumes whole sources of lots and writes new ones, and moves   *)
(* the wallet head's balances, under an advisory lock per wallet.  Payouts *)
(* are requested, reviewed, approved against the bank's liquidity and      *)
(* executed by hand; refunds reserve their money before ArcPay is asked;   *)
(* a chargeback freezes its lot and withdraws the payouts it is part of.   *)
(* The sources of a lot that lie in one place are modelled by their sum.   *)
(* All sales are those of one astrologer, taken by one provider account.   *)
(***************************************************************************)
EXTENDS Integers, FiniteSets, FiniteSetsExt

CONSTANTS
  Lot,        \* root lots, one per captured sale
  Payout,     \* payout requests
  Refund,     \* refund cases
  Payable,    \* what each sale owes to the astrologer, in minor units
  Reserve,    \* the part of it that the risk policy holds back
  Liquidity   \* what the bank snapshot leaves for payouts

ASSUME WalletAssumption ==
  /\ IsFiniteSet(Lot) /\ IsFiniteSet(Payout) /\ IsFiniteSet(Refund)
  /\ Payable \in [Lot -> Nat \ {0}] /\ Reserve \in [Lot -> Nat] /\ Liquidity \in Nat
  /\ \A l \in Lot : Reserve[l] <= Payable[l]
  /\ Payout \cap Refund = {}
  /\ (Payout \cup Refund) \cap {"root", "pending", "available", "reserved", "paid", "refunded"} = {}

VARIABLES
  stage,      \* of each sale: "none", "captured", or "due": its booking completed,
              \* the hold over, the settlement seen
  money,      \* per lot, how much of it lies in each place
  head,       \* the balances in finance_online_wallet_heads
  candidates, \* lots the hold release has read and not handled yet
  payout,     \* status and amount of each payout request
  exposure,   \* state of the bank exposure of each payout
  liquidity,  \* available_liquidity of the bank's liquidity head
  refund,     \* status and lot of each refund case
  dispute,    \* per lot: "none", "locking", "provisional_loss"
  victims,    \* the payouts that the chargeback in progress has locked
  verdict,    \* per lot: how its chargeback has been resolved
  overlap     \* per lot: payouts requested while its chargeback was in progress (history)

payoutVars == <<payout, exposure, liquidity>>
disputeVars == <<dispute, victims, verdict>>
vars == <<stage, money, head, candidates, payoutVars, refund, disputeVars, overlap>>

Balance == {"pending", "available", "reserved", "payout_pending", "refund_pending"}

\* Where a lot's money may lie: its root, children of the root, reserved for a
\* payout or a refund, or gone.
Owed == {"root", "pending", "available", "reserved"}
Gone == {"paid", "refunded"}
Place == Owed \cup Gone \cup Payout \cup Refund

\* Statuses from which a payout can still be withdrawn before the bank is asked,
\* and those in which it holds money.
PreBank == {"requested", "under_review", "approved"}
Holding == PreBank \cup {"processing_manual"}

Init ==
  /\ stage = [l \in Lot |-> "none"]
  /\ money = [l \in Lot |-> [p \in Place |-> 0]]
  /\ head = [b \in Balance |-> 0]
  /\ candidates = {}
  /\ payout = [p \in Payout |-> [status |-> "none", amount |-> 0]]
  /\ exposure = [p \in Payout |-> "none"] /\ liquidity = Liquidity
  /\ refund = [r \in Refund |-> [status |-> "none", lot |-> "none"]]
  /\ dispute = [l \in Lot |-> "none"] /\ victims = {}
  /\ verdict = [l \in Lot |-> "none"]
  /\ overlap = [l \in Lot |-> {}]

Total(f) == MapThenSumSet(LAMBDA x : f[x], DOMAIN f)

\* The ways to take something, and at most limit[x] from each x.
Shares(limit) ==
  {f \in [DOMAIN limit -> 0 .. Total(limit)] :
     Total(f) > 0 /\ \A x \in DOMAIN limit : f[x] <= limit[x]}

\* A head's balances after `amount` has moved from one to another; "" is outside.
Moved(h, from, to, amount) ==
  [b \in Balance |-> h[b] - (IF b = from THEN amount ELSE 0) + (IF b = to THEN amount ELSE 0)]

(***************************************************************************)
(* A capture writes the root lot; the hold release turns it into an        *)
(* available and a reserved child.  Its candidates are read outside any    *)
(* transaction and looked at again under the locks.                        *)
(***************************************************************************)
Capture(l) ==
  /\ stage[l] = "none"
  /\ stage' = [stage EXCEPT ![l] = "captured"]
  /\ money' = [money EXCEPT ![l]["root"] = Payable[l]]
  /\ head' = Moved(head, "", "pending", Payable[l])
  /\ UNCHANGED <<candidates, payoutVars, refund, disputeVars, overlap>>

HoldEnds(l) ==
  /\ stage[l] = "captured"
  /\ stage' = [stage EXCEPT ![l] = "due"]
  /\ UNCHANGED <<money, head, candidates, payoutVars, refund, disputeVars, overlap>>

\* Mutation of Eligible: a lot that was once found is taken for granted.
Eligible_Found(l) == stage[l] = "due"

Eligible(l) == stage[l] = "due" /\ money[l]["root"] > 0

\* Mutation of Releasable: a disputed lot stays where it is.
Releasable_Undisputed == {l \in Lot : stage[l] = "due" /\ money[l]["root"] > 0 /\ dispute[l] = "none"}

Releasable == {l \in Lot : stage[l] = "due" /\ money[l]["root"] > 0}

ReadCandidates ==
  /\ candidates = {} /\ Releasable # {}
  /\ candidates' = Releasable
  /\ UNCHANGED <<stage, money, head, payoutVars, refund, disputeVars, overlap>>

ReleaseOneRoot(l) ==
  /\ l \in candidates /\ dispute[l] # "locking"
  /\ candidates' = candidates \ {l}
  /\ IF Eligible(l)
       THEN /\ money' = [money EXCEPT ![l]["root"] = 0, ![l]["available"] = @ + Payable[l] - Reserve[l],
                                      ![l]["reserved"] = @ + Reserve[l]]
            /\ head' = Moved(Moved(head, "pending", "available", Payable[l] - Reserve[l]),
                             "pending", "reserved", Reserve[l])
       ELSE UNCHANGED <<money, head>>
  /\ UNCHANGED <<stage, payoutVars, refund, disputeVars, overlap>>

ReleaseStops ==
  /\ candidates # {} /\ candidates' = {}
  /\ UNCHANGED <<stage, money, head, payoutVars, refund, disputeVars, overlap>>

(***************************************************************************)
(* Payouts.  Sources are taken in the order of their random identifiers,   *)
(* so any split of the amount over the lots may come out.                  *)
(***************************************************************************)
MayTake(l) == IF dispute[l] = "provisional_loss" THEN 0 ELSE money[l]["available"]

RequestPayout(p) ==
  /\ payout[p].status = "none"
  /\ \E take \in Shares([l \in Lot |-> MayTake(l)]) :
       /\ payout' = [payout EXCEPT ![p] = [status |-> "requested", amount |-> Total(take)]]
       /\ money' = [l \in Lot |-> [money[l] EXCEPT !["available"] = @ - take[l], ![p] = take[l]]]
       /\ head' = Moved(head, "available", "payout_pending", Total(take))
  /\ overlap' = [l \in Lot |-> IF dispute[l] = "locking" THEN overlap[l] \cup {p} ELSE overlap[l]]
  /\ UNCHANGED <<stage, candidates, exposure, liquidity, refund, disputeVars>>

\* A chargeback in progress has the row of the provider account, of the sale's
\* receipt, and of the payouts it is about to withdraw.
NoticeInProgress == \E l \in Lot : dispute[l] = "locking"

Locked(p) == p \in victims

To(p, status) == payout' = [payout EXCEPT ![p].status = status]

BeginReview(p) ==
  /\ payout[p].status = "requested" /\ ~Locked(p) /\ To(p, "under_review")
  /\ UNCHANGED <<stage, money, head, candidates, exposure, liquidity, refund, disputeVars, overlap>>

\* Mutation of Affordable: a payout is compared with all of the bank's money.
Affordable_Gross(p) == payout[p].amount <= Liquidity

Affordable(p) == payout[p].amount <= liquidity

ApprovePayout(p) ==
  /\ payout[p].status = "under_review" /\ ~Locked(p) /\ Affordable(p)
  /\ To(p, "approved")
  /\ exposure' = [exposure EXCEPT ![p] = "committed"]
  /\ liquidity' = liquidity - payout[p].amount
  /\ UNCHANGED <<stage, money, head, candidates, refund, disputeVars, overlap>>

StartExecution(p) ==
  /\ payout[p].status = "approved" /\ exposure[p] = "committed" /\ ~Locked(p)
  /\ To(p, "processing_manual")
  /\ exposure' = [exposure EXCEPT ![p] = "initiated_unreflected"]
  /\ UNCHANGED <<stage, money, head, candidates, liquidity, refund, disputeVars, overlap>>

ConfirmPaid(p) ==
  /\ payout[p].status = "processing_manual" /\ exposure[p] = "initiated_unreflected" /\ ~Locked(p)
  /\ To(p, "paid")
  /\ exposure' = [exposure EXCEPT ![p] = "paid_unreflected"]
  /\ money' = [l \in Lot |-> [money[l] EXCEPT !["paid"] = @ + money[l][p], ![p] = 0]]
  /\ head' = Moved(head, "payout_pending", "", payout[p].amount)
  /\ UNCHANGED <<stage, candidates, liquidity, refund, disputeVars, overlap>>

\* Mutation of Withdrawn: the money is taken from the wallet's, not the payout's.
Withdrawn_Lost(m, ps) == [l \in Lot |-> [q \in Place |-> IF q \in ps THEN 0 ELSE m[l][q]]]

\* The money of payouts ps lies in available again.
Withdrawn(m, ps) ==
  [l \in Lot |-> [q \in Place |-> IF q \in ps THEN 0
                  ELSE IF q = "available" THEN m[l][q] + Total([p \in ps |-> m[l][p]])
                  ELSE m[l][q]]]

\* releaseOnlineWalletPayout: rejected or cancelled before the bank is asked,
\* failed afterwards, "withdrawn" here.  The bank exposure of an approved payout is left as it is.
WithdrawPayout(p) ==
  /\ payout[p].status \in Holding /\ ~Locked(p)
  /\ To(p, "withdrawn")
  /\ money' = Withdrawn(money, {p})
  /\ head' = Moved(head, "payout_pending", "available", payout[p].amount)
  /\ UNCHANGED <<stage, candidates, exposure, liquidity, refund, disputeVars, overlap>>

(***************************************************************************)
(* Refunds.  Nothing a payout holds is touched; a refund that needs it, or *)
(* finds another refund of the lot under way, is refused.  What is left of *)
(* a root becomes a pending child of it.                                   *)
(***************************************************************************)
Refundable(l) == \A r \in Refund : money[l][r] = 0

ApproveRefund(r, l) ==
  /\ refund[r].status = "none" /\ stage[l] # "none" /\ Refundable(l) /\ ~NoticeInProgress
  /\ refund' = [refund EXCEPT ![r] = [status |-> "approved", lot |-> l]]
  /\ \E take \in Shares([q \in Owed |-> money[l][q]]) :
       /\ money' = [money EXCEPT ![l] = [q \in Place |->
            CASE q = r -> Total(take)
              [] q = "root" -> IF take["root"] > 0 THEN 0 ELSE @["root"]
              [] q = "pending" -> @["pending"] - take["pending"]
                                  + (IF take["root"] > 0 THEN @["root"] - take["root"] ELSE 0)
              [] q \in {"available", "reserved"} -> @[q] - take[q]
              [] OTHER -> @[q]]]
       /\ head' = [b \in Balance |->
            CASE b = "pending" -> head[b] - take["root"] - take["pending"]
              [] b \in {"available", "reserved"} -> head[b] - take[b]
              [] b = "refund_pending" -> head[b] + Total(take)
              [] OTHER -> head[b]]
  /\ UNCHANGED <<stage, candidates, payoutVars, disputeVars, overlap>>

\* The provider's success, once: a case that is not approved is a replay.
ConfirmRefund(r) ==
  /\ refund[r].status = "approved" /\ ~NoticeInProgress
  /\ LET l == refund[r].lot IN
       /\ refund' = [refund EXCEPT ![r].status = "succeeded"]
       /\ money' = [money EXCEPT ![l]["refunded"] = @ + money[l][r], ![l][r] = 0]
       /\ head' = Moved(head, "refund_pending", "", money[l][r])
  /\ UNCHANGED <<stage, candidates, payoutVars, disputeVars, overlap>>

(***************************************************************************)
(* Chargebacks.  The sale and the payouts that hold money of it and have   *)
(* not gone to the bank are locked first; the wallet lock is taken after   *)
(* that, and requests may come in between.  A refund or a release that has *)
(* the wallet and waits for the sale deadlocks with it; the database ends  *)
(* either of them.                                                         *)
(***************************************************************************)
\* Mutation of Affected: approved payouts are thought to be out of reach.
Affected_NotApproved(l) == {p \in Payout : payout[p].status \in PreBank \ {"approved"} /\ money[l][p] > 0}

Affected(l) == {p \in Payout : payout[p].status \in PreBank /\ money[l][p] > 0}

ReceiveNotice(l) ==
  /\ stage[l] # "none" /\ dispute[l] = "none" /\ ~NoticeInProgress
  /\ dispute' = [dispute EXCEPT ![l] = "locking"]
  /\ victims' = Affected(l)
  /\ UNCHANGED <<stage, money, head, candidates, payoutVars, refund, verdict, overlap>>

CommitNotice(l) ==
  /\ dispute[l] = "locking"
  /\ dispute' = [dispute EXCEPT ![l] = "provisional_loss"]
  /\ victims' = {}
  /\ payout' = [p \in Payout |-> IF p \in victims THEN [payout[p] EXCEPT !.status = "withdrawn"]
                                 ELSE payout[p]]
  /\ money' = Withdrawn(money, victims)
  /\ head' = Moved(head, "payout_pending", "available",
                   Total([p \in victims |-> payout[p].amount]))
  /\ UNCHANGED <<stage, candidates, exposure, liquidity, refund, verdict, overlap>>

\* The worker dies, or the database aborts; the notice is delivered again.
AbortNotice(l) ==
  /\ dispute[l] = "locking"
  /\ dispute' = [dispute EXCEPT ![l] = "none"]
  /\ victims' = {}
  /\ overlap' = [overlap EXCEPT ![l] = {}]
  /\ UNCHANGED <<stage, money, head, candidates, payoutVars, refund, verdict>>

\* What a lot still has that has not left the wallet.
Unspent(l) == {q \in Place \ Gone : money[l][q] > 0}

MayLose(l) == Unspent(l) = {}

ResolveChargeback(l) ==
  /\ dispute[l] = "provisional_loss" /\ verdict[l] = "none" /\ ~NoticeInProgress
  /\ \E v \in {"won"} \cup (IF MayLose(l) THEN {"lost"} ELSE {}) : verdict' = [verdict EXCEPT ![l] = v]
  /\ UNCHANGED <<stage, money, head, candidates, payoutVars, refund, dispute, victims, overlap>>

Next ==
  \/ \E l \in Lot : Capture(l) \/ HoldEnds(l) \/ ReleaseOneRoot(l)
  \/ ReadCandidates \/ ReleaseStops
  \/ \E p \in Payout : RequestPayout(p) \/ BeginReview(p) \/ ApprovePayout(p) \/ StartExecution(p) \/ ConfirmPaid(p)
                       \/ WithdrawPayout(p)
  \/ \E r \in Refund : ConfirmRefund(r) \/ \E l \in Lot : ApproveRefund(r, l)
  \/ \E l \in Lot : ReceiveNotice(l) \/ CommitNotice(l) \/ AbortNotice(l) \/ ResolveChargeback(l)

Spec == Init /\ [][Next]_vars

(***************************************************************************)
(* The hold release runs on a timer and a notice is delivered again until  *)
(* it is recorded: in the end neither is interrupted.  Nobody owes a       *)
(* payout, a refund or a verdict.                                          *)
(***************************************************************************)
Fairness ==
  /\ WF_vars(ReadCandidates)
  /\ SF_vars(\E l \in Lot : ReleaseOneRoot(l))
  /\ SF_vars(\E l \in Lot : CommitNotice(l))

FairSpec == Spec /\ Fairness

-------------------------------------------------------------------------------
\* The rows and the release's memory have their types.
TypeOK ==
  /\ stage \in [Lot -> {"none", "captured", "due"}]
  /\ \A l \in Lot : money[l] \in [Place -> 0 .. Payable[l]]
  /\ head \in [Balance -> Nat] /\ liquidity \in 0 .. Liquidity
  /\ candidates \subseteq Lot
  /\ payout \in [Payout -> [status : Holding \cup {"none", "paid", "withdrawn"},
                            amount : Nat]]
  /\ exposure \in [Payout -> {"none", "committed", "initiated_unreflected", "paid_unreflected"}]
  /\ refund \in [Refund -> [status : {"none", "approved", "succeeded"}, lot : Lot \cup {"none"}]]
  /\ dispute \in [Lot -> {"none", "locking", "provisional_loss"}]
  /\ victims \subseteq Payout /\ overlap \in [Lot -> SUBSET Payout]
  /\ verdict \in [Lot -> {"none", "won", "lost"}]

Held(q) == Total([l \in Lot |-> money[l][q]])

\* The balances the astrologer is shown are what the lots hold, and a lot never
\* holds more or less than its sale has brought: nothing is created, lost, or
\* both paid out and refunded, whatever order holds, payouts, refunds and
\* chargebacks come in.  A sale written off as lost has nothing left in the wallet.
BalancesMatchLots ==
  /\ head["pending"] = Held("root") + Held("pending")
  /\ head["available"] = Held("available") /\ head["reserved"] = Held("reserved")
  /\ head["payout_pending"] = Total([p \in Payout |-> Held(p)])
  /\ head["refund_pending"] = Total([r \in Refund |-> Held(r)])
  /\ \A l \in Lot : /\ Total(money[l]) = IF stage[l] = "none" THEN 0 ELSE Payable[l]
                    /\ verdict[l] = "lost" => Unspent(l) = {}

\* A payout on its way holds exactly its amount, one that has ended holds
\* nothing; once approved it is covered by a bank exposure, and all exposures
\* together never exceed what the bank had.
PayoutsAreCovered ==
  /\ \A p \in Payout :
       /\ Held(p) = IF payout[p].status \in Holding THEN payout[p].amount ELSE 0
       /\ payout[p].status = "approved" => exposure[p] = "committed"
       /\ payout[p].status = "processing_manual" => exposure[p] = "initiated_unreflected"
       /\ payout[p].status = "paid" <=> exposure[p] = "paid_unreflected"
  /\ Total([p \in Payout |-> IF exposure[p] = "none" THEN 0 ELSE payout[p].amount])
       = Liquidity - liquidity
  /\ liquidity >= 0

\* Money of a disputed sale is in no payout that has not gone to the bank,
\* unless the payout was requested while the chargeback was being recorded.
FrozenMoneyStaysBack ==
  \A l \in Lot : dispute[l] = "provisional_loss" =>
    \A p \in Payout : payout[p].status \in PreBank /\ money[l][p] > 0 => p \in overlap[l]

\* However often the release is interrupted, and whatever refunds and
\* chargebacks do meanwhile, there comes a time when no sale whose hold is over
\* lies in its root any more.
HoldsAreReleased == []<>(\A l \in Lot : stage[l] = "due" => money[l]["root"] = 0)
===============================================================================
