------------------------------- MODULE Wallet -------------------------------
(***************************************************************************)
(* Money that enters and leaves a user's available balance outside orders: *)
(* users/wallet.service.ts (top-ups, withdrawals, manual adjustments), the *)
(* payouts an admin completes or rejects (admin-payouts.routes.ts) and the *)
(* top-up half of the payment webhooks.  Every operation but one is a      *)
(* serializable transaction on locked rows, hence one step; completePayout *)
(* takes its row lock outside a transaction, so the lock is gone when the  *)
(* query returns and its check and its update are two steps.               *)
(***************************************************************************)
EXTENDS Ledger

CONSTANTS
  Topups,       \* ids of wallet_topups rows that may be created
  Payouts,      \* ids of payouts rows (with their transactions row)
  Adjustments,  \* ids of manual adjustments
  OwnerOf,      \* the user of each top-up, payout and adjustment
  CentsOf,      \* its amount; negative for a debiting adjustment
  Clerks        \* concurrent admin calls of completePayout

Movements == Topups \cup Payouts \cup Adjustments

ASSUME MovementAssumption ==
  /\ OwnerOf \in [Movements -> Users]
  /\ CentsOf \in [Movements -> Int \ {0}]
  /\ \A m \in Topups \cup Payouts : CentsOf[m] > 0
  /\ \A m \in Movements : CentsOf[m] <= MaxCents

VARIABLES
  available,   \* wallets.available_cents
  journal,     \* ledger_entries
  topup,       \* wallet_topups.status, "none" before the row exists
  payout,      \* payouts.status, "none" before the row exists
  completing   \* completePayout calls past their status check, by clerk

walletVars == <<available, journal, topup, payout, completing>>

NoPayout == "none"

----------------------------------------------------------------------------
(* Entries of orders/accounting.service.ts *)

TopupEntry(t) ==
  Entry(<<"wallet_topup", t>>,
        {Debit(ProviderClearing, CentsOf[t]), Credit(UserPayable(OwnerOf[t]), CentsOf[t])})

WithdrawalEntry(p) ==
  Entry(<<"wallet_withdrawal", p>>,
        {Debit(UserPayable(OwnerOf[p]), CentsOf[p]), Credit(ProviderClearing, CentsOf[p])})

ReversalEntry(p) ==
  Entry(<<"wallet_withdrawal_reversal", p>>,
        {Debit(ProviderClearing, CentsOf[p]), Credit(UserPayable(OwnerOf[p]), CentsOf[p])})

AdjustmentEntry(m) ==
  LET user == UserPayable(OwnerOf[m])
  IN  Entry(<<"manual_adjustment", m>>,
            IF CentsOf[m] > 0
            THEN {Debit(AdjustmentEquity, CentsOf[m]), Credit(user, CentsOf[m])}
            ELSE {Debit(user, -CentsOf[m]), Credit(AdjustmentEquity, -CentsOf[m])})

Returned(p) == Posted(journal, <<"wallet_withdrawal_reversal", p>>)

----------------------------------------------------------------------------
\* createWalletTopup, called by the top-up checkouts.
CreateWalletTopup(t) ==
  /\ topup[t] = "none"
  /\ topup' = [topup EXCEPT ![t] = "pending"]
  /\ UNCHANGED <<available, journal, payout, completing>>

\* Mutant: a redelivered webhook credits the top-up again.
TopupPayable_Always(t) == topup[t] # "none"

\* completeWalletTopup returns the row untouched unless it is pending.
TopupPayable(t) == topup[t] = "pending"

\* A provider's webhook, possibly delivered again, for a paid top-up.
CompleteWalletTopup(t) ==
  /\ TopupPayable(t)
  /\ CanAdd(available[OwnerOf[t]], CentsOf[t])
  /\ Postable(TopupEntry(t))
  /\ available' = [available EXCEPT ![OwnerOf[t]] = @ + CentsOf[t]]
  /\ journal' = PostLedgerEntry(journal, TopupEntry(t))
  /\ topup' = [topup EXCEPT ![t] = "completed"]
  /\ UNCHANGED <<payout, completing>>

CanWithdraw(p) == CanSubtract(available[OwnerOf[p]], CentsOf[p])

\* requestWithdrawal reserves the amount and opens the payout.
RequestWithdrawal(p) ==
  /\ payout[p] = "none"
  /\ CanWithdraw(p)
  /\ Postable(WithdrawalEntry(p))
  /\ available' = [available EXCEPT ![OwnerOf[p]] = @ - CentsOf[p]]
  /\ journal' = PostLedgerEntry(journal, WithdrawalEntry(p))
  /\ payout' = [payout EXCEPT ![p] = "pending"]
  /\ UNCHANGED <<topup, completing>>

\* postManualAdjustment; the ids are nanoids, so each is applied once.
PostManualAdjustment(m) ==
  /\ ~Posted(journal, <<"manual_adjustment", m>>)
  /\ CentsOf[m] < 0 => CanSubtract(available[OwnerOf[m]], -CentsOf[m])
  /\ CanAdd(available[OwnerOf[m]], CentsOf[m])
  /\ Postable(AdjustmentEntry(m))
  /\ available' = [available EXCEPT ![OwnerOf[m]] = @ + CentsOf[m]]
  /\ journal' = PostLedgerEntry(journal, AdjustmentEntry(m))
  /\ UNCHANGED <<topup, payout, completing>>

\* completePayout up to its await of the payout provider.
CompletePayoutChecks(c, p) ==
  /\ completing[c] = NoPayout
  /\ payout[p] = "pending"
  /\ completing' = [completing EXCEPT ![c] = p]
  /\ UNCHANGED <<available, journal, topup, payout>>

\* Its update, which names the id and not the status.
CompletePayoutUpdates(c) ==
  /\ completing[c] # NoPayout
  /\ payout' = [payout EXCEPT ![completing[c]] = "paid"]
  /\ completing' = [completing EXCEPT ![c] = NoPayout]
  /\ UNCHANGED <<available, journal, topup>>

\* The process dies between the two.
CompletePayoutLost(c) ==
  /\ completing[c] # NoPayout
  /\ completing' = [completing EXCEPT ![c] = NoPayout]
  /\ UNCHANGED <<available, journal, topup, payout>>

Rejectable(p) == payout[p] = "pending"

\* rejectPayout returns the reserved amount.
RejectPayout(p) ==
  /\ Rejectable(p)
  /\ CanAdd(available[OwnerOf[p]], CentsOf[p])
  /\ Postable(ReversalEntry(p))
  /\ available' = [available EXCEPT ![OwnerOf[p]] = @ + CentsOf[p]]
  /\ journal' = PostLedgerEntry(journal, ReversalEntry(p))
  /\ payout' = [payout EXCEPT ![p] = "rejected"]
  /\ UNCHANGED <<topup, completing>>

WalletInit ==
  /\ available = [u \in Users |-> 0]
  /\ journal = {}
  /\ topup = [t \in Topups |-> "none"]
  /\ payout = [p \in Payouts |-> "none"]
  /\ completing = [c \in Clerks |-> NoPayout]

WalletNext ==
  \/ \E t \in Topups : CreateWalletTopup(t) \/ CompleteWalletTopup(t)
  \/ \E m \in Adjustments : PostManualAdjustment(m)
  \/ \E p \in Payouts : RequestWithdrawal(p) \/ RejectPayout(p)
  \/ \E c \in Clerks, p \in Payouts : CompletePayoutChecks(c, p)
  \/ \E c \in Clerks : CompletePayoutUpdates(c) \/ CompletePayoutLost(c)

WalletSpec == WalletInit /\ [][WalletNext]_walletVars

----------------------------------------------------------------------------
(* Properties *)

\* Type invariant: in particular no balance is negative or beyond a bigint.
WalletTypeOK ==
  /\ available \in [Users -> MoneyCents]
  /\ topup \in [Topups -> {"none", "pending", "completed"}]
  /\ payout \in [Payouts -> {"none", "pending", "paid", "rejected"}]
  /\ completing \in [Clerks -> Payouts \cup {NoPayout}]

(***************************************************************************)
(* What reconciliation compares: a wallet holds exactly what the ledger    *)
(* owes its user, although entries are deduplicated by key and wallet      *)
(* updates are not.                                                        *)
(***************************************************************************)
WalletMatchesLedger ==
  \A u \in Users : available[u] = LedgerBalance(journal, UserPayable(u))

(***************************************************************************)
(* What completePayout asserts ("Only pending payouts can be completed"):  *)
(* a payout whose amount went back to the wallet is not paid as well.      *)
(***************************************************************************)
ReturnedNeverPaid ==
  \A p \in Payouts : Returned(p) => payout[p] # "paid"
=============================================================================
