---------------------------- MODULE Wallet_proofs ----------------------------
(***************************************************************************)
(* Proofs about Wallet, for any users, top-ups, payouts, adjustments and   *)
(* clerks, and any largest amount: the type invariant, and that a wallet   *)
(* holds what the ledger owes its user.                                    *)
(***************************************************************************)
EXTENDS Wallet, Ledger_proofs

(***************************************************************************)
(* An entry is skipped when its key is posted and the balance moves all the*)
(* same, so the two agree only because a posted key is seen in the status  *)
(* the handler checks first: a top-up is completed, a payout has left      *)
(* "none" with its withdrawal and "pending" with its reversal.             *)
(***************************************************************************)
StatusKnowsKeys ==
  /\ \A t \in Topups : Posted(journal, <<"wallet_topup", t>>) => topup[t] = "completed"
  /\ \A p \in Payouts : Posted(journal, <<"wallet_withdrawal", p>>) => payout[p] # "none"
  /\ \A p \in Payouts :
       Posted(journal, <<"wallet_withdrawal_reversal", p>>) => payout[p] \in {"rejected", "paid"}

\* The journal is finite and its entries move numbers.
JournalAdds ==
  /\ IsFiniteSet(journal)
  /\ \A e \in journal : \A u \in Users : EntryNet(e, UserPayable(u)) \in Int

WalletIInv == WalletTypeOK /\ StatusKnowsKeys /\ JournalAdds /\ WalletMatchesLedger

----------------------------------------------------------------------------
(* Lemmas *)

LEMMA AccountsDiffer ==
  /\ \A u : UserPayable(u) # ProviderClearing /\ UserPayable(u) # AdjustmentEquity
  /\ \A u, v : UserPayable(u) = UserPayable(v) <=> u = v
BY DEF UserPayable, ProviderClearing, AdjustmentEquity

\* The amounts of the movements.
LEMMA MovementsTyped ==
  ASSUME NEW m \in Movements
  PROVE  /\ OwnerOf[m] \in Users
         /\ CentsOf[m] \in Int /\ -CentsOf[m] \in Int /\ CentsOf[m] # 0
         /\ m \in Topups \cup Payouts => CentsOf[m] > 0
BY MovementAssumption

\* What each entry moves in the account of a user.
LEMMA EntriesMove ==
  ASSUME NEW m \in Movements, NEW u \in Users
  PROVE  /\ EntryNet(TopupEntry(m), UserPayable(u)) = IF u = OwnerOf[m] THEN CentsOf[m] ELSE 0
         /\ EntryNet(WithdrawalEntry(m), UserPayable(u))
              = IF u = OwnerOf[m] THEN 0 - CentsOf[m] ELSE 0
         /\ EntryNet(ReversalEntry(m), UserPayable(u)) = IF u = OwnerOf[m] THEN CentsOf[m] ELSE 0
         /\ EntryNet(AdjustmentEntry(m), UserPayable(u))
              = IF u = OwnerOf[m] THEN CentsOf[m] ELSE 0
<1> DEFINE user == UserPayable(OwnerOf[m])
<1>1. /\ user # ProviderClearing /\ user # AdjustmentEquity
      /\ UserPayable(u) # ProviderClearing /\ UserPayable(u) # AdjustmentEquity
      /\ UserPayable(u) = user <=> u = OwnerOf[m]
  BY AccountsDiffer
<1>2. CentsOf[m] \in Int /\ -CentsOf[m] \in Int /\ 0 - (-CentsOf[m]) = CentsOf[m]
  BY MovementsTyped
<1>3. EntryNet(TopupEntry(m), UserPayable(u)) = IF u = OwnerOf[m] THEN CentsOf[m] ELSE 0
  <2>1. TopupEntry(m) = Entry(<<"wallet_topup", m>>,
                             {Debit(ProviderClearing, CentsOf[m]), Credit(user, CentsOf[m])})
    BY DEF TopupEntry
  <2>2. \A a : EntryNet(TopupEntry(m), a)
                = IF a = user THEN CentsOf[m] ELSE IF a = ProviderClearing THEN 0 - CentsOf[m] ELSE 0
    BY <1>1, <1>2, <2>1, NetOfTransfer
  <2> HIDE DEF user
  <2> QED
    BY <1>1, <2>2
<1>4. EntryNet(WithdrawalEntry(m), UserPayable(u))
        = IF u = OwnerOf[m] THEN 0 - CentsOf[m] ELSE 0
  <2>1. WithdrawalEntry(m) = Entry(<<"wallet_withdrawal", m>>,
                             {Debit(user, CentsOf[m]), Credit(ProviderClearing, CentsOf[m])})
    BY DEF WithdrawalEntry
  <2>2. \A a : EntryNet(WithdrawalEntry(m), a)
                = IF a = ProviderClearing THEN CentsOf[m] ELSE IF a = user THEN 0 - CentsOf[m] ELSE 0
    BY <1>1, <1>2, <2>1, NetOfTransfer
  <2> HIDE DEF user
  <2> QED
    BY <1>1, <2>2
<1>5. EntryNet(ReversalEntry(m), UserPayable(u)) = IF u = OwnerOf[m] THEN CentsOf[m] ELSE 0
  <2>1. ReversalEntry(m) = Entry(<<"wallet_withdrawal_reversal", m>>,
                             {Debit(ProviderClearing, CentsOf[m]), Credit(user, CentsOf[m])})
    BY DEF ReversalEntry
  <2>2. \A a : EntryNet(ReversalEntry(m), a)
                = IF a = user THEN CentsOf[m] ELSE IF a = ProviderClearing THEN 0 - CentsOf[m] ELSE 0
    BY <1>1, <1>2, <2>1, NetOfTransfer
  <2> HIDE DEF user
  <2> QED
    BY <1>1, <2>2
<1>6. EntryNet(AdjustmentEntry(m), UserPayable(u)) = IF u = OwnerOf[m] THEN CentsOf[m] ELSE 0
  <2>1. CASE CentsOf[m] > 0
    <3>1. AdjustmentEntry(m) = Entry(<<"manual_adjustment", m>>,
            {Debit(AdjustmentEquity, CentsOf[m]), Credit(user, CentsOf[m])})
      BY <2>1 DEF AdjustmentEntry
    <3> QED
      BY <1>1, <1>2, <3>1, NetOfTransfer
  <2>2. CASE ~(CentsOf[m] > 0)
    <3>1. AdjustmentEntry(m) = Entry(<<"manual_adjustment", m>>,
            {Debit(user, -CentsOf[m]), Credit(AdjustmentEquity, -CentsOf[m])})
      BY <2>2 DEF AdjustmentEntry
    <3>2. EntryNet(AdjustmentEntry(m), UserPayable(u))
            = IF u = OwnerOf[m] THEN 0 - (-CentsOf[m]) ELSE 0
      BY <1>1, <1>2, <3>1, NetOfTransfer
    <3> QED
      BY <1>2, <3>2
  <2> QED
    BY <2>1, <2>2
<1> QED
  BY <1>3, <1>4, <1>5, <1>6

\* Moving a balance and posting the entry of the movement keep them equal.
LEMMA MoneyMoves ==
  ASSUME WalletIInv, NEW v \in Users, NEW cents \in Int, NEW entry,
         ~Posted(journal, entry.key),
         \A u \in Users : EntryNet(entry, UserPayable(u)) = IF u = v THEN cents ELSE 0,
         journal' = PostLedgerEntry(journal, entry),
         available' = [available EXCEPT ![v] = @ + cents],
         available[v] + cents \in MoneyCents
  PROVE  /\ available' \in [Users -> MoneyCents]
         /\ JournalAdds'
         /\ WalletMatchesLedger'
         /\ \A k : Posted(journal, k)' <=> Posted(journal, k) \/ k = entry.key
<1>0. /\ available \in [Users -> MoneyCents]
      /\ \A u \in Users : available[u] \in Int
      /\ IsFiniteSet(journal)
      /\ \A u \in Users : available[u] = LedgerBalance(journal, UserPayable(u))
  BY MoneyAssumption DEF WalletIInv, WalletTypeOK, JournalAdds, WalletMatchesLedger, MoneyCents
<1>1. available' \in [Users -> MoneyCents]
  BY <1>0
<1>2. journal' = journal \cup {entry}
  BY DEF PostLedgerEntry
<1>3. \A e \in journal \cup {entry} : \A u \in Users : EntryNet(e, UserPayable(u)) \in Int
  BY DEF WalletIInv, JournalAdds
<1>4. JournalAdds'
  <2>1. IsFiniteSet(journal \cup {entry})
    BY <1>0, FS_AddElement
  <2> QED
    BY <1>2, <1>3, <2>1 DEF JournalAdds
<1>5. \A u \in Users : LedgerBalance(journal', UserPayable(u))
                         = LedgerBalance(journal, UserPayable(u)) + EntryNet(entry, UserPayable(u))
  BY <1>0, <1>3, BalanceOfPost
<1>6. \A u \in Users : available'[u] = available[u] + (IF u = v THEN cents ELSE 0)
  BY <1>0
<1>7. WalletMatchesLedger'
  BY <1>0, <1>5, <1>6 DEF WalletMatchesLedger
<1>8. \A k : Posted(journal, k)' <=> Posted(journal, k) \/ k = entry.key
  BY <1>2 DEF Posted
<1> QED
  BY <1>1, <1>4, <1>7, <1>8

----------------------------------------------------------------------------
(* One lemma per operation that moves money *)

LEMMA CompleteWalletTopupInv ==
  ASSUME WalletIInv, NEW t \in Topups, CompleteWalletTopup(t)
  PROVE  WalletIInv'
<1> DEFINE v == OwnerOf[t]
           cents == CentsOf[t]
<1>1. /\ t \in Movements /\ v \in Users /\ cents \in Int /\ cents > 0
      /\ available[v] \in MoneyCents /\ available[v] \in Int /\ MaxCents \in Int
      /\ topup \in [Topups -> {"none", "pending", "completed"}] /\ topup[t] = "pending"
  BY MovementsTyped, MoneyAssumption
  DEF Movements, WalletIInv, WalletTypeOK, MoneyCents, CompleteWalletTopup, TopupPayable
<1>2. /\ available[v] + cents <= MaxCents
      /\ available' = [available EXCEPT ![v] = @ + cents]
      /\ journal' = PostLedgerEntry(journal, TopupEntry(t))
      /\ topup' = [topup EXCEPT ![t] = "completed"]
      /\ UNCHANGED <<payout, completing>>
  BY DEF CompleteWalletTopup, CanAdd
<1>3. TopupEntry(t).key = <<"wallet_topup", t>> /\ ~Posted(journal, TopupEntry(t).key)
  BY <1>1 DEF TopupEntry, Entry, WalletIInv, StatusKnowsKeys
<1>4. \A u \in Users : EntryNet(TopupEntry(t), UserPayable(u)) = IF u = v THEN cents ELSE 0
  BY <1>1, EntriesMove
<1>5. available[v] + cents \in MoneyCents
  BY <1>1, <1>2 DEF MoneyCents
<1> HIDE DEF v, cents
<1>6. /\ available' \in [Users -> MoneyCents] /\ JournalAdds' /\ WalletMatchesLedger'
      /\ \A k : Posted(journal, k)' <=> Posted(journal, k) \/ k = TopupEntry(t).key
  BY <1>1, <1>2, <1>3, <1>4, <1>5, MoneyMoves
<1>7. WalletTypeOK'
  BY <1>1, <1>2, <1>6 DEF WalletIInv, WalletTypeOK
<1>8. StatusKnowsKeys'
  BY <1>1, <1>2, <1>3, <1>6 DEF WalletIInv, StatusKnowsKeys
<1> QED
  BY <1>6, <1>7, <1>8 DEF WalletIInv

LEMMA RequestWithdrawalInv ==
  ASSUME WalletIInv, NEW p \in Payouts, RequestWithdrawal(p)
  PROVE  WalletIInv'
<1> DEFINE v == OwnerOf[p]
           cents == 0 - CentsOf[p]
<1>1. /\ p \in Movements /\ v \in Users /\ cents \in Int /\ CentsOf[p] \in Int /\ CentsOf[p] > 0
      /\ available[v] \in MoneyCents /\ available[v] \in Int /\ MaxCents \in Int
      /\ payout \in [Payouts -> {"none", "pending", "paid", "rejected"}] /\ payout[p] = "none"
      /\ available \in [Users -> MoneyCents]
  BY MovementsTyped, MoneyAssumption
  DEF Movements, WalletIInv, WalletTypeOK, MoneyCents, RequestWithdrawal
<1>2. /\ CentsOf[p] <= available[v]
      /\ available' = [available EXCEPT ![v] = @ - CentsOf[p]]
      /\ journal' = PostLedgerEntry(journal, WithdrawalEntry(p))
      /\ payout' = [payout EXCEPT ![p] = "pending"]
      /\ UNCHANGED <<topup, completing>>
  BY DEF RequestWithdrawal, CanWithdraw, CanSubtract
<1>3. /\ WithdrawalEntry(p).key = <<"wallet_withdrawal", p>>
      /\ ~Posted(journal, WithdrawalEntry(p).key)
      /\ ~Posted(journal, <<"wallet_withdrawal_reversal", p>>)
  BY <1>1 DEF WithdrawalEntry, Entry, WalletIInv, StatusKnowsKeys
<1>4. \A u \in Users : EntryNet(WithdrawalEntry(p), UserPayable(u)) = IF u = v THEN cents ELSE 0
  BY <1>1, EntriesMove
<1>5. available[v] + cents \in MoneyCents /\ available[v] - CentsOf[p] = available[v] + cents
  BY <1>1, <1>2 DEF MoneyCents
<1>6. /\ available' = [available EXCEPT ![v] = @ + cents]
      /\ journal' = PostLedgerEntry(journal, WithdrawalEntry(p))
  BY <1>1, <1>2, <1>5
<1> HIDE DEF v, cents
<1>7. /\ available' \in [Users -> MoneyCents] /\ JournalAdds' /\ WalletMatchesLedger'
      /\ \A k : Posted(journal, k)' <=> Posted(journal, k) \/ k = WithdrawalEntry(p).key
  <2>1. v \in Users /\ cents \in Int /\ available[v] + cents \in MoneyCents
    BY <1>1, <1>5
  <2> QED
    BY <1>3, <1>4, <1>6, <2>1, MoneyMoves
<1>8. WalletTypeOK'
  BY <1>1, <1>2, <1>7 DEF WalletIInv, WalletTypeOK
<1>9. StatusKnowsKeys'
  BY <1>1, <1>2, <1>3, <1>7 DEF WalletIInv, StatusKnowsKeys
<1> QED
  BY <1>7, <1>8, <1>9 DEF WalletIInv

LEMMA RejectPayoutInv ==
  ASSUME WalletIInv, NEW p \in Payouts, RejectPayout(p)
  PROVE  WalletIInv'
<1> DEFINE v == OwnerOf[p]
           cents == CentsOf[p]
<1>1. /\ p \in Movements /\ v \in Users /\ cents \in Int /\ cents > 0
      /\ available[v] \in MoneyCents /\ available[v] \in Int /\ MaxCents \in Int
      /\ payout \in [Payouts -> {"none", "pending", "paid", "rejected"}] /\ payout[p] = "pending"
  BY MovementsTyped, MoneyAssumption
  DEF Movements, WalletIInv, WalletTypeOK, MoneyCents, RejectPayout, Rejectable
<1>2. /\ available[v] + cents <= MaxCents
      /\ available' = [available EXCEPT ![v] = @ + cents]
      /\ journal' = PostLedgerEntry(journal, ReversalEntry(p))
      /\ payout' = [payout EXCEPT ![p] = "rejected"]
      /\ UNCHANGED <<topup, completing>>
  BY DEF RejectPayout, CanAdd
<1>3. /\ ReversalEntry(p).key = <<"wallet_withdrawal_reversal", p>>
      /\ ~Posted(journal, ReversalEntry(p).key)
  BY <1>1 DEF ReversalEntry, Entry, WalletIInv, StatusKnowsKeys
<1>4. \A u \in Users : EntryNet(ReversalEntry(p), UserPayable(u)) = IF u = v THEN cents ELSE 0
  BY <1>1, EntriesMove
<1>5. available[v] + cents \in MoneyCents
  BY <1>1, <1>2 DEF MoneyCents
<1> HIDE DEF v, cents
<1>6. /\ available' \in [Users -> MoneyCents] /\ JournalAdds' /\ WalletMatchesLedger'
      /\ \A k : Posted(journal, k)' <=> Posted(journal, k) \/ k = ReversalEntry(p).key
  BY <1>1, <1>2, <1>3, <1>4, <1>5, MoneyMoves
<1>7. WalletTypeOK'
  BY <1>1, <1>2, <1>6 DEF WalletIInv, WalletTypeOK
<1>8. StatusKnowsKeys'
  BY <1>1, <1>2, <1>3, <1>6 DEF WalletIInv, StatusKnowsKeys
<1> QED
  BY <1>6, <1>7, <1>8 DEF WalletIInv

LEMMA PostManualAdjustmentInv ==
  ASSUME WalletIInv, NEW m \in Adjustments, PostManualAdjustment(m)
  PROVE  WalletIInv'
<1> DEFINE v == OwnerOf[m]
           cents == CentsOf[m]
<1>1. /\ m \in Movements /\ v \in Users /\ cents \in Int /\ cents # 0
      /\ available[v] \in MoneyCents /\ available[v] \in Int /\ MaxCents \in Int
  BY MovementsTyped, MoneyAssumption DEF Movements, WalletIInv, WalletTypeOK, MoneyCents
<1>2. /\ available[v] + cents <= MaxCents
      /\ cents < 0 => -cents <= available[v]
      /\ available' = [available EXCEPT ![v] = @ + cents]
      /\ journal' = PostLedgerEntry(journal, AdjustmentEntry(m))
      /\ UNCHANGED <<topup, payout, completing>>
      /\ ~Posted(journal, <<"manual_adjustment", m>>)
  BY DEF PostManualAdjustment, CanAdd, CanSubtract
<1>3. AdjustmentEntry(m).key = <<"manual_adjustment", m>> /\ ~Posted(journal, AdjustmentEntry(m).key)
  BY <1>2 DEF AdjustmentEntry, Entry
<1>4. \A u \in Users : EntryNet(AdjustmentEntry(m), UserPayable(u)) = IF u = v THEN cents ELSE 0
  BY <1>1, EntriesMove
<1>5. available[v] + cents \in MoneyCents
  BY <1>1, <1>2 DEF MoneyCents
<1> HIDE DEF v, cents
<1>6. /\ available' \in [Users -> MoneyCents] /\ JournalAdds' /\ WalletMatchesLedger'
      /\ \A k : Posted(journal, k)' <=> Posted(journal, k) \/ k = AdjustmentEntry(m).key
  BY <1>1, <1>2, <1>3, <1>4, <1>5, MoneyMoves
<1>7. WalletTypeOK'
  BY <1>2, <1>6 DEF WalletIInv, WalletTypeOK
<1>8. StatusKnowsKeys'
  BY <1>2, <1>3, <1>6 DEF WalletIInv, StatusKnowsKeys
<1> QED
  BY <1>6, <1>7, <1>8 DEF WalletIInv

----------------------------------------------------------------------------
(* The theorems *)

LEMMA WalletInitInv == WalletInit => WalletIInv
<1> SUFFICES ASSUME WalletInit PROVE WalletIInv
  OBVIOUS
<1>1. WalletTypeOK
  BY MoneyAssumption DEF WalletInit, WalletTypeOK, MoneyCents
<1>2. StatusKnowsKeys
  BY DEF WalletInit, StatusKnowsKeys, Posted
<1>3. JournalAdds
  BY FS_EmptySet DEF WalletInit, JournalAdds
<1>4. WalletMatchesLedger
  BY BalanceOfNothing DEF WalletInit, WalletMatchesLedger
<1> QED
  BY <1>1, <1>2, <1>3, <1>4 DEF WalletIInv

LEMMA WalletNextInv == WalletIInv /\ [WalletNext]_walletVars => WalletIInv'
<1> SUFFICES ASSUME WalletIInv, [WalletNext]_walletVars PROVE WalletIInv'
  OBVIOUS
<1> USE DEF WalletIInv
<1>1. CASE UNCHANGED <<available, journal>> /\ WalletTypeOK' /\ StatusKnowsKeys'
  BY <1>1 DEF JournalAdds, WalletMatchesLedger
<1>2. ASSUME NEW t \in Topups, CreateWalletTopup(t) PROVE WalletIInv'
  <2>1. WalletTypeOK'
    BY <1>2 DEF CreateWalletTopup, WalletTypeOK
  <2>2. StatusKnowsKeys'
    BY <1>2 DEF CreateWalletTopup, WalletTypeOK, StatusKnowsKeys
  <2> QED
    BY <1>1, <1>2, <2>1, <2>2 DEF CreateWalletTopup
<1>3. ASSUME NEW c \in Clerks, NEW p \in Payouts, CompletePayoutChecks(c, p) PROVE WalletIInv'
  BY <1>1, <1>3 DEF CompletePayoutChecks, WalletTypeOK, StatusKnowsKeys
<1>4. ASSUME NEW c \in Clerks, CompletePayoutUpdates(c) PROVE WalletIInv'
  <2>1. completing[c] \in Payouts
    BY <1>4 DEF CompletePayoutUpdates, WalletTypeOK
  <2>2. WalletTypeOK'
    BY <1>4, <2>1 DEF CompletePayoutUpdates, WalletTypeOK
  <2>3. StatusKnowsKeys'
    BY <1>4, <2>1 DEF CompletePayoutUpdates, WalletTypeOK, StatusKnowsKeys
  <2> QED
    BY <1>1, <1>4, <2>2, <2>3 DEF CompletePayoutUpdates
<1>5. ASSUME NEW c \in Clerks, CompletePayoutLost(c) PROVE WalletIInv'
  BY <1>1, <1>5 DEF CompletePayoutLost, WalletTypeOK, StatusKnowsKeys
<1>6. CASE UNCHANGED walletVars
  BY <1>1, <1>6 DEF walletVars, WalletTypeOK, StatusKnowsKeys
<1> QED
  BY <1>2, <1>3, <1>4, <1>5, <1>6, CompleteWalletTopupInv, RequestWithdrawalInv, RejectPayoutInv,
     PostManualAdjustmentInv
  DEF WalletNext

(***************************************************************************)
(* Type correctness: whatever webhooks, withdrawals, rejections and        *)
(* adjustments do, no available balance is negative or beyond a bigint.    *)
(***************************************************************************)
THEOREM WalletTypeCorrect == WalletSpec => []WalletTypeOK
<1>1. WalletIInv => WalletTypeOK
  BY DEF WalletIInv
<1> QED
  BY <1>1, WalletInitInv, WalletNextInv, PTL DEF WalletSpec

(***************************************************************************)
(* Reconciliation finds no difference: a wallet holds what the ledger owes *)
(* its user, although a second posting of an entry is silently dropped and *)
(* a second move of the balance would not be.                              *)
(***************************************************************************)
THEOREM WalletsFollowTheLedger == WalletSpec => []WalletMatchesLedger
<1>1. WalletIInv => WalletMatchesLedger
  BY DEF WalletIInv
<1> QED
  BY <1>1, WalletInitInv, WalletNextInv, PTL DEF WalletSpec
=============================================================================
