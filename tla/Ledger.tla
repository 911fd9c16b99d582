------------------------------- MODULE Ledger -------------------------------
(***************************************************************************)
(* Money and the double-entry ledger shared by every component that moves  *)
(* it: the bounded cents of domain/money.ts, the balance checks of         *)
(* orders/ledger.service.ts and the journal of orders/accounting.service.ts*)
(* A constant-level module: it has operators and no state of its own.      *)
(***************************************************************************)
EXTENDS Integers, FiniteSets, Functions

CONSTANTS
  Users,     \* ids of rows of the users table
  MaxCents   \* POSTGRES_BIGINT_MAX, the largest amount a money column holds

ASSUME MoneyAssumption == MaxCents \in Nat \ {0}

(***************************************************************************)
(* MoneyCents is a decimal string within the range of a Postgres bigint;   *)
(* balances that reach this module are never negative.                     *)
(***************************************************************************)
MoneyCents == 0 .. MaxCents

\* checkedBalanceAddition and checkedBalanceSubtraction throw outside these.
CanAdd(current, added) == current + added <= MaxCents
CanSubtract(current, subtracted) == subtracted <= current

\* platformFeeCents: basis points of the amount, rounded down.
PlatformFeeCents(amount, bps) == (amount * bps) \div 10000

----------------------------------------------------------------------------
(***************************************************************************)
(* Ledger accounts.  One currency is modelled: every account code and every*)
(* wallet row carries the currency of its order, and no code path moves    *)
(* money between two of them.                                              *)
(***************************************************************************)
ProviderClearing == <<"asset:provider-clearing">>
PlatformRevenue  == <<"revenue:platform-fee">>
SellerEscrow(u)  == <<"liability:seller-escrow", u>>
UserPayable(u)   == <<"liability:user-payable", u>>
AdjustmentEquity == <<"equity:manual-adjustment">>

Debit(account, cents)  == [account |-> account, debit |-> cents, credit |-> 0]
Credit(account, cents) == [account |-> account, debit |-> 0, credit |-> cents]

\* A credit line the caller leaves out when it would be empty.
CreditIfAny(account, cents) ==
  IF cents > 0 THEN {Credit(account, cents)} ELSE {}

Entry(key, lines) == [key |-> key, lines |-> lines]

\* The checks postLedgerEntry makes before it writes anything.
Postable(entry) ==
  LET debitTotal == SumFunction([l \in entry.lines |-> l.debit])
      creditTotal == SumFunction([l \in entry.lines |-> l.credit])
  IN  /\ Cardinality(entry.lines) >= 2
      /\ debitTotal > 0
      /\ debitTotal = creditTotal

Posted(journal, key) == \E e \in journal : e.key = key

\* Mutant: the idempotency key is the order alone.
PostLedgerEntry_KeyWithoutKind(journal, entry) ==
  IF \E e \in journal : e.key[1] = entry.key[1]
  THEN journal ELSE journal \cup {entry}

\* insert ... on conflict (idempotency_key) do nothing
PostLedgerEntry(journal, entry) ==
  IF Posted(journal, entry.key) THEN journal ELSE journal \cup {entry}

\* What one entry changes in a liability or revenue account: its credits
\* less its debits.
EntryNet(e, account) ==
  LET lines == {l \in e.lines : l.account = account}
  IN  SumFunction([l \in lines |-> l.credit - l.debit])

\* What such an account holds.
LedgerBalance(journal, account) == SumFunction([e \in journal |-> EntryNet(e, account)])
=============================================================================
