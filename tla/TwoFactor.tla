------------------------------ MODULE TwoFactor ------------------------------
(***************************************************************************)
(* Two-factor authentication of one account: auth/twofa.service.ts over    *)
(* auth/totp.service.ts and auth/twofa-crypto-core.ts.                     *)
(*                                                                         *)
(* A time-based code is a pair of a secret and a counter; the clock        *)
(* accepts the counters next to its own.  Every operation is a transaction *)
(* that holds the row of the method, so operations are atomic; what is     *)
(* hard is the long sequence: setup, replacement, expiry, backup codes and *)
(* repeated codes while the clock moves.                                   *)
(***************************************************************************)
EXTENDS Naturals, FiniteSets, Sequences

CONSTANTS
  Secrets,         \* secrets that may be generated
  BACKUP_CODES,    \* backup codes of one generation
  MaxCounter,      \* bound: steps of the clock
  MaxAccepted      \* bound: codes accepted

ASSUME TwoFactorAssumption ==
  MaxCounter \in Nat /\ MaxAccepted \in Nat /\ IsFiniteSet(Secrets)

VARIABLES
  totpClock,     \* counterAt(now)
  active,        \* the active secret with last_accepted_counter, legacy or encrypted
  pending,       \* the pending secret and when it was created
  enabled,       \* users.two_factor_enabled
  setupGeneration,    \* generation of the backup codes
  unused,        \* backup codes with used_at null
  usedSecrets,   \* secrets generated so far
  epoch,         \* session_version, bumped by every change of the method
  accepted       \* codes accepted so far, in order

twoFactorVars == <<totpClock, active, pending, enabled, setupGeneration, unused, usedSecrets, epoch,
                   accepted>>

NoSecret == [secret |-> "none"]

PENDING_TTL == 1

TwoFactorInit ==
  /\ totpClock = 1
  /\ active = NoSecret /\ pending = NoSecret /\ enabled = FALSE
  /\ setupGeneration = 0 /\ unused = {} /\ usedSecrets = {}
  /\ epoch = 1
  /\ accepted = <<>>

PeriodPasses ==
  /\ totpClock < MaxCounter
  /\ totpClock' = totpClock + 1
  /\ UNCHANGED <<active, pending, enabled, setupGeneration, unused, usedSecrets, epoch,
                 accepted>>

(* matchTotpCounter: the step of the clock or one next to it. *)
matchTotpCounter(counter) == counter \in {totpClock - 1, totpClock, totpClock + 1}

TotpCodes == [kind : {"totp"}, secret : Secrets, counter : 0..(MaxCounter + 1)]
BackupCodes == [kind : {"backup"}, generation : 1..Cardinality(Secrets) + 1,
                code : BACKUP_CODES]

-----------------------------------------------------------------------------
(* consumeTwoFactorCode *)

(* Mutant: a code of the current window is accepted, whatever came before. *)
AcceptsTotp_Window(code) ==
  /\ active # NoSecret /\ code.secret = active.secret
  /\ matchTotpCounter(code.counter)

(* A time-based code: its counter must be above the last one accepted. *)
AcceptsTotp(code) ==
  /\ active # NoSecret /\ code.secret = active.secret
  /\ matchTotpCounter(code.counter) /\ code.counter > active.lastAccepted

(* A backup code that is not marked as used yet. *)
AcceptsBackup(code) ==
  /\ active # NoSecret
  /\ code.generation = setupGeneration /\ code.code \in unused

Accepts(code) == IF code.kind = "totp" THEN AcceptsTotp(code) ELSE AcceptsBackup(code)

(* What an accepted code leaves behind: the counter, or the used mark. *)
ActiveAfter(code) ==
  IF code.kind = "totp" THEN [active EXCEPT !.lastAccepted = code.counter] ELSE active

UnusedAfter(code) == IF code.kind = "backup" THEN unused \ {code.code} ELSE unused

Accept(code) ==
  /\ Len(accepted) < MaxAccepted
  /\ accepted' = Append(accepted, code)

consumeTwoFactorCode(code) ==
  /\ Accepts(code) /\ Accept(code)
  /\ active' = ActiveAfter(code)
  /\ unused' = UnusedAfter(code)

(* verifyTwoFactorCode: login and step-up. *)
verifyTwoFactorCode(code) ==
  /\ enabled
  /\ consumeTwoFactorCode(code)
  /\ UNCHANGED <<totpClock, pending, enabled, setupGeneration, usedSecrets, epoch>>

-----------------------------------------------------------------------------
(* setupTwoFactor: a pending secret beside the active one.  The account is  *)
(* reauthenticated if the method is enabled: by the password, or by a code, *)
(* which is consumed.                                                       *)
setupTwoFactor(s, code) ==
  /\ s \notin usedSecrets
  /\ \/ UNCHANGED <<active, unused, accepted>>
     \/ enabled /\ consumeTwoFactorCode(code)
  /\ pending' = [secret |-> s, createdAt |-> totpClock]
  /\ usedSecrets' = usedSecrets \cup {s}
  /\ UNCHANGED <<totpClock, enabled, setupGeneration, epoch>>

(* createBackupCodes replaces the codes of the account. *)
createBackupCodes == setupGeneration' = setupGeneration + 1 /\ unused' = BACKUP_CODES

(* confirmTwoFactor: a pending secret past its time is dropped; a code of it *)
(* makes it the active one, and counts as accepted.                          *)
confirmTwoFactor(code) ==
  /\ pending # NoSecret
  /\ \/ /\ totpClock - pending.createdAt > PENDING_TTL
        /\ pending' = NoSecret
        /\ UNCHANGED <<active, enabled, setupGeneration, unused, epoch, accepted>>
     \/ /\ totpClock - pending.createdAt <= PENDING_TTL
        /\ code.kind = "totp" /\ code.secret = pending.secret
        /\ matchTotpCounter(code.counter)
        /\ createBackupCodes
        /\ active' = [secret |-> pending.secret, lastAccepted |-> code.counter]
        /\ pending' = NoSecret
        /\ enabled' = TRUE
        /\ epoch' = epoch + 1
        /\ Accept(code)
  /\ UNCHANGED <<totpClock, usedSecrets>>

(* requireReauthentication where the codes are replaced or deleted anyway: of *)
(* a consumed code only the counter is left.                                  *)
requireReauthentication(code) ==
  \/ UNCHANGED accepted
  \/ Accepts(code) /\ Accept(code)

regenerateTwoFactorBackupCodes(code) ==
  /\ enabled /\ active # NoSecret
  /\ setupGeneration < Cardinality(Secrets) + 1
  /\ requireReauthentication(code)
  /\ createBackupCodes
  /\ active' = IF accepted' # accepted THEN ActiveAfter(code) ELSE active
  /\ epoch' = epoch + 1
  /\ UNCHANGED <<totpClock, pending, enabled, usedSecrets>>

(* disableTwoFactor deletes the method, a pending setup too, and the codes. *)
disableTwoFactor(code) ==
  /\ enabled
  /\ requireReauthentication(code)
  /\ active' = NoSecret /\ pending' = NoSecret
  /\ enabled' = FALSE /\ unused' = {}
  /\ epoch' = epoch + 1
  /\ UNCHANGED <<totpClock, setupGeneration, usedSecrets>>

-----------------------------------------------------------------------------
TwoFactorNext ==
  \/ PeriodPasses
  \/ \E code \in TotpCodes \cup BackupCodes :
       \/ verifyTwoFactorCode(code) \/ confirmTwoFactor(code)
       \/ \E s \in Secrets : setupTwoFactor(s, code)
       \/ regenerateTwoFactorBackupCodes(code) \/ disableTwoFactor(code)

TwoFactorSpec == TwoFactorInit /\ [][TwoFactorNext]_twoFactorVars

-----------------------------------------------------------------------------
(* Every variable has its type. *)
TwoFactorTypeOK ==
  /\ totpClock \in 1..MaxCounter /\ epoch \in Nat /\ setupGeneration \in Nat
  /\ active = NoSecret \/ active \in [secret : Secrets, lastAccepted : Nat]
  /\ pending = NoSecret \/ pending \in [secret : Secrets, createdAt : Nat]
  /\ enabled \in BOOLEAN /\ unused \subseteq BACKUP_CODES /\ usedSecrets \subseteq Secrets
  /\ Len(accepted) <= MaxAccepted

(* No code is accepted twice, by login, step-up, confirmation or              *)
(* reauthentication, whatever is set up, replaced, disabled and enabled again *)
(* in between; and an account that demands a code has a secret to check it.   *)
CodeAcceptedOnce ==
  /\ \A i, j \in DOMAIN accepted : accepted[i] = accepted[j] => i = j
  /\ enabled <=> active # NoSecret
=============================================================================
