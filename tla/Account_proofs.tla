---------------------------- MODULE Account_proofs ----------------------------
(***************************************************************************)
(* Proofs about what protects an account, for any secrets, codes, links,   *)
(* addresses and limits: TwoFactor, that no code is accepted twice;        *)
(* SecurityLinks, that the newest link is the one that works; RateLimit,   *)
(* that nobody gets around a limit; RefreshLease, that the tabs of one     *)
(* browser, with or without Web Locks and localStorage, exclude each other.*)
(***************************************************************************)
EXTENDS TwoFactor, SecurityLinks, RateLimit, RefreshLease, FiniteSetTheorems, TLAPS

----------------------------------------------------------------------------
(* Two-factor authentication: the inductive invariant *)

Codes == TotpCodes \cup BackupCodes

AcceptedCodes == {accepted[i] : i \in DOMAIN accepted}

MethodShape ==
  /\ totpClock \in Nat /\ setupGeneration \in Nat
  /\ active = NoSecret \/ active \in [secret : Secrets, lastAccepted : Nat]
  /\ pending = NoSecret \/ pending \in [secret : Secrets, createdAt : Nat]
  /\ accepted \in Seq(Codes)

\* A secret is generated for one setup and never comes back.
SecretsOnce ==
  /\ active # NoSecret => active.secret \in usedSecrets
  /\ pending # NoSecret => pending.secret \in usedSecrets
  /\ active # NoSecret /\ pending # NoSecret => active.secret # pending.secret

\* What the account remembers of a code that was accepted: the counter while
\* its secret is active, the used mark while its generation is the current.
Remembered(c) ==
  /\ c.kind = "totp" =>
       /\ c.secret \in usedSecrets
       /\ active # NoSecret /\ c.secret = active.secret => c.counter <= active.lastAccepted
       /\ pending # NoSecret => c.secret # pending.secret
  /\ c.kind = "backup" =>
       /\ c.generation <= setupGeneration
       /\ c.generation = setupGeneration => c.code \notin unused

CodesRemembered == \A c \in AcceptedCodes : Remembered(c)

TwoFactorIInv == MethodShape /\ SecretsOnce /\ CodesRemembered /\ CodeAcceptedOnce

----------------------------------------------------------------------------
\* A code becomes the last of the accepted ones.
LEMMA AcceptAppends ==
  ASSUME MethodShape, NEW code \in Codes, Accept(code)
  PROVE  /\ accepted' \in Seq(Codes) /\ accepted' # accepted
         /\ AcceptedCodes' = AcceptedCodes \cup {code}
<1>1. accepted \in Seq(Codes) /\ accepted' = Append(accepted, code)
  BY DEF MethodShape, Accept
<1>2. /\ accepted' \in Seq(Codes) /\ Len(accepted') = Len(accepted) + 1 /\ Len(accepted) \in Nat
      /\ DOMAIN accepted = 1 .. Len(accepted) /\ DOMAIN accepted' = 1 .. Len(accepted) + 1
      /\ \A i \in 1 .. Len(accepted) : accepted'[i] = accepted[i]
      /\ accepted'[Len(accepted) + 1] = code
  BY <1>1
<1>3. accepted' # accepted
  BY <1>2
<1>4. AcceptedCodes' \subseteq AcceptedCodes \cup {code}
  BY <1>2 DEF AcceptedCodes
<1>5. AcceptedCodes \subseteq AcceptedCodes'
  BY <1>2 DEF AcceptedCodes
<1>6. code \in AcceptedCodes'
  BY <1>2 DEF AcceptedCodes
<1> QED
  BY <1>2, <1>3, <1>4, <1>5, <1>6

\* A code that is none of the accepted ones keeps them different.
LEMMA AcceptOnce ==
  ASSUME MethodShape, NEW code \in Codes, Accept(code), code \notin AcceptedCodes,
         \A i, j \in DOMAIN accepted : accepted[i] = accepted[j] => i = j
  PROVE  \A i, j \in DOMAIN accepted' : accepted'[i] = accepted'[j] => i = j
<1>1. accepted \in Seq(Codes) /\ accepted' = Append(accepted, code)
  BY DEF MethodShape, Accept
<1>2. /\ Len(accepted) \in Nat
      /\ DOMAIN accepted = 1 .. Len(accepted) /\ DOMAIN accepted' = 1 .. Len(accepted) + 1
      /\ \A i \in 1 .. Len(accepted) : accepted'[i] = accepted[i]
      /\ accepted'[Len(accepted) + 1] = code
  BY <1>1
<1>3. \A i \in 1 .. Len(accepted) : accepted[i] # code
  BY <1>2 DEF AcceptedCodes
<1> QED
  BY <1>2, <1>3

\* What is remembered of the accepted codes rules out every one of them.
LEMMA AcceptsIsFresh ==
  ASSUME TwoFactorIInv, NEW code \in Codes, Accepts(code)
  PROVE  code \notin AcceptedCodes
<1> SUFFICES ASSUME code \in AcceptedCodes PROVE FALSE
  OBVIOUS
<1>1. MethodShape /\ Remembered(code) /\ active # NoSecret
  BY DEF TwoFactorIInv, CodesRemembered, Accepts, AcceptsTotp, AcceptsBackup
<1>2. active \in [secret : Secrets, lastAccepted : Nat]
  BY <1>1 DEF MethodShape
<1>3. CASE code \in TotpCodes
  BY <1>1, <1>2, <1>3 DEF TotpCodes, Accepts, AcceptsTotp, Remembered
<1>4. CASE code \in BackupCodes
  BY <1>1, <1>4 DEF BackupCodes, Accepts, AcceptsBackup, Remembered
<1> QED
  BY <1>3, <1>4 DEF Codes

\* The state a code that is consumed leaves remembers it and all before it.
LEMMA ConsumeKeeps ==
  ASSUME TwoFactorIInv, NEW code \in Codes, Accepts(code)
  PROVE  /\ ActiveAfter(code) \in [secret : Secrets, lastAccepted : Nat]
         /\ ActiveAfter(code).secret = active.secret
         /\ ActiveAfter(code).lastAccepted >= active.lastAccepted
         /\ code.kind = "totp" => /\ code.secret = active.secret
                                  /\ ActiveAfter(code).lastAccepted = code.counter
                                  /\ code.counter \in Nat
         /\ code.kind = "backup" => /\ code.generation = setupGeneration
                                    /\ UnusedAfter(code) = unused \ {code.code}
         /\ UnusedAfter(code) \subseteq unused
         /\ active # NoSecret /\ active \in [secret : Secrets, lastAccepted : Nat]
<1>1. active # NoSecret
  BY DEF Accepts, AcceptsTotp, AcceptsBackup
<1>2. active \in [secret : Secrets, lastAccepted : Nat]
  BY <1>1 DEF TwoFactorIInv, MethodShape
<1>3. CASE code \in TotpCodes
  BY <1>1, <1>2, <1>3 DEF TotpCodes, Accepts, AcceptsTotp, ActiveAfter, UnusedAfter
<1>4. CASE code \in BackupCodes
  BY <1>1, <1>2, <1>4 DEF BackupCodes, Accepts, AcceptsBackup, ActiveAfter, UnusedAfter
<1> QED
  BY <1>3, <1>4 DEF Codes

LEMMA MethodPresent ==
  ASSUME NEW m, m \in [secret : Secrets, lastAccepted : Nat]
         \/ m \in [secret : Secrets, createdAt : Nat]
  PROVE  m # NoSecret
<1>1. DOMAIN NoSecret = {"secret"}
  BY DEF NoSecret
<1>2. "lastAccepted" \in DOMAIN m \/ "createdAt" \in DOMAIN m
  OBVIOUS
<1> QED
  BY <1>1, <1>2

----------------------------------------------------------------------------
(* One lemma per kind of step *)

\* A code is consumed and the secrets stay: a verification, or the setup of
\* another method, whose secret is new.
LEMMA ConsumeInv ==
  ASSUME TwoFactorIInv, NEW code \in Codes, consumeTwoFactorCode(code), enabled,
         UNCHANGED <<totpClock, enabled, setupGeneration>>,
         \/ UNCHANGED <<pending, usedSecrets>>
         \/ \E s \in Secrets \ usedSecrets :
              /\ pending' = [secret |-> s, createdAt |-> totpClock]
              /\ usedSecrets' = usedSecrets \cup {s}
  PROVE  TwoFactorIInv'
<1>1. MethodShape /\ SecretsOnce /\ CodesRemembered /\ CodeAcceptedOnce /\ active # NoSecret
  BY DEF TwoFactorIInv, CodeAcceptedOnce
<1>2. Accepts(code) /\ Accept(code) /\ active' = ActiveAfter(code) /\ unused' = UnusedAfter(code)
  BY DEF consumeTwoFactorCode
<1>3. /\ active' \in [secret : Secrets, lastAccepted : Nat] /\ active'.secret = active.secret
      /\ active'.lastAccepted >= active.lastAccepted
      /\ active \in [secret : Secrets, lastAccepted : Nat]
      /\ unused' \subseteq unused
      /\ code.kind = "totp" => /\ code.secret = active.secret /\ code.counter \in Nat
                               /\ active'.lastAccepted = code.counter
      /\ code.kind = "backup" => code.generation = setupGeneration /\ code.code \notin unused'
  BY <1>2, ConsumeKeeps
<1>4. active' # NoSecret
  BY <1>3, MethodPresent
<1>5. accepted' \in Seq(Codes) /\ AcceptedCodes' = AcceptedCodes \cup {code}
  BY <1>1, <1>2, AcceptAppends
<1>6. MethodShape'
  BY <1>1, <1>3, <1>5 DEF MethodShape
<1>7. SecretsOnce'
  BY <1>1, <1>3 DEF SecretsOnce
<1>8. CodesRemembered'
  <2> SUFFICES ASSUME NEW c \in AcceptedCodes' PROVE Remembered(c)'
    BY DEF CodesRemembered
  <2>1. CASE c \in AcceptedCodes
    <3>1. Remembered(c) /\ c \in Codes
      BY <1>1, <2>1 DEF CodesRemembered, AcceptedCodes, MethodShape
    <3>2. c.kind = "totp" => c.counter \in Nat
      BY <3>1 DEF Codes, TotpCodes, BackupCodes
    <3> QED
      BY <1>1, <1>3, <3>1, <3>2 DEF Remembered
  <2>2. CASE c = code
    BY <1>1, <1>3, <2>2 DEF Remembered, SecretsOnce, MethodShape
  <2> QED
    BY <1>5, <2>1, <2>2
<1>9. CodeAcceptedOnce'
  <2>1. code \notin AcceptedCodes
    BY <1>2, AcceptsIsFresh
  <2>2. \A i, j \in DOMAIN accepted' : accepted'[i] = accepted'[j] => i = j
    BY <1>1, <1>2, <2>1, AcceptOnce DEF CodeAcceptedOnce
  <2> QED
    BY <1>4, <2>2 DEF CodeAcceptedOnce
<1> QED
  BY <1>6, <1>7, <1>8, <1>9 DEF TwoFactorIInv

\* A setup that the password allowed: a pending secret nobody has a code of.
LEMMA SetupInv ==
  ASSUME TwoFactorIInv, NEW s \in Secrets \ usedSecrets,
         pending' = [secret |-> s, createdAt |-> totpClock], usedSecrets' = usedSecrets \cup {s},
         UNCHANGED <<active, unused, accepted, totpClock, enabled, setupGeneration>>
  PROVE  TwoFactorIInv'
<1>1. MethodShape /\ SecretsOnce /\ CodesRemembered /\ CodeAcceptedOnce
  BY DEF TwoFactorIInv
<1>2. MethodShape' /\ SecretsOnce'
  BY <1>1 DEF MethodShape, SecretsOnce
<1>3. CodesRemembered'
  BY <1>1 DEF CodesRemembered, Remembered, AcceptedCodes
<1>4. CodeAcceptedOnce'
  BY <1>1 DEF CodeAcceptedOnce
<1> QED
  BY <1>2, <1>3, <1>4 DEF TwoFactorIInv

\* The pending secret becomes the active one: no code of it was accepted yet,
\* and the backup codes are of a new generation.
LEMMA ConfirmInv ==
  ASSUME TwoFactorIInv, NEW code \in Codes, confirmTwoFactor(code)
  PROVE  TwoFactorIInv'
<1>1. MethodShape /\ SecretsOnce /\ CodesRemembered /\ CodeAcceptedOnce
  BY DEF TwoFactorIInv
<1>2. pending # NoSecret /\ UNCHANGED <<totpClock, usedSecrets>>
  BY DEF confirmTwoFactor
<1>3. CASE /\ pending' = NoSecret
           /\ UNCHANGED <<active, enabled, setupGeneration, unused, epoch, accepted>>
  BY <1>1, <1>2, <1>3
     DEF TwoFactorIInv, MethodShape, SecretsOnce, CodesRemembered, Remembered, AcceptedCodes,
         CodeAcceptedOnce
<1>4. CASE /\ code.kind = "totp" /\ code.secret = pending.secret /\ createBackupCodes
           /\ active' = [secret |-> pending.secret, lastAccepted |-> code.counter]
           /\ pending' = NoSecret /\ enabled' = TRUE /\ Accept(code)
  <2>1. pending \in [secret : Secrets, createdAt : Nat]
    BY <1>1, <1>2 DEF MethodShape
  <2>2. code.counter \in Nat
    BY <1>4 DEF Codes, TotpCodes, BackupCodes
  <2>3. /\ active' \in [secret : Secrets, lastAccepted : Nat]
        /\ active'.secret = pending.secret /\ active'.lastAccepted = code.counter
    BY <1>4, <2>1, <2>2
  <2>4. active' # NoSecret
    BY <2>3, MethodPresent
  <2>5. accepted' \in Seq(Codes) /\ AcceptedCodes' = AcceptedCodes \cup {code}
    BY <1>1, <1>4, AcceptAppends
  <2>6. setupGeneration' = setupGeneration + 1 /\ setupGeneration \in Nat
    BY <1>1, <1>4 DEF createBackupCodes, MethodShape
  <2>7. MethodShape'
    BY <1>1, <1>2, <1>4, <2>3, <2>5, <2>6 DEF MethodShape
  <2>8. SecretsOnce'
    BY <1>1, <1>2, <1>4, <2>3 DEF SecretsOnce
  <2>9. CodesRemembered'
    <3> SUFFICES ASSUME NEW c \in AcceptedCodes' PROVE Remembered(c)'
      BY DEF CodesRemembered
    <3>1. CASE c \in AcceptedCodes
      <4>1. Remembered(c) /\ c \in Codes
        BY <1>1, <3>1 DEF CodesRemembered, AcceptedCodes, MethodShape
      <4>2. c.kind = "backup" => c.generation \in Nat
        BY <4>1, FS_CardinalityType, TwoFactorAssumption DEF Codes, TotpCodes, BackupCodes
      <4> QED
        BY <1>2, <1>4, <2>3, <2>6, <4>1, <4>2 DEF Remembered
    <3>2. CASE c = code
      BY <1>1, <1>2, <1>4, <2>2, <2>3, <3>2 DEF Remembered, SecretsOnce
    <3> QED
      BY <2>5, <3>1, <3>2
  <2>10. code \notin AcceptedCodes
    BY <1>1, <1>2, <1>4 DEF CodesRemembered, Remembered
  <2>11. CodeAcceptedOnce'
    <3>1. \A i, j \in DOMAIN accepted' : accepted'[i] = accepted'[j] => i = j
      BY <1>1, <1>4, <2>10, AcceptOnce DEF CodeAcceptedOnce
    <3> QED
      BY <1>4, <2>4, <3>1 DEF CodeAcceptedOnce
  <2> QED
    BY <2>7, <2>8, <2>9, <2>11 DEF TwoFactorIInv
<1> QED
  BY <1>3, <1>4 DEF confirmTwoFactor

\* The backup codes are replaced or deleted; the code that allowed it, if it
\* was one, is remembered by its counter, and a backup code by its generation.
LEMMA ReplaceInv ==
  ASSUME TwoFactorIInv, NEW code \in Codes,
         regenerateTwoFactorBackupCodes(code) \/ disableTwoFactor(code)
  PROVE  TwoFactorIInv'
<1>1. MethodShape /\ SecretsOnce /\ CodesRemembered /\ CodeAcceptedOnce
  BY DEF TwoFactorIInv
<1>2. /\ requireReauthentication(code) /\ enabled /\ UNCHANGED <<totpClock, usedSecrets>>
  BY DEF regenerateTwoFactorBackupCodes, disableTwoFactor
<1>3. active # NoSecret /\ active \in [secret : Secrets, lastAccepted : Nat]
  BY <1>1, <1>2 DEF CodeAcceptedOnce, MethodShape
<1>4. \/ accepted' = accepted
      \/ /\ Accepts(code) /\ Accept(code) /\ accepted' # accepted
         /\ accepted' \in Seq(Codes) /\ AcceptedCodes' = AcceptedCodes \cup {code}
  BY <1>1, <1>2, AcceptAppends DEF requireReauthentication
<1>5. accepted' \in Seq(Codes) /\ AcceptedCodes' \subseteq AcceptedCodes \cup {code}
  BY <1>1, <1>4 DEF MethodShape, AcceptedCodes
<1>6. \A i, j \in DOMAIN accepted' : accepted'[i] = accepted'[j] => i = j
  <2>1. CASE accepted' = accepted
    BY <1>1, <2>1 DEF CodeAcceptedOnce
  <2>2. CASE Accepts(code) /\ Accept(code)
    BY <1>1, <2>2, AcceptsIsFresh, AcceptOnce DEF CodeAcceptedOnce
  <2> QED
    BY <1>4, <2>1, <2>2
<1>7. \A c \in AcceptedCodes' :
        /\ c \in AcceptedCodes \/ (Accepts(code) /\ Accept(code) /\ c = code)
        /\ c.kind = "backup" => c.generation \in Nat /\ c.generation <= setupGeneration
        /\ c.kind = "totp" => c.counter \in Nat /\ c.secret \in usedSecrets
        /\ c.kind = "totp" => (pending # NoSecret => c.secret # pending.secret)
  <2> SUFFICES ASSUME NEW c \in AcceptedCodes'
               PROVE  /\ c \in AcceptedCodes \/ (Accepts(code) /\ Accept(code) /\ c = code)
                      /\ c.kind = "backup" => c.generation \in Nat /\ c.generation <= setupGeneration
                      /\ c.kind = "totp" => c.counter \in Nat /\ c.secret \in usedSecrets
                      /\ c.kind = "totp" => (pending # NoSecret => c.secret # pending.secret)
    OBVIOUS
  <2>1. c \in AcceptedCodes \/ (Accepts(code) /\ Accept(code) /\ c = code)
    BY <1>4 DEF AcceptedCodes
  <2>2. c \in Codes
    BY <1>1, <2>1 DEF AcceptedCodes, MethodShape
  <2>3. /\ c.kind = "backup" => c.generation \in Nat
        /\ c.kind = "totp" => c.counter \in Nat
    BY <2>2, FS_CardinalityType, TwoFactorAssumption DEF Codes, TotpCodes, BackupCodes
  <2>4. CASE c \in AcceptedCodes
    BY <1>1, <2>3, <2>4 DEF CodesRemembered, Remembered
  <2>5. CASE c = code /\ Accepts(code)
    <3>1. /\ c.kind = "totp" => c.secret = active.secret
          /\ c.kind = "backup" => c.generation = setupGeneration
      BY <2>5, ConsumeKeeps
    <3> QED
      BY <1>1, <1>3, <2>1, <2>3, <2>5, <3>1 DEF SecretsOnce, MethodShape
  <2> QED
    BY <2>1, <2>4, <2>5
<1>8. CASE regenerateTwoFactorBackupCodes(code)
  <2>1. /\ active' = IF accepted' # accepted THEN ActiveAfter(code) ELSE active
        /\ setupGeneration' = setupGeneration + 1 /\ setupGeneration \in Nat
        /\ UNCHANGED <<pending, enabled>>
    BY <1>1, <1>8 DEF regenerateTwoFactorBackupCodes, createBackupCodes, MethodShape
  <2>2. /\ active' \in [secret : Secrets, lastAccepted : Nat] /\ active'.secret = active.secret
        /\ active'.lastAccepted >= active.lastAccepted
    BY <1>3, <1>4, <2>1, ConsumeKeeps
  <2>3. active' # NoSecret
    BY <2>2, MethodPresent
  <2>4. MethodShape' /\ SecretsOnce'
    BY <1>1, <1>2, <1>3, <1>5, <2>1, <2>2 DEF MethodShape, SecretsOnce
  <2>5. CodesRemembered'
    <3> SUFFICES ASSUME NEW c \in AcceptedCodes' PROVE Remembered(c)'
      BY DEF CodesRemembered
    <3>1. c.kind = "backup" => c.generation < setupGeneration'
      BY <1>7, <2>1
    <3>2. c.kind = "totp" /\ c.secret = active.secret => c.counter <= active'.lastAccepted
      <4>1. CASE c \in AcceptedCodes
        <5>1. c.kind = "totp" /\ c.secret = active.secret
                => c.counter <= active.lastAccepted /\ c.counter \in Nat
          BY <1>1, <1>3, <1>7, <4>1 DEF CodesRemembered, Remembered
        <5> QED
          BY <1>3, <2>2, <5>1
      <4>2. CASE Accepts(code) /\ Accept(code) /\ c = code
        <5>1. active' = ActiveAfter(code)
          BY <1>1, <2>1, <4>2, AcceptAppends
        <5>2. c.kind = "totp" => active'.lastAccepted = c.counter /\ c.counter \in Nat
          BY <4>2, <5>1, ConsumeKeeps
        <5> QED
          BY <5>2
      <4> QED
        BY <1>7, <4>1, <4>2
    <3>3. c.kind = "backup" => c.generation \in Nat /\ c.generation # setupGeneration'
      BY <1>7, <2>1, <3>1
    <3> QED
      BY <1>2, <1>7, <2>1, <2>2, <3>1, <3>2, <3>3 DEF Remembered
  <2>6. CodeAcceptedOnce'
    BY <1>2, <1>6, <2>1, <2>3 DEF CodeAcceptedOnce
  <2> QED
    BY <2>4, <2>5, <2>6 DEF TwoFactorIInv
<1>9. CASE disableTwoFactor(code)
  <2>1. /\ active' = NoSecret /\ pending' = NoSecret /\ enabled' = FALSE /\ unused' = {}
        /\ setupGeneration' = setupGeneration
    BY <1>9 DEF disableTwoFactor
  <2>2. MethodShape' /\ SecretsOnce'
    BY <1>1, <1>2, <1>5, <2>1 DEF MethodShape, SecretsOnce
  <2>3. CodesRemembered'
    BY <1>2, <1>7, <2>1 DEF CodesRemembered, Remembered
  <2>4. CodeAcceptedOnce'
    BY <1>6, <2>1 DEF CodeAcceptedOnce
  <2> QED
    BY <2>2, <2>3, <2>4 DEF TwoFactorIInv
<1> QED
  BY <1>8, <1>9

----------------------------------------------------------------------------
LEMMA TwoFactorInitInv == TwoFactorInit => TwoFactorIInv
<1> SUFFICES ASSUME TwoFactorInit PROVE TwoFactorIInv
  OBVIOUS
<1>1. accepted = <<>> /\ DOMAIN accepted = {}
  BY DEF TwoFactorInit
<1> QED
  BY <1>1 DEF TwoFactorInit, TwoFactorIInv, MethodShape, SecretsOnce, CodesRemembered,
              AcceptedCodes, CodeAcceptedOnce

LEMMA TwoFactorNextInv == TwoFactorIInv /\ [TwoFactorNext]_twoFactorVars => TwoFactorIInv'
<1> SUFFICES ASSUME TwoFactorIInv, [TwoFactorNext]_twoFactorVars
             PROVE  TwoFactorIInv'
  OBVIOUS
<1>1. CASE PeriodPasses \/ UNCHANGED twoFactorVars
  <2>1. /\ UNCHANGED <<active, pending, enabled, setupGeneration, unused, usedSecrets, accepted>>
        /\ totpClock' = totpClock \/ totpClock' = totpClock + 1
    BY <1>1 DEF PeriodPasses, twoFactorVars
  <2> QED
    BY <2>1 DEF TwoFactorIInv, MethodShape, SecretsOnce, CodesRemembered, Remembered,
                AcceptedCodes, CodeAcceptedOnce
<1>2. ASSUME NEW code \in Codes, verifyTwoFactorCode(code)
      PROVE  TwoFactorIInv'
  BY <1>2, ConsumeInv DEF verifyTwoFactorCode
<1>3. ASSUME NEW code \in Codes, NEW s \in Secrets, setupTwoFactor(s, code)
      PROVE  TwoFactorIInv'
  <2>1. CASE UNCHANGED <<active, unused, accepted>>
    BY <1>3, <2>1, SetupInv DEF setupTwoFactor
  <2>2. CASE enabled /\ consumeTwoFactorCode(code)
    BY <1>3, <2>2, ConsumeInv DEF setupTwoFactor
  <2> QED
    BY <1>3, <2>1, <2>2 DEF setupTwoFactor
<1> QED
  BY <1>1, <1>2, <1>3, ConfirmInv, ReplaceInv DEF TwoFactorNext, Codes

\* No time-based or backup code is accepted twice, by login, step-up,
\* confirmation or reauthentication, however often the method is set up,
\* replaced, disabled and enabled again; and the account demands a code
\* exactly while it has a secret to check it (twofa.service.ts).
THEOREM NoCodeTwice == TwoFactorSpec => []CodeAcceptedOnce
<1>1. TwoFactorIInv => CodeAcceptedOnce
  BY DEF TwoFactorIInv
<1> QED
  BY <1>1, TwoFactorInitInv, TwoFactorNextInv, PTL DEF TwoFactorSpec

----------------------------------------------------------------------------
(* Reset links: the inductive invariant *)

Begun == {r \in Resets : reset[r].pc # "none"}

AccountRows ==
  [email : Addresses, emailGeneration : Nat, verified : BOOLEAN, passwordGeneration : Nat,
   sessionVersion : Nat]

LinksShape ==
  /\ account \in AccountRows
  /\ reset \in [Resets -> [pc : {"none", "epoch", "stored", "mailed", "hashing", "applied",
                                 "failed"},
                           passwordGeneration : Nat, emailGeneration : Nat]]
  /\ activeReset \in Resets \cup {NoOne}
  /\ \/ emailChange = NoChange
     \/ emailChange \in [pc : {"sending", "delivered"}, email : Addresses, sessionVersion : Nat]

\* Requests are ranked by the password generation they committed, and none is
\* ahead of the account.
GenerationsRank ==
  /\ \A r \in Begun : /\ reset[r].passwordGeneration <= account.passwordGeneration
                      /\ reset[r].emailGeneration <= account.emailGeneration
  /\ \A r, q \in Begun : reset[r].passwordGeneration = reset[q].passwordGeneration => r = q

\* Redis names the newest link from the moment it is stored.
NewestIsActive ==
  \A r \in Resets : reset[r].pc \in {"stored", "mailed"} /\ SameIdentity(r) =>
                       r \in resetTokens /\ activeReset = r

LinksIInv == LinksShape /\ GenerationsRank /\ NewestIsActive

----------------------------------------------------------------------------
\* A new password, by a reset link or from a session; and a new address.
LEMMA PasswordChanges ==
  ASSUME account \in AccountRows,
         account' = [account EXCEPT !.passwordGeneration = @ + 1, !.sessionVersion = @ + 1]
  PROVE  /\ account' \in AccountRows
         /\ account'.passwordGeneration = account.passwordGeneration + 1
         /\ account'.emailGeneration = account.emailGeneration
<1> DEFINE p == account.passwordGeneration + 1
           s == account.sessionVersion + 1
<1>1. p \in Nat /\ s \in Nat
  BY DEF AccountRows
<1>2. account' = [account EXCEPT !.passwordGeneration = p, !.sessionVersion = s]
  BY DEF AccountRows
<1> HIDE DEF p, s
<1>3. /\ account' \in AccountRows
      /\ account'.passwordGeneration = p /\ account'.emailGeneration = account.emailGeneration
  BY <1>1, <1>2 DEF AccountRows
<1> QED
  BY <1>3 DEF p

LEMMA AddressChanges ==
  ASSUME account \in AccountRows, NEW e \in Addresses,
         account' = [account EXCEPT !.email = e, !.verified = TRUE, !.emailGeneration = @ + 1,
                                    !.sessionVersion = @ + 1]
  PROVE  /\ account' \in AccountRows
         /\ account'.passwordGeneration = account.passwordGeneration
         /\ account'.emailGeneration = account.emailGeneration + 1
<1> DEFINE g == account.emailGeneration + 1
           s == account.sessionVersion + 1
<1>1. g \in Nat /\ s \in Nat
  BY DEF AccountRows
<1>2. account' = [account EXCEPT !.email = e, !.verified = TRUE, !.emailGeneration = g,
                                 !.sessionVersion = s]
  BY DEF AccountRows
<1> HIDE DEF g, s
<1>3. /\ account' \in AccountRows
      /\ account'.passwordGeneration = account.passwordGeneration
      /\ account'.emailGeneration = g
  BY <1>1, <1>2 DEF AccountRows
<1> QED
  BY <1>3 DEF g

\* The account changes: its generations only grow, so that no link becomes
\* current again.
LEMMA AccountMoves ==
  ASSUME LinksIInv, LinksShape', UNCHANGED <<reset, resetTokens, activeReset>>,
         account'.passwordGeneration >= account.passwordGeneration,
         account'.emailGeneration >= account.emailGeneration
  PROVE  LinksIInv'
<1>1. LinksShape /\ GenerationsRank /\ NewestIsActive
  BY DEF LinksIInv
<1>2. /\ account.passwordGeneration \in Nat /\ account'.passwordGeneration \in Nat
      /\ account.emailGeneration \in Nat /\ account'.emailGeneration \in Nat
      /\ \A r \in Resets : reset[r].passwordGeneration \in Nat /\ reset[r].emailGeneration \in Nat
  BY <1>1 DEF LinksShape, AccountRows
<1>3. GenerationsRank'
  BY <1>1, <1>2 DEF GenerationsRank, Begun
<1>4. ASSUME NEW r \in Resets, reset'[r].pc \in {"stored", "mailed"}, SameIdentity(r)'
      PROVE  r \in resetTokens' /\ activeReset' = r
  <2>1. r \in Begun
    BY <1>4 DEF Begun
  <2>2. SameIdentity(r)
    BY <1>1, <1>2, <1>4, <2>1 DEF GenerationsRank, SameIdentity
  <2> QED
    BY <1>1, <1>4, <2>2 DEF NewestIsActive
<1> QED
  BY <1>3, <1>4 DEF LinksIInv, NewestIsActive

\* One request moves on and the account stays.
LEMMA RequestMoves ==
  ASSUME LinksIInv, NEW r \in Resets, reset[r].pc # "none", UNCHANGED <<account, emailChange>>,
         NEW pc \in {"epoch", "stored", "mailed", "hashing", "applied", "failed"},
         reset' = [reset EXCEPT ![r].pc = pc],
         activeReset' \in Resets \cup {NoOne},
         \* of the others, only one that an account has outgrown loses its place
         \A q \in Resets \ {r} : activeReset = q /\ q \in resetTokens =>
            \/ activeReset' = q /\ q \in resetTokens'
            \/ reset[q].passwordGeneration < reset[r].passwordGeneration,
         pc \in {"stored", "mailed"} /\ SameIdentity(r) => r \in resetTokens' /\ activeReset' = r
  PROVE  LinksIInv'
<1>1. LinksShape /\ GenerationsRank /\ NewestIsActive
  BY DEF LinksIInv
<1>2. /\ LinksShape'
      /\ reset'[r].pc = pc /\ \A q \in Resets \ {r} : reset'[q] = reset[q]
      /\ reset'[r].passwordGeneration = reset[r].passwordGeneration
      /\ reset'[r].emailGeneration = reset[r].emailGeneration
  BY <1>1 DEF LinksShape, AccountRows
<1>3. /\ account.passwordGeneration \in Nat
      /\ \A q \in Resets : reset[q].passwordGeneration \in Nat
  BY <1>1 DEF LinksShape, AccountRows
<1>4. \A q \in Resets : /\ SameIdentity(q)' <=> SameIdentity(q)
                        /\ q \in Begun' <=> q \in Begun
  BY <1>2 DEF SameIdentity, Begun
<1>5. GenerationsRank'
  BY <1>1, <1>2, <1>4 DEF GenerationsRank, Begun
<1>6. ASSUME NEW q \in Resets, reset'[q].pc \in {"stored", "mailed"}, SameIdentity(q)'
      PROVE  q \in resetTokens' /\ activeReset' = q
  <2>1. CASE q = r
    BY <1>2, <1>4, <1>6, <2>1
  <2>2. CASE q # r
    <3>1. q \in resetTokens /\ activeReset = q
      BY <1>1, <1>2, <1>4, <1>6, <2>2 DEF NewestIsActive
    <3>2. ~(reset[q].passwordGeneration < reset[r].passwordGeneration)
      BY <1>1, <1>3, <1>4, <1>6 DEF GenerationsRank, Begun, SameIdentity
    <3> QED
      BY <2>2, <3>1, <3>2
  <2> QED
    BY <2>1, <2>2
<1> QED
  BY <1>2, <1>5, <1>6 DEF LinksIInv, NewestIsActive

\* A new request is ranked above all others, and its link is not stored yet.
LEMMA BeginResetInv ==
  ASSUME LinksIInv, NEW r \in Resets, BeginReset(r)
  PROVE  LinksIInv'
<1>1. LinksShape /\ GenerationsRank /\ NewestIsActive
  BY DEF LinksIInv
<1>2. /\ reset[r].pc = "none" /\ UNCHANGED <<resetTokens, activeReset, emailChange>>
      /\ account' = [account EXCEPT !.passwordGeneration = @ + 1]
      /\ reset' = [reset EXCEPT ![r] = [pc |-> "epoch",
                                        passwordGeneration |-> account.passwordGeneration + 1,
                                        emailGeneration |-> account.emailGeneration]]
  BY DEF BeginReset
<1>3. /\ account.passwordGeneration \in Nat /\ account.emailGeneration \in Nat
      /\ account'.passwordGeneration = account.passwordGeneration + 1
      /\ account'.emailGeneration = account.emailGeneration
      /\ \A q \in Resets : reset[q].passwordGeneration \in Nat
  BY <1>1, <1>2 DEF LinksShape, AccountRows
<1>4. /\ reset'[r].pc = "epoch" /\ \A q \in Resets \ {r} : reset'[q] = reset[q]
      /\ reset'[r].passwordGeneration = account.passwordGeneration + 1
      /\ reset'[r].emailGeneration = account.emailGeneration
  BY <1>1, <1>2 DEF LinksShape, AccountRows
<1>5. LinksShape'
  BY <1>1, <1>2, <1>3 DEF LinksShape, AccountRows
<1>6. Begun' = Begun \cup {r} /\ r \notin Begun
  BY <1>2, <1>4 DEF Begun
<1>7. GenerationsRank'
  <2>1. \A q \in Begun : /\ q # r /\ reset'[q] = reset[q] /\ q \in Resets
                         /\ reset[q].passwordGeneration <= account.passwordGeneration
                         /\ reset[q].emailGeneration <= account.emailGeneration
    BY <1>1, <1>4, <1>6 DEF GenerationsRank, Begun
  <2>2. \A q \in Begun' : /\ reset'[q].passwordGeneration <= account'.passwordGeneration
                          /\ reset'[q].emailGeneration <= account'.emailGeneration
    BY <1>3, <1>4, <1>6, <2>1
  <2>3. ASSUME NEW p \in Begun', NEW q \in Begun',
               reset'[p].passwordGeneration = reset'[q].passwordGeneration
        PROVE  p = q
    <3>1. \A x \in Begun : reset'[x].passwordGeneration # account.passwordGeneration + 1
      BY <1>3, <2>1
    <3>2. CASE p = r \/ q = r
      BY <1>4, <1>6, <2>3, <3>1, <3>2
    <3>3. CASE p # r /\ q # r
      BY <1>1, <1>6, <2>1, <2>3, <3>3 DEF GenerationsRank
    <3> QED
      BY <3>2, <3>3
  <2> QED
    BY <2>2, <2>3 DEF GenerationsRank
<1>8. ASSUME NEW q \in Resets, reset'[q].pc \in {"stored", "mailed"}, SameIdentity(q)'
      PROVE  FALSE
  <2>1. q # r /\ q \in Begun
    BY <1>4, <1>8 DEF Begun
  <2> QED
    BY <1>1, <1>3, <1>4, <1>8, <2>1 DEF GenerationsRank, SameIdentity, Begun
<1> QED
  BY <1>5, <1>7, <1>8 DEF LinksIInv, NewestIsActive

LEMMA ResetInv ==
  ASSUME LinksIInv, NEW r \in Resets,
         \/ StoreReset(r) \/ RecheckReset(r) \/ consumePasswordResetToken(r) \/ ApplyReset(r)
  PROVE  LinksIInv'
<1>1. LinksShape /\ GenerationsRank /\ NewestIsActive
  BY DEF LinksIInv
<1>2. activeReset \in Resets \cup {NoOne} /\ NoOne \notin Resets
  BY <1>1, LinksAssumption DEF LinksShape, AccountRows
<1>3. CASE StoreReset(r)
  <2>1. reset[r].pc = "epoch" /\ UNCHANGED <<account, emailChange>>
    BY <1>3 DEF StoreReset
  <2>2. CASE /\ reset' = [reset EXCEPT ![r].pc = "failed"]
             /\ UNCHANGED <<resetTokens, activeReset>>
    BY <1>2, <2>1, <2>2, RequestMoves
  <2>3. CASE /\ \/ activeReset = NoOne
                \/ /\ activeReset # NoOne
                   /\ reset[activeReset].passwordGeneration < reset[r].passwordGeneration
             /\ resetTokens' = (resetTokens \ {activeReset}) \cup {r}
             /\ activeReset' = r
             /\ reset' = [reset EXCEPT ![r].pc = "stored"]
    <3>1. \A q \in Resets \ {r} : activeReset = q /\ q \in resetTokens =>
            \/ activeReset' = q /\ q \in resetTokens'
            \/ reset[q].passwordGeneration < reset[r].passwordGeneration
      BY <1>2, <2>3
    <3>2. r \in resetTokens' /\ activeReset' = r
      BY <2>3
    <3> QED
      BY <2>1, <2>3, <3>1, <3>2, RequestMoves
  <2> QED
    BY <1>3, <2>2, <2>3 DEF StoreReset
<1>4. CASE RecheckReset(r)
  <2>1. reset[r].pc = "stored" /\ UNCHANGED <<account, emailChange>>
    BY <1>4 DEF RecheckReset
  <2>2. CASE SameIdentity(r)
    <3>1. /\ reset' = [reset EXCEPT ![r].pc = "mailed"]
          /\ UNCHANGED <<resetTokens, activeReset>>
          /\ r \in resetTokens /\ activeReset = r
      BY <1>1, <1>4, <2>1, <2>2 DEF RecheckReset, NewestIsActive
    <3> QED
      BY <1>2, <2>1, <3>1, RequestMoves
  <2>3. CASE ~SameIdentity(r)
    <3>1. /\ reset' = [reset EXCEPT ![r].pc = "failed"] /\ resetTokens' = resetTokens \ {r}
          /\ activeReset' = IF activeReset = r THEN NoOne ELSE activeReset
      BY <1>4, <2>3 DEF RecheckReset
    <3> QED
      BY <1>2, <2>1, <3>1, RequestMoves
  <2> QED
    BY <2>2, <2>3
<1>5. CASE consumePasswordResetToken(r)
  <2>1. /\ reset[r].pc = "mailed" /\ UNCHANGED <<account, emailChange>>
        /\ resetTokens' = resetTokens \ {r}
        /\ activeReset' = IF activeReset = r THEN NoOne ELSE activeReset
    BY <1>5 DEF consumePasswordResetToken
  <2>2. PICK pc \in {"hashing", "failed"} : reset' = [reset EXCEPT ![r].pc = pc]
    BY <1>5 DEF consumePasswordResetToken
  <2> QED
    BY <1>2, <2>1, <2>2, RequestMoves
<1>6. CASE ApplyReset(r)
  <2>1. /\ reset[r].pc = "hashing" /\ UNCHANGED <<resetTokens, activeReset, emailChange>>
    BY <1>6 DEF ApplyReset
  <2>2. PICK pc \in {"applied", "failed"} : reset' = [reset EXCEPT ![r].pc = pc]
    BY <1>6 DEF ApplyReset
  <2>3. /\ account' = account \/ account' = [account EXCEPT !.passwordGeneration = @ + 1,
                                                            !.sessionVersion = @ + 1]
    BY <1>6 DEF ApplyReset
  <2>4. /\ account' \in AccountRows
        /\ account'.passwordGeneration >= account.passwordGeneration
        /\ account'.emailGeneration = account.emailGeneration
        /\ account.passwordGeneration \in Nat /\ account'.passwordGeneration \in Nat
        /\ account.emailGeneration \in Nat
    <3>1. account \in AccountRows
      BY <1>1 DEF LinksShape
    <3> QED
      BY <2>3, <3>1, PasswordChanges DEF AccountRows
  <2>5. LinksShape'
    BY <1>1, <2>1, <2>2, <2>4 DEF LinksShape, AccountRows
  <2>6. /\ reset'[r].pc = pc /\ \A q \in Resets \ {r} : reset'[q] = reset[q]
        /\ reset'[r].passwordGeneration = reset[r].passwordGeneration
        /\ reset'[r].emailGeneration = reset[r].emailGeneration
        /\ \A q \in Resets : reset[q].passwordGeneration \in Nat
    BY <1>1, <2>2 DEF LinksShape, AccountRows
  <2>7. Begun' = Begun
    BY <2>1, <2>6 DEF Begun
  <2>8. GenerationsRank'
    BY <1>1, <2>4, <2>6, <2>7 DEF GenerationsRank, Begun
  <2>9. ASSUME NEW q \in Resets, reset'[q].pc \in {"stored", "mailed"}, SameIdentity(q)'
        PROVE  q \in resetTokens' /\ activeReset' = q
    <3>1. q # r /\ q \in Begun
      BY <2>6, <2>9 DEF Begun
    <3>2. SameIdentity(q)
      BY <1>1, <2>4, <2>6, <2>9, <3>1 DEF GenerationsRank, SameIdentity
    <3> QED
      BY <1>1, <2>1, <2>6, <2>9, <3>1, <3>2 DEF NewestIsActive
  <2> QED
    BY <2>5, <2>8, <2>9 DEF LinksIInv, NewestIsActive
<1> QED
  BY <1>3, <1>4, <1>5, <1>6

\* Everything else leaves the reset links alone.
LEMMA OtherLinksInv ==
  ASSUME LinksIInv,
         \/ issueEmailVerificationToken
         \/ \E t \in verifyTokens : consumeEmailVerificationToken(t)
         \/ \E t \in redeeming : ConfirmAddress(t)
         \/ ReadPassword \/ ChangePassword
         \/ createStepUpToken
         \/ \E e \in Addresses, sv \in proofs : requestEmailChange(e, sv)
         \/ DeliverEmailChange \/ confirmEmailChange \/ ExpireEmailChange
  PROVE  LinksIInv'
<1>1. LinksShape
  BY DEF LinksIInv
<1> DEFINE Changes == [pc : {"sending", "delivered"}, email : Addresses, sessionVersion : Nat]
<1>2. UNCHANGED <<reset, resetTokens, activeReset>>
  BY DEF issueEmailVerificationToken, consumeEmailVerificationToken, ConfirmAddress, ReadPassword,
         ChangePassword, createStepUpToken, requestEmailChange, DeliverEmailChange,
         confirmEmailChange, ExpireEmailChange
<1>3. account \in AccountRows /\ (emailChange = NoChange \/ emailChange \in Changes)
  BY <1>1 DEF LinksShape, AccountRows
<1>4. emailChange' = NoChange \/ emailChange' \in Changes
  <2>1. CASE \E e \in Addresses, sv \in proofs : requestEmailChange(e, sv)
    BY <1>3, <2>1 DEF requestEmailChange, AccountRows
  <2>2. CASE DeliverEmailChange
    <3>1. emailChange \in Changes
      BY <1>3, <2>2 DEF DeliverEmailChange, NoChange
    <3> QED
      BY <2>2, <3>1 DEF DeliverEmailChange
  <2>3. CASE emailChange' = emailChange \/ emailChange' = NoChange
    BY <1>3, <2>3
  <2> QED
    BY <2>1, <2>2, <2>3
       DEF issueEmailVerificationToken, consumeEmailVerificationToken, ConfirmAddress,
           ReadPassword, ChangePassword, createStepUpToken, confirmEmailChange, ExpireEmailChange
<1>5. /\ account' \in AccountRows
      /\ account'.passwordGeneration >= account.passwordGeneration
      /\ account'.emailGeneration >= account.emailGeneration
  <2>1. CASE \E t \in redeeming : ConfirmAddress(t)
    <3>1. PICK v \in BOOLEAN : account' = [account EXCEPT !.verified = v]
      BY <1>3, <2>1 DEF ConfirmAddress
    <3> QED
      BY <1>3, <3>1 DEF AccountRows
  <2>2. CASE ChangePassword
    <3>1. account' = account \/ account' = [account EXCEPT !.passwordGeneration = @ + 1,
                                                            !.sessionVersion = @ + 1]
      BY <2>2 DEF ChangePassword
    <3> QED
      BY <1>3, <3>1, PasswordChanges DEF AccountRows
  <2>3. CASE confirmEmailChange
    <3>1. emailChange \in Changes
      BY <1>3, <2>3 DEF confirmEmailChange, NoChange
    <3>2. QED
      <4>1. emailChange.email \in Addresses
        BY <3>1
      <4>2. account' = [account EXCEPT !.email = emailChange.email, !.verified = TRUE,
                                       !.emailGeneration = @ + 1, !.sessionVersion = @ + 1]
        BY <2>3 DEF confirmEmailChange
      <4>3. /\ account' \in AccountRows
            /\ account'.passwordGeneration = account.passwordGeneration
            /\ account'.emailGeneration = account.emailGeneration + 1
        BY <1>3, <4>1, <4>2, AddressChanges
      <4> QED
        BY <1>3, <4>3 DEF AccountRows
  <2>4. CASE account' = account
    BY <1>3, <2>4 DEF AccountRows
  <2> QED
    BY <2>1, <2>2, <2>3, <2>4
       DEF issueEmailVerificationToken, consumeEmailVerificationToken, ReadPassword,
           createStepUpToken, requestEmailChange, DeliverEmailChange, ExpireEmailChange
<1>6. LinksShape'
  BY <1>1, <1>2, <1>4, <1>5 DEF LinksShape, AccountRows
<1> QED
  BY <1>2, <1>5, <1>6, AccountMoves

----------------------------------------------------------------------------
LEMMA LinksInitInv == LinksInit => LinksIInv
  BY LinksAssumption DEF LinksInit, LinksIInv, LinksShape, AccountRows, GenerationsRank, NewestIsActive, Begun

LEMMA LinksNextInv == LinksIInv /\ [LinksNext]_linkVars => LinksIInv'
<1> SUFFICES ASSUME LinksIInv, [LinksNext]_linkVars
             PROVE  LinksIInv'
  OBVIOUS
<1>1. CASE LinksNext
  BY <1>1, OtherLinksInv, BeginResetInv, ResetInv DEF LinksNext
<1>2. CASE UNCHANGED linkVars
  BY <1>2 DEF linkVars, LinksIInv, LinksShape, AccountRows, GenerationsRank, NewestIsActive, Begun, SameIdentity
<1> QED
  BY <1>1, <1>2

\* The newest reset link that was mailed can be redeemed as long as password
\* and address have not changed since, however many requests overlap and
\* however late an older one reaches Redis (verification.service.ts).
THEOREM NewestLinkRedeems == LinksSpec => []NewestLinkWorks
<1>1. LinksIInv => NewestLinkWorks
  BY DEF LinksIInv, NewestIsActive, NewestLinkWorks
<1> QED
  BY <1>1, LinksInitInv, LinksNextInv, PTL DEF LinksSpec

----------------------------------------------------------------------------
(* Rate limits: the inductive invariant *)

CallStates == {"unsent", "limiting", "limited", "failed", "served"}

Hits == [bucket : Buckets, window : Nat \ {0}]

Named == Subjects \cup {Nobody}

CallRecords ==
  [state : CallStates, ip : Ips \cup {Nobody}, cookie : WebSessions \cup {Nobody, Forged},
   user : [email : Named, phone : Named], body : [BodyFields -> Named],
   route : RouteClasses \cup {"read"}, at : Nat \ {0}, counted : SUBSET Hits]

\* What a request carries once it is sent.
Carries(q) ==
  /\ q.ip \in Ips /\ q.route \in RouteClasses
  /\ q.route \in AuthenticatedRoutes => q.cookie \in WebSessions
  /\ q.route \notin AuthenticatedRoutes => q.user = NoProfile

CallShape ==
  /\ webRequests \in [WebCalls -> CallRecords]
  /\ \A c \in WebCalls : webRequests[c].state # "unsent" => Carries(webRequests[c])
  /\ \A c \in WebCalls : webRequests[c].state = "unsent" => webRequests[c].counted = {}
  /\ DOMAIN windows \subseteq Buckets
  /\ \A b \in DOMAIN windows : windows[b] \in [window : Nat \ {0}, count : Nat]

CountedIn(k) == {c \in WebCalls : k \in webRequests[c].counted}

\* A window that is over or under way let no more requests through than its
\* count and its limit; one that has not begun, none.
WindowsBound ==
  \A k \in Hits :
    /\ Cardinality(CountedIn(k)) <= LimitOf(k.bucket)
    /\ k.window = WindowOf(k.bucket).window =>
         Cardinality(CountedIn(k)) <= WindowOf(k.bucket).count
    /\ k.window > WindowOf(k.bucket).window => CountedIn(k) = {}

\* A request was counted by every limiter it has passed.
PassedAreCounted ==
  \A c \in WebCalls :
    LET q == webRequests[c]
    IN  /\ q.state \in {"limiting", "served"} =>
             \A i \in 1 .. Len(Limiters(q)) :
               i < q.at => \E k \in q.counted : k.bucket = Limiters(q)[i]
        /\ q.state = "served" => q.at > Len(Limiters(q))

RateLimitIInv == CallShape /\ WindowsBound /\ PassedAreCounted

----------------------------------------------------------------------------
(* The chain of limiters of a request *)

RequestKeys == [by : KeyKinds, of : KeyValues \cup {Nobody}]

Has(s, b) == \E i \in 1 .. Len(s) : s[i] = b

\* The chain counts the request by what the property asks for.
CountsBy(q, by, of) ==
  \E p \in PrefixesOf(q.route) : Has(Limiters(q), [prefix |-> p, key |-> KeyOf(by, of)])

LEMMA ConcatHas ==
  ASSUME NEW s \in Seq(Buckets), NEW t \in Seq(Buckets)
  PROVE  /\ s \o t \in Seq(Buckets)
         /\ \A b : Has(s, b) \/ Has(t, b) => Has(s \o t, b)
<1>1. /\ s \o t \in Seq(Buckets) /\ Len(s \o t) = Len(s) + Len(t)
      /\ Len(s) \in Nat /\ Len(t) \in Nat
      /\ \A i \in 1 .. Len(s) : (s \o t)[i] = s[i]
      /\ \A i \in 1 .. Len(t) : (s \o t)[Len(s) + i] = t[i]
  OBVIOUS
<1>2. ASSUME NEW b, NEW i \in 1 .. Len(s), s[i] = b
      PROVE  Has(s \o t, b)
  <2>1. i \in 1 .. Len(s \o t) /\ (s \o t)[i] = b
    BY <1>1, <1>2
  <2> QED
    BY <2>1 DEF Has
<1>3. ASSUME NEW b, NEW i \in 1 .. Len(t), t[i] = b
      PROVE  Has(s \o t, b)
  <2>1. Len(s) + i \in 1 .. Len(s \o t) /\ (s \o t)[Len(s) + i] = b
    BY <1>1, <1>3
  <2> QED
    BY <2>1 DEF Has
<1> QED
  BY <1>1, <1>2, <1>3 DEF Has

LEMMA OneBucket ==
  ASSUME NEW b \in Buckets
  PROVE  <<b>> \in Seq(Buckets) /\ Has(<<b>>, b)
<1>1. <<b>> \in Seq(Buckets) /\ Len(<<b>>) = 1 /\ <<b>>[1] = b
  OBVIOUS
<1> QED
  BY <1>1 DEF Has

LEMMA AddressLimiter ==
  ASSUME NEW q, q.ip \in Ips, NEW p \in BucketPrefixes
  PROVE  /\ ipLimiter(q, p) \in Seq(Buckets)
         /\ Has(ipLimiter(q, p), [prefix |-> p, key |-> KeyOf("ip", q.ip)])
<1> DEFINE b == [prefix |-> p, key |-> KeyOf("ip", q.ip)]
<1>1. b \in Buckets
  BY DEF Buckets, KeyOf, KeyKinds, KeyValues
<1>2. ipLimiter(q, p) = <<b>>
  BY DEF ipLimiter
<1> HIDE DEF b
<1>3. ipLimiter(q, p) \in Seq(Buckets) /\ Has(ipLimiter(q, p), b)
  BY <1>1, <1>2, OneBucket
<1> QED
  BY <1>3 DEF b

LEMMA KeyedLimiter ==
  ASSUME NEW k \in RequestKeys, NEW p \in BucketPrefixes
  PROVE  /\ subjectLimiter(p, k) \in Seq(Buckets)
         /\ k.of # Nobody => Has(subjectLimiter(p, k), [prefix |-> p, key |-> k])
<1>1. CASE k.of = Nobody
  BY <1>1 DEF subjectLimiter
<1>2. CASE k.of # Nobody
  <2> DEFINE b == [prefix |-> p, key |-> k]
  <2>1. k \in [by : KeyKinds, of : KeyValues]
    BY <1>2 DEF RequestKeys
  <2>2. b \in Buckets
    BY <2>1 DEF Buckets
  <2>3. subjectLimiter(p, k) = <<b>>
    BY <1>2 DEF subjectLimiter
  <2> HIDE DEF b
  <2>4. subjectLimiter(p, k) \in Seq(Buckets) /\ Has(subjectLimiter(p, k), b)
    BY <2>2, <2>3, OneBucket
  <2> QED
    BY <2>4 DEF b
<1> QED
  BY <1>1, <1>2

LEMMA EitherKey ==
  ASSUME NEW k \in RequestKeys, NEW l \in RequestKeys
  PROVE  /\ k ?? l \in RequestKeys
         /\ k.of # Nobody => k ?? l = k
         /\ k.of = Nobody => k ?? l = l
  BY DEF ??

LEMMA NamedKey ==
  ASSUME NEW by \in KeyKinds, NEW of \in Named
  PROVE  KeyOf(by, of) \in RequestKeys /\ KeyOf(by, of).of = of
  BY DEF KeyOf, RequestKeys, KeyValues, Named

\* A key is that of the first thing the code looks for and the request names.
LEMMA IdentityKeys ==
  ASSUME NEW q \in CallRecords
  PROVE  /\ {userIdentity(q), credentialIdentity(q), emailVerificationIdentity(q),
             emailChangeIdentity(q), passwordResetIdentity(q), wsTicketIdentity(q),
             phoneIdentity(q)} \subseteq RequestKeys
         /\ q.cookie \in WebSessions =>
              /\ userIdentity(q) = KeyOf("user", SessionOwner[q.cookie])
              /\ SessionOwner[q.cookie] # Nobody
              /\ emailChangeIdentity(q) = userIdentity(q)
              /\ wsTicketIdentity(q) = KeyOf("session", q.cookie)
         /\ q.body.email # Nobody =>
              /\ credentialIdentity(q) = KeyOf("email", q.body.email)
              /\ passwordResetIdentity(q) = KeyOf("email", q.body.email)
         /\ q.user.email # Nobody =>
              /\ q.body.email = Nobody => credentialIdentity(q) = KeyOf("email", q.user.email)
              /\ emailVerificationIdentity(q) = KeyOf("email", q.user.email)
<1> DEFINE mail == KeyOf("email", q.body.email)
           own == KeyOf("email", q.user.email)
           token == KeyOf("token", q.body.token)
           second == KeyOf("two-factor", q.body.twoFactorToken)
           widget == KeyOf("telegram", q.body.id)
           given == KeyOf("phone", q.body.phone)
           kept == KeyOf("phone", q.user.phone)
           user == userIdentity(q)
           session == KeyOf("session", requestSessionId(q))
<1>1. /\ q.cookie \in WebSessions \cup {Nobody, Forged}
      /\ q.user.email \in Named /\ q.user.phone \in Named
      /\ q.body.email \in Named /\ q.body.token \in Named /\ q.body.twoFactorToken \in Named
      /\ q.body.id \in Named /\ q.body.phone \in Named
  BY DEF CallRecords, BodyFields
<1>2. /\ mail \in RequestKeys /\ mail.of = q.body.email /\ own \in RequestKeys
      /\ own.of = q.user.email /\ token \in RequestKeys /\ second \in RequestKeys
      /\ widget \in RequestKeys /\ given \in RequestKeys /\ kept \in RequestKeys
  BY <1>1, NamedKey DEF KeyKinds
<1>3. /\ user \in RequestKeys /\ user.of = requestUserId(q)
      /\ session \in RequestKeys /\ session.of = requestSessionId(q)
  <2>1. requestUserId(q) \in KeyValues \cup {Nobody}
    BY DEF requestUserId, KeyValues
  <2>2. requestSessionId(q) \in KeyValues \cup {Nobody}
    BY DEF requestSessionId, KeyValues
  <2> QED
    BY <2>1, <2>2 DEF userIdentity, KeyOf, RequestKeys, KeyKinds
<1>4. q.cookie \in WebSessions =>
        /\ requestUserId(q) = SessionOwner[q.cookie] /\ SessionOwner[q.cookie] # Nobody
        /\ requestSessionId(q) = q.cookie /\ q.cookie # Nobody
  BY RateLimitAssumption DEF requestUserId, requestSessionId
<1>5. /\ credentialIdentity(q) = mail ?? own ?? second ?? widget
      /\ emailVerificationIdentity(q) = own ?? token
      /\ emailChangeIdentity(q) = user ?? mail ?? token
      /\ passwordResetIdentity(q) = mail ?? token
      /\ wsTicketIdentity(q) = session ?? user
      /\ phoneIdentity(q) = given ?? kept
  BY DEF credentialIdentity, emailVerificationIdentity, emailChangeIdentity,
         passwordResetIdentity, wsTicketIdentity, phoneIdentity
<1>6. user = KeyOf("user", requestUserId(q))
  BY DEF userIdentity
<1> HIDE DEF mail, own, token, second, widget, given, kept, user, session
<1>7. /\ mail ?? own \in RequestKeys /\ mail ?? own ?? second \in RequestKeys
      /\ mail ?? own ?? second ?? widget \in RequestKeys
      /\ own ?? token \in RequestKeys /\ user ?? mail \in RequestKeys
      /\ user ?? mail ?? token \in RequestKeys /\ mail ?? token \in RequestKeys
      /\ session ?? user \in RequestKeys /\ given ?? kept \in RequestKeys
  BY <1>2, <1>3, EitherKey
<1>8. q.body.email # Nobody => /\ mail ?? own ?? second ?? widget = mail
                              /\ mail ?? token = mail
  BY <1>2, <1>7, EitherKey
<1>9. q.user.email # Nobody => /\ mail.of = Nobody => mail ?? own ?? second ?? widget = own
                              /\ own ?? token = own
  <2> SUFFICES ASSUME own.of # Nobody
               PROVE  /\ mail.of = Nobody => mail ?? own ?? second ?? widget = own
                      /\ own ?? token = own
    BY <1>2
  <2>1. mail.of = Nobody => mail ?? own = own
    BY <1>2, EitherKey
  <2>2. own ?? second = own /\ own ?? widget = own /\ own ?? token = own
    BY <1>2, EitherKey
  <2> QED
    BY <2>1, <2>2
<1>10. q.cookie \in WebSessions => user ?? mail ?? token = user /\ session ?? user = session
  BY <1>2, <1>3, <1>4, <1>7, EitherKey
<1> QED
  BY <1>2, <1>3, <1>4, <1>5, <1>6, <1>7, <1>8, <1>9, <1>10
     DEF mail, own, token, second, widget, given, kept, user, session

\* The limiters of a route that has its own: by whom or what it names.
LEMMA IdentityChain ==
  ASSUME NEW q \in CallRecords, Carries(q), q.route \in DOMAIN DedicatedPrefix,
         NEW p, p = DedicatedPrefix[q.route]
  PROVE  /\ identityLimiters(q) \in Seq(Buckets)
         /\ q.cookie \in WebSessions /\ q.route \in {"upload", "changeEmail", "phone"} =>
              Has(identityLimiters(q),
                  [prefix |-> p, key |-> KeyOf("user", SessionOwner[q.cookie])])
         /\ q.route = "ticket" =>
              Has(identityLimiters(q), [prefix |-> p, key |-> KeyOf("session", q.cookie)])
         /\ q.route \in {"login", "security", "reset", "resend"} /\ EmailNamed(q) # Nobody =>
              Has(identityLimiters(q), [prefix |-> p, key |-> KeyOf("email", EmailNamed(q))])
<1>1. p \in BucketPrefixes
  BY DEF BucketPrefixes
<1> DEFINE Chain(k) == subjectLimiter(p, k)
<1>2. \A k \in RequestKeys :
        /\ Chain(k) \in Seq(Buckets)
        /\ k.of # Nobody => Has(Chain(k), [prefix |-> p, key |-> k])
  BY <1>1, KeyedLimiter
<1>3. q.route \in {"login", "security", "resend", "verify", "changeEmail", "confirmEmail",
                   "reset", "upload", "ticket", "phone", "webhook"}
  BY DEF DedicatedPrefix
<1>4. /\ q.route \in {"login", "security"} => identityLimiters(q) = Chain(credentialIdentity(q))
      /\ q.route \in {"resend", "verify"} =>
           identityLimiters(q) = Chain(emailVerificationIdentity(q))
      /\ q.route \in {"changeEmail", "confirmEmail"} =>
           identityLimiters(q) = Chain(emailChangeIdentity(q))
      /\ q.route = "reset" => identityLimiters(q) = Chain(passwordResetIdentity(q))
      /\ q.route = "upload" => identityLimiters(q) = Chain(userIdentity(q))
      /\ q.route = "ticket" => identityLimiters(q) = Chain(wsTicketIdentity(q))
      /\ q.route = "phone" =>
           identityLimiters(q) = Chain(userIdentity(q)) \o Chain(phoneIdentity(q))
      /\ q.route = "webhook" => identityLimiters(q) = <<>>
  BY DEF identityLimiters
<1> HIDE DEF Chain
<1>5. /\ Chain(userIdentity(q)) \in Seq(Buckets) /\ Chain(phoneIdentity(q)) \in Seq(Buckets)
      /\ Chain(userIdentity(q)) \o Chain(phoneIdentity(q)) \in Seq(Buckets)
      /\ \A b : Has(Chain(userIdentity(q)), b)
                 => Has(Chain(userIdentity(q)) \o Chain(phoneIdentity(q)), b)
  <2>1. /\ Chain(userIdentity(q)) \in Seq(Buckets) /\ Chain(phoneIdentity(q)) \in Seq(Buckets)
    BY <1>2, IdentityKeys
  <2> QED
    BY <2>1, ConcatHas
<1>6. identityLimiters(q) \in Seq(Buckets)
  <2>1. <<>> \in Seq(Buckets)
    OBVIOUS
  <2> QED
    BY <1>2, <1>3, <1>4, <1>5, <2>1, IdentityKeys
<1>7. ASSUME q.cookie \in WebSessions
      PROVE  Has(Chain(userIdentity(q)),
                 [prefix |-> p, key |-> KeyOf("user", SessionOwner[q.cookie])])
  <2>1. /\ userIdentity(q) \in RequestKeys
        /\ userIdentity(q) = KeyOf("user", SessionOwner[q.cookie]) /\ userIdentity(q).of # Nobody
    BY <1>7, IdentityKeys DEF KeyOf
  <2> QED
    BY <1>2, <2>1
<1>8. ASSUME q.cookie \in WebSessions, q.route \in {"upload", "changeEmail", "phone"}
      PROVE  Has(identityLimiters(q),
                 [prefix |-> p, key |-> KeyOf("user", SessionOwner[q.cookie])])
  <2>1. emailChangeIdentity(q) = userIdentity(q)
    BY <1>8, IdentityKeys
  <2> QED
    BY <1>4, <1>5, <1>7, <1>8, <2>1
<1>9. ASSUME q.route = "ticket"
      PROVE  Has(identityLimiters(q), [prefix |-> p, key |-> KeyOf("session", q.cookie)])
  <2>1. q.cookie \in WebSessions /\ q.cookie # Nobody
    BY <1>9, RateLimitAssumption DEF Carries, AuthenticatedRoutes
  <2>2. /\ wsTicketIdentity(q) \in RequestKeys
        /\ wsTicketIdentity(q) = KeyOf("session", q.cookie) /\ wsTicketIdentity(q).of # Nobody
    BY <2>1, IdentityKeys DEF KeyOf
  <2> QED
    BY <1>2, <1>4, <1>9, <2>2
<1>10. ASSUME q.route \in {"login", "security", "reset", "resend"}, EmailNamed(q) # Nobody
       PROVE  Has(identityLimiters(q), [prefix |-> p, key |-> KeyOf("email", EmailNamed(q))])
  <2> DEFINE mail == KeyOf("email", EmailNamed(q))
  <2>1. mail.of # Nobody
    BY <1>10 DEF KeyOf
  <2>2. PICK k \in RequestKeys : identityLimiters(q) = Chain(k) /\ k = mail
    <3>1. CASE q.route = "resend"
      <4>1. EmailNamed(q) = q.user.email
        BY <3>1 DEF EmailNamed
      <4> QED
        BY <1>4, <1>10, <3>1, <4>1, IdentityKeys
    <3>2. CASE q.route \in {"login", "security"} /\ q.body.email # Nobody
      <4>1. EmailNamed(q) = q.body.email
        BY <3>2 DEF EmailNamed
      <4> QED
        BY <1>4, <3>2, <4>1, IdentityKeys
    <3>3. CASE q.route \in {"login", "security"} /\ q.body.email = Nobody
      <4>1. EmailNamed(q) = q.user.email
        BY <3>3 DEF EmailNamed
      <4> QED
        BY <1>4, <1>10, <3>3, <4>1, IdentityKeys
    <3>4. CASE q.route = "reset" /\ q.body.email # Nobody
      <4>1. EmailNamed(q) = q.body.email
        BY <3>4 DEF EmailNamed
      <4> QED
        BY <1>4, <3>4, <4>1, IdentityKeys
    <3>5. CASE q.route = "reset" /\ q.body.email = Nobody
      BY <1>10, <3>5 DEF EmailNamed, Carries, AuthenticatedRoutes, NoProfile
    <3> QED
      BY <1>10, <3>1, <3>2, <3>3, <3>4, <3>5
  <2> HIDE DEF mail
  <2>3. Has(identityLimiters(q), [prefix |-> p, key |-> mail])
    BY <1>2, <2>1, <2>2
  <2> QED
    BY <2>3 DEF mail
<1> QED
  BY <1>6, <1>8, <1>9, <1>10

\* Whatever the route, the cookie and the body, the chain counts the request
\* by all that the property asks for: general limits and dedicated ones leave
\* no route out but the other queries.
LEMMA LimitersCount ==
  ASSUME NEW q \in CallRecords, Carries(q)
  PROVE  /\ Limiters(q) \in Seq(Buckets)
         /\ q.route # "query" => CountsBy(q, "ip", q.ip)
         /\ q.cookie \in WebSessions /\ q.route \in {"write", "upload", "changeEmail", "phone"}
              => CountsBy(q, "user", SessionOwner[q.cookie])
         /\ q.route = "ticket" => CountsBy(q, "session", q.cookie)
         /\ q.route \in {"login", "security", "reset", "resend"} /\ EmailNamed(q) # Nobody
              => CountsBy(q, "email", EmailNamed(q))
<1> DEFINE A == anonymousWriteRateLimit(q)
           B == authenticatedWriteRateLimit(q)
           C == RouteLimiters(q)
<1>1. Limiters(q) = A \o B \o C
  BY DEF Limiters
<1>2. q.ip \in Ips /\ {"anonymous-write", "authenticated-write", "public-read"} \subseteq BucketPrefixes
  BY DEF Carries, BucketPrefixes
<1>3. <<>> \in Seq(Buckets)
  OBVIOUS
<1>4. CASE q.route \in DOMAIN DedicatedPrefix
  <2> DEFINE p == DedicatedPrefix[q.route]
             U == identityLimiters(q)
             I == ipLimiter(q, p)
  <2>1. p \in BucketPrefixes /\ PrefixesOf(q.route) = {p}
    BY <1>4 DEF BucketPrefixes, PrefixesOf, DedicatedPrefix
  <2>2. A = <<>> /\ B = <<>> /\ C = U \o I
    BY <1>4 DEF hasDedicatedWriteLimiter, anonymousWriteRateLimit, authenticatedWriteRateLimit,
                RouteLimiters
  <2>3. U \in Seq(Buckets) /\ I \in Seq(Buckets)
    BY <1>2, <1>4, <2>1, IdentityChain, AddressLimiter
  <2>4. U \o I \in Seq(Buckets) /\ \A b : Has(U, b) \/ Has(I, b) => Has(U \o I, b)
    BY <2>3, ConcatHas
  <2>5. Limiters(q) = U \o I
    <3> HIDE DEF A, B, C, U, I
    <3> QED
      BY <1>1, <2>2, <2>4
  <2>6. \A by, of : \/ Has(U, [prefix |-> p, key |-> KeyOf(by, of)])
                   \/ Has(I, [prefix |-> p, key |-> KeyOf(by, of)])
                   => CountsBy(q, by, of)
    BY <2>1, <2>4, <2>5 DEF CountsBy
  <2>7. q.route # "write"
    BY <1>4 DEF DedicatedPrefix
  <2>8. Has(I, [prefix |-> p, key |-> KeyOf("ip", q.ip)])
    BY <1>2, <2>1, AddressLimiter
  <2>9. /\ q.cookie \in WebSessions /\ q.route \in {"upload", "changeEmail", "phone"} =>
             Has(U, [prefix |-> p, key |-> KeyOf("user", SessionOwner[q.cookie])])
        /\ q.route = "ticket" => Has(U, [prefix |-> p, key |-> KeyOf("session", q.cookie)])
        /\ q.route \in {"login", "security", "reset", "resend"} /\ EmailNamed(q) # Nobody =>
             Has(U, [prefix |-> p, key |-> KeyOf("email", EmailNamed(q))])
    BY <1>4, IdentityChain
  <2> HIDE DEF p, U, I
  <2> QED
    BY <2>4, <2>5, <2>6, <2>7, <2>8, <2>9
<1>5. CASE q.route \in {"read", "query"}
  <2>1. A = <<>> /\ B = <<>> /\ C = publicReadRateLimit(q)
    BY <1>5 DEF Mutating, hasDedicatedWriteLimiter, DedicatedPrefix, anonymousWriteRateLimit,
                authenticatedWriteRateLimit, RouteLimiters
  <2>2. CASE q.route = "query"
    <3>1. C = <<>>
      BY <2>1, <2>2 DEF publicReadRateLimit
    <3> HIDE DEF A, B, C
    <3>2. Limiters(q) = <<>>
      BY <1>1, <2>1, <3>1
    <3> QED
      BY <1>3, <2>2, <3>2
  <2>3. CASE q.route = "read"
    <3> DEFINE I == ipLimiter(q, "public-read")
    <3>1. C = I
      BY <2>1, <2>3 DEF publicReadRateLimit
    <3>2. I \in Seq(Buckets) /\ Has(I, [prefix |-> "public-read", key |-> KeyOf("ip", q.ip)])
      BY <1>2, AddressLimiter
    <3> HIDE DEF A, B, C, I
    <3>3. Limiters(q) = I
      BY <1>1, <2>1, <3>1, <3>2
    <3>4. "public-read" \in PrefixesOf(q.route)
      BY <2>3 DEF PrefixesOf, DedicatedPrefix
    <3> QED
      BY <2>3, <3>2, <3>3, <3>4 DEF CountsBy
  <2> QED
    BY <1>5, <2>2, <2>3
<1>6. CASE q.route = "write" /\ requestUserId(q) = Nobody
  <2> DEFINE I == ipLimiter(q, "anonymous-write")
  <2>1. A = I /\ B = <<>> /\ C = <<>>
    BY <1>6 DEF Mutating, hasDedicatedWriteLimiter, DedicatedPrefix, anonymousWriteRateLimit,
                authenticatedWriteRateLimit, RouteLimiters, publicReadRateLimit
  <2>2. I \in Seq(Buckets) /\ Has(I, [prefix |-> "anonymous-write", key |-> KeyOf("ip", q.ip)])
    BY <1>2, AddressLimiter
  <2> HIDE DEF A, B, C, I
  <2>3. Limiters(q) = I
    BY <1>1, <2>1, <2>2
  <2>4. "anonymous-write" \in PrefixesOf(q.route)
    BY <1>6 DEF PrefixesOf, DedicatedPrefix
  <2>5. q.cookie \notin WebSessions
    BY <1>6, RateLimitAssumption DEF requestUserId
  <2> QED
    BY <1>6, <2>2, <2>3, <2>4, <2>5 DEF CountsBy
<1>7. CASE q.route = "write" /\ requestUserId(q) # Nobody
  <2> DEFINE p == "authenticated-write"
             U == subjectLimiter(p, userIdentity(q))
             I == ipLimiter(q, p)
  <2>1. A = <<>> /\ B = U \o I /\ C = <<>>
    BY <1>7 DEF Mutating, hasDedicatedWriteLimiter, DedicatedPrefix, anonymousWriteRateLimit,
                authenticatedWriteRateLimit, RouteLimiters, publicReadRateLimit
  <2>2. userIdentity(q) \in RequestKeys
        /\ (q.cookie \in WebSessions => /\ userIdentity(q) = KeyOf("user", SessionOwner[q.cookie])
                                        /\ userIdentity(q).of # Nobody)
    BY IdentityKeys DEF KeyOf
  <2>3. U \in Seq(Buckets)
        /\ (q.cookie \in WebSessions =>
              Has(U, [prefix |-> p, key |-> KeyOf("user", SessionOwner[q.cookie])]))
    BY <1>2, <2>2, KeyedLimiter
  <2>4. I \in Seq(Buckets) /\ Has(I, [prefix |-> p, key |-> KeyOf("ip", q.ip)])
    BY <1>2, AddressLimiter
  <2>5. p \in PrefixesOf(q.route)
    BY <1>7 DEF PrefixesOf, DedicatedPrefix
  <2> HIDE DEF A, B, C, U, I, p
  <2>6. U \o I \in Seq(Buckets) /\ \A b : Has(U, b) \/ Has(I, b) => Has(U \o I, b)
    BY <2>3, <2>4, ConcatHas
  <2>7. Limiters(q) = U \o I
    BY <1>1, <2>1, <2>6
  <2> QED
    BY <1>7, <2>3, <2>4, <2>5, <2>6, <2>7 DEF CountsBy
<1> QED
  BY <1>4, <1>5, <1>6, <1>7, RateLimitAssumption DEF Carries

\* The chain follows from what the request carries, not from its progress.
LEMMA LimitersSame ==
  ASSUME NEW q, NEW r, q.ip = r.ip, q.cookie = r.cookie, q.user = r.user, q.body = r.body,
         q.route = r.route
  PROVE  Limiters(q) = Limiters(r)
<1>1. requestUserId(q) = requestUserId(r) /\ requestSessionId(q) = requestSessionId(r)
  BY DEF requestUserId, requestSessionId
<1>2. /\ userIdentity(q) = userIdentity(r) /\ credentialIdentity(q) = credentialIdentity(r)
      /\ emailVerificationIdentity(q) = emailVerificationIdentity(r)
      /\ passwordResetIdentity(q) = passwordResetIdentity(r)
      /\ phoneIdentity(q) = phoneIdentity(r)
  BY <1>1 DEF userIdentity, credentialIdentity, emailVerificationIdentity, passwordResetIdentity,
              phoneIdentity
<1>3. /\ emailChangeIdentity(q) = emailChangeIdentity(r)
      /\ wsTicketIdentity(q) = wsTicketIdentity(r)
  BY <1>1, <1>2 DEF emailChangeIdentity, wsTicketIdentity
<1>4. /\ \A p : ipLimiter(q, p) = ipLimiter(r, p)
      /\ identityLimiters(q) = identityLimiters(r)
  BY <1>2, <1>3 DEF identityLimiters, ipLimiter
<1>5. Mutating(q) = Mutating(r) /\ hasDedicatedWriteLimiter(q) = hasDedicatedWriteLimiter(r)
  BY DEF Mutating, hasDedicatedWriteLimiter
<1>6. /\ anonymousWriteRateLimit(q) = anonymousWriteRateLimit(r)
      /\ authenticatedWriteRateLimit(q) = authenticatedWriteRateLimit(r)
      /\ publicReadRateLimit(q) = publicReadRateLimit(r)
  BY <1>1, <1>2, <1>4, <1>5
     DEF anonymousWriteRateLimit, authenticatedWriteRateLimit, publicReadRateLimit
<1>7. RouteLimiters(q) = RouteLimiters(r)
  BY <1>4, <1>5, <1>6 DEF RouteLimiters
<1> QED
  BY <1>6, <1>7 DEF Limiters

----------------------------------------------------------------------------
(* One lemma per kind of step *)

\* The chain of a request depends on no variable but the request.
LEMMA PassedNext ==
  ASSUME \A d \in WebCalls :
           /\ webRequests'[d].state \in {"limiting", "served"} =>
                \A i \in 1 .. Len(Limiters(webRequests'[d])) :
                  i < webRequests'[d].at =>
                    \E k \in webRequests'[d].counted : k.bucket = Limiters(webRequests'[d])[i]
           /\ webRequests'[d].state = "served" =>
                webRequests'[d].at > Len(Limiters(webRequests'[d]))
  PROVE  PassedAreCounted'
  BY DEF PassedAreCounted, Limiters, anonymousWriteRateLimit, authenticatedWriteRateLimit,
         RouteLimiters, identityLimiters, publicReadRateLimit, ipLimiter, subjectLimiter,
         userIdentity, credentialIdentity, emailVerificationIdentity, emailChangeIdentity,
         passwordResetIdentity, wsTicketIdentity, phoneIdentity, requestUserId, requestSessionId,
         KeyOf, ??, Mutating, hasDedicatedWriteLimiter, DedicatedPrefix

\* What every state of the windows says of a bucket.
LEMMA WindowShape ==
  ASSUME CallShape, NEW b
  PROVE  WindowOf(b) \in [window : Nat \ {0}, count : Nat]
<1>1. NewWindow \in [window : Nat \ {0}, count : Nat]
  BY DEF NewWindow
<1> QED
  BY <1>1 DEF WindowOf, CallShape

LEMMA CountedFinite ==
  ASSUME NEW k
  PROVE  /\ IsFiniteSet(CountedIn(k)) /\ Cardinality(CountedIn(k)) \in Nat
         /\ CountedIn(k) \subseteq WebCalls
<1>1. IsFiniteSet(WebCalls)
  BY FS_Interval, RateLimitAssumption DEF WebCalls
<1>2. CountedIn(k) \subseteq WebCalls
  BY DEF CountedIn
<1>3. IsFiniteSet(CountedIn(k))
  BY <1>1, <1>2, FS_Subset
<1> QED
  BY <1>2, <1>3, FS_CardinalityType

\* A request moves on and is counted nowhere.
LEMMA CallMoves ==
  ASSUME RateLimitIInv, NEW c \in WebCalls, NEW q \in CallRecords,
         webRequests' = [webRequests EXCEPT ![c] = q], UNCHANGED windows,
         q.counted = webRequests[c].counted,
         q.state # "unsent", Carries(q),
         q.state \in {"limiting", "served"} =>
            \A i \in 1 .. Len(Limiters(q)) :
               i < q.at => \E k \in q.counted : k.bucket = Limiters(q)[i],
         q.state = "served" => q.at > Len(Limiters(q))
  PROVE  RateLimitIInv'
<1>1. CallShape /\ WindowsBound /\ PassedAreCounted
  BY DEF RateLimitIInv
<1>2. webRequests'[c] = q /\ \A d \in WebCalls \ {c} : webRequests'[d] = webRequests[d]
  BY <1>1 DEF CallShape
<1>3. CallShape'
  <2>1. webRequests' \in [WebCalls -> CallRecords]
    BY <1>1 DEF CallShape
  <2> QED
    BY <1>1, <1>2, <2>1 DEF CallShape, Carries
<1>4. \A k : CountedIn(k)' = CountedIn(k)
  BY <1>2 DEF CountedIn
<1>5. \A b : WindowOf(b)' = WindowOf(b)
  BY DEF WindowOf
<1>6. WindowsBound'
  BY <1>1, <1>4, <1>5 DEF WindowsBound, LimitOf
<1>7. PassedAreCounted'
  <2> SUFFICES ASSUME NEW d \in WebCalls
               PROVE  /\ webRequests'[d].state \in {"limiting", "served"} =>
                           \A i \in 1 .. Len(Limiters(webRequests'[d])) :
                             i < webRequests'[d].at =>
                               \E k \in webRequests'[d].counted :
                                 k.bucket = Limiters(webRequests'[d])[i]
                      /\ webRequests'[d].state = "served" =>
                           webRequests'[d].at > Len(Limiters(webRequests'[d]))
    BY PassedNext
  <2>1. CASE d = c
    BY <1>2, <2>1
  <2>2. CASE d # c
    BY <1>1, <1>2, <2>2 DEF PassedAreCounted
  <2> QED
    BY <2>1, <2>2
<1> QED
  BY <1>3, <1>6, <1>7 DEF RateLimitIInv

LEMMA SentRecord ==
  ASSUME NEW i \in Ips, NEW t \in RouteClasses,
         NEW o \in WebSessions \union {Nobody, Forged},
         NEW m \in Bodies \union {NoBody}, NEW u \in ProfilesSeen(t, o),
         NEW q, q = [state |-> "limiting", ip |-> i, cookie |-> o, user |-> u, body |-> m,
                     route |-> t, at |-> 1, counted |-> {}]
  PROVE  q \in CallRecords /\ Carries(q)
<1>1. "limiting" \in CallStates /\ i \in Ips \cup {Nobody} /\ t \in RouteClasses \cup {"read"}
  BY DEF CallStates
<1>2. 1 \in Nat \ {0} /\ {} \in SUBSET Hits
  OBVIOUS
<1>3. m \in [BodyFields -> Named]
  BY RateLimitAssumption DEF NoBody, Named
<1>4. t \in AuthenticatedRoutes => o \in WebSessions
  BY DEF ProfilesSeen
<1>5. /\ u \in [email : Named, phone : Named]
      /\ t \notin AuthenticatedRoutes => u = NoProfile
  <2>1. CASE t \notin AuthenticatedRoutes
    BY <2>1 DEF ProfilesSeen, NoProfile, Named
  <2>2. CASE t \in AuthenticatedRoutes
    <3>1. u \in [email : Subjects, phone : Subjects \union {Nobody}]
      BY <1>4, <2>2, RateLimitAssumption DEF ProfilesSeen
    <3> QED
      BY <2>2, <3>1 DEF Named
  <2> QED
    BY <2>1, <2>2
<1> QED
  BY <1>1, <1>2, <1>3, <1>4, <1>5 DEF CallRecords, Carries

LEMMA SendInv ==
  ASSUME RateLimitIInv, NEW c \in WebCalls, SendCall(c)
  PROVE  RateLimitIInv'
<1>1. CallShape
  BY DEF RateLimitIInv
<1>2. PICK i \in Ips, t \in RouteClasses :
        \E o \in IF t \in CookieRoutes THEN WebSessions \union {Nobody, Forged} ELSE {Nobody},
           m \in IF t \in BodyRoutes THEN Bodies ELSE {NoBody} :
          \E u \in ProfilesSeen(t, o) :
            webRequests' = [webRequests EXCEPT ![c] =
              [state |-> "limiting", ip |-> i, cookie |-> o, user |-> u, body |-> m,
               route |-> t, at |-> 1, counted |-> {}]]
  BY Zenon DEF SendCall
<1>3. PICK o \in WebSessions \union {Nobody, Forged}, m \in Bodies \union {NoBody} :
        \E u \in ProfilesSeen(t, o) :
          webRequests' = [webRequests EXCEPT ![c] =
            [state |-> "limiting", ip |-> i, cookie |-> o, user |-> u, body |-> m,
             route |-> t, at |-> 1, counted |-> {}]]
  <2>1. PICK o \in IF t \in CookieRoutes THEN WebSessions \union {Nobody, Forged} ELSE {Nobody},
             m \in IF t \in BodyRoutes THEN Bodies ELSE {NoBody} :
          \E u \in ProfilesSeen(t, o) :
            webRequests' = [webRequests EXCEPT ![c] =
              [state |-> "limiting", ip |-> i, cookie |-> o, user |-> u, body |-> m,
               route |-> t, at |-> 1, counted |-> {}]]
    BY <1>2, Zenon
  <2>2. o \in WebSessions \union {Nobody, Forged} /\ m \in Bodies \union {NoBody}
    OBVIOUS
  <2> QED
    BY <2>1, <2>2, Zenon
<1>4. PICK u \in ProfilesSeen(t, o) :
        webRequests' = [webRequests EXCEPT ![c] =
          [state |-> "limiting", ip |-> i, cookie |-> o, user |-> u, body |-> m,
           route |-> t, at |-> 1, counted |-> {}]]
  BY <1>3, Zenon
<1> DEFINE q == [state |-> "limiting", ip |-> i, cookie |-> o, user |-> u, body |-> m,
                 route |-> t, at |-> 1, counted |-> {}]
<1>5. /\ q \in CallRecords /\ Carries(q)
      /\ q.state = "limiting" /\ q.at = 1 /\ q.counted = {}
  BY SentRecord
<1>6. webRequests[c].state = "unsent" /\ UNCHANGED windows
  BY DEF SendCall
<1>7. webRequests' = [webRequests EXCEPT ![c] = q]
  BY <1>4
<1> HIDE DEF q
<1>8. Len(Limiters(q)) \in Nat
  <2>1. Limiters(q) \in Seq(Buckets)
    BY <1>5, LimitersCount
  <2> QED
    BY <2>1
<1>9. q.counted = webRequests[c].counted
  BY <1>1, <1>5, <1>6 DEF CallShape
<1>10. \A n \in 1 .. Len(Limiters(q)) : ~(n < q.at)
  BY <1>5, <1>8
<1>11. q.state # "unsent" /\ q.state # "served"
  BY <1>5
<1> QED
  BY <1>5, <1>6, <1>7, <1>9, <1>10, <1>11, CallMoves

\* The store fails, the limit is exceeded, or the handler runs.
LEMMA EndInv ==
  ASSUME RateLimitIInv, NEW c \in WebCalls, NEW s \in {"failed", "limited", "served"},
         webRequests' = [webRequests EXCEPT ![c].state = s], UNCHANGED windows,
         webRequests[c].state = "limiting",
         s = "served" => webRequests[c].at > Len(Limiters(webRequests[c]))
  PROVE  RateLimitIInv'
<1> DEFINE p == webRequests[c]
           q == [p EXCEPT !.state = s]
<1>1. CallShape /\ PassedAreCounted /\ p \in CallRecords
  BY DEF RateLimitIInv, CallShape
<1>2. /\ q \in CallRecords /\ q.state = s /\ q.ip = p.ip /\ q.cookie = p.cookie
      /\ q.user = p.user /\ q.body = p.body /\ q.route = p.route /\ q.at = p.at
      /\ q.counted = p.counted
  BY <1>1 DEF CallRecords, CallStates
<1>3. webRequests' = [webRequests EXCEPT ![c] = q]
  BY <1>1 DEF CallShape
<1>4. Carries(p)
  BY <1>1 DEF CallShape
<1>5. \A i \in 1 .. Len(Limiters(p)) :
        i < p.at => \E k \in p.counted : k.bucket = Limiters(p)[i]
  BY <1>1 DEF PassedAreCounted
<1> HIDE DEF q
<1>6. Limiters(q) = Limiters(p)
  BY <1>2, LimitersSame
<1> HIDE DEF p
<1>7. p = webRequests[c]
  BY DEF p
<1>8. q.counted = webRequests[c].counted /\ q.state # "unsent" /\ Carries(q)
  BY <1>2, <1>4, <1>7 DEF Carries
<1>9. \A i \in 1 .. Len(Limiters(q)) : i < q.at => \E k \in q.counted : k.bucket = Limiters(q)[i]
  BY <1>2, <1>5, <1>6
<1>10. q.state = "served" => q.at > Len(Limiters(q))
  BY <1>2, <1>6, <1>7
<1> QED
  BY <1>2, <1>3, <1>8, <1>9, <1>10, CallMoves

\* The limiter of bucket b counts the request; over the limit it is answered
\* 429, else it moves on to the next limiter.
LEMMA PassInv ==
  ASSUME RateLimitIInv, NEW c \in WebCalls, PassLimiter(c)
  PROVE  RateLimitIInv'
<1> DEFINE p == webRequests[c]
           b == Limiters(p)[p.at]
           old == WindowOf(b)
           hit == [old EXCEPT !.count = @ + 1]
           key == [bucket |-> b, window |-> old.window]
           q == IF hit.count > LimitOf(b) THEN [p EXCEPT !.state = "limited"]
                ELSE [p EXCEPT !.at = @ + 1, !.counted = @ \union {key}]
<1>1. CallShape /\ WindowsBound /\ PassedAreCounted
  BY DEF RateLimitIInv
<1>2. /\ p \in CallRecords /\ p.state = "limiting" /\ Carries(p)
      /\ p.at \in Nat \ {0} /\ p.at <= Len(Limiters(p))
  BY <1>1 DEF CallShape, CallRecords, PassLimiter
<1>3. b \in Buckets
  <2>1. Limiters(p) \in Seq(Buckets)
    BY <1>2, LimitersCount
  <2>2. p.at \in 1 .. Len(Limiters(p))
    BY <1>2, <2>1
  <2> HIDE DEF p
  <2> QED
    BY <2>1, <2>2
<1>4. old \in [window : Nat \ {0}, count : Nat]
  BY <1>1, WindowShape
<1>5. hit.window = old.window /\ hit.count = old.count + 1 /\ old.count \in Nat
      /\ hit \in [window : Nat \ {0}, count : Nat]
  <2> HIDE DEF old
  <2> QED
    BY <1>4
<1>6. windows' = [x \in DOMAIN windows \union {b} |-> IF x = b THEN hit ELSE windows[x]]
  BY DEF PassLimiter
<1>7. webRequests' = [webRequests EXCEPT ![c] = q]
  <2>1. [bucket |-> b, window |-> hit.window] = key
    BY <1>5
  <2> QED
    BY <2>1 DEF PassLimiter
<1>8. key \in Hits /\ key.bucket = b /\ key.window = old.window
  <2>1. old.window \in Nat \ {0}
    BY <1>4
  <2> HIDE DEF b, old
  <2> QED
    BY <1>3, <2>1 DEF Hits
<1>9. /\ q \in CallRecords /\ q.ip = p.ip /\ q.cookie = p.cookie /\ q.user = p.user
      /\ q.body = p.body /\ q.route = p.route
      /\ \/ q.state = "limited" /\ q.counted = p.counted
         \/ /\ q.state = "limiting" /\ q.at = p.at + 1 /\ q.counted = p.counted \cup {key}
            /\ old.count + 1 <= LimitOf(b)
  <2>1. LimitOf(b) \in Nat
    BY RateLimitAssumption DEF LimitOf
  <2> HIDE DEF p, b, old, key
  <2>2. CASE hit.count > LimitOf(b)
    BY <1>2, <2>2 DEF CallRecords, CallStates
  <2>3. CASE ~(hit.count > LimitOf(b))
    <3> DEFINE n == p.at + 1
               k == p.counted \cup {key}
    <3>1. n \in Nat \ {0} /\ k \in SUBSET Hits
      BY <1>2, <1>8 DEF CallRecords
    <3>2. q = [p EXCEPT !.at = n, !.counted = k]
      BY <1>2, <2>3 DEF CallRecords
    <3> HIDE DEF n, k, hit
    <3>3. /\ q \in CallRecords /\ q.ip = p.ip /\ q.cookie = p.cookie /\ q.user = p.user
          /\ q.body = p.body /\ q.route = p.route /\ q.state = p.state /\ q.at = n /\ q.counted = k
      BY <1>2, <3>1, <3>2 DEF CallRecords
    <3>4. old.count + 1 <= LimitOf(b)
      BY <1>5, <2>1, <2>3
    <3> QED
      BY <1>2, <3>3, <3>4 DEF n, k
  <2> QED
    BY <2>2, <2>3
<1>10. webRequests'[c] = q /\ \A d \in WebCalls \ {c} : webRequests'[d] = webRequests[d]
  <2> HIDE DEF q
  <2> QED
    BY <1>1, <1>7 DEF CallShape
<1>11. Limiters(q) = Limiters(p)
  <2> HIDE DEF q, p
  <2> QED
    BY <1>9, LimitersSame
<1> HIDE DEF q, key, hit
<1>12. CallShape'
  <2>1. webRequests' \in [WebCalls -> CallRecords]
    BY <1>1, <1>7, <1>9 DEF CallShape
  <2>2. /\ DOMAIN windows' = DOMAIN windows \union {b}
        /\ windows'[b] = hit /\ \A x \in DOMAIN windows : x # b => windows'[x] = windows[x]
    BY <1>6
  <2> HIDE DEF b, p
  <2> QED
    BY <1>1, <1>2, <1>3, <1>5, <1>9, <1>10, <2>1, <2>2 DEF CallShape, Carries
<1>13. \A x : WindowOf(x)' = IF x = b THEN hit ELSE WindowOf(x)
  <2> HIDE DEF b
  <2> QED
    BY <1>6 DEF WindowOf
<1>14. WindowsBound'
  <2> SUFFICES ASSUME NEW k \in Hits
               PROVE  /\ Cardinality(CountedIn(k)') <= LimitOf(k.bucket)
                      /\ k.window = WindowOf(k.bucket)'.window =>
                           Cardinality(CountedIn(k)') <= WindowOf(k.bucket)'.count
                      /\ k.window > WindowOf(k.bucket)'.window => CountedIn(k)' = {}
    BY DEF WindowsBound, LimitOf
  <2>1. /\ Cardinality(CountedIn(k)) <= LimitOf(k.bucket)
        /\ k.window = WindowOf(k.bucket).window =>
             Cardinality(CountedIn(k)) <= WindowOf(k.bucket).count
        /\ k.window > WindowOf(k.bucket).window => CountedIn(k) = {}
    BY <1>1 DEF WindowsBound
  <2>2. Cardinality(CountedIn(k)) \in Nat /\ IsFiniteSet(CountedIn(k))
    BY CountedFinite
  <2> HIDE DEF p, b, old
  <2>3. CASE k # key \/ q.counted = p.counted
    <3>1. CountedIn(k)' = CountedIn(k)
      BY <1>9, <1>10, <2>3 DEF CountedIn, p
    <3> QED
      BY <1>4, <1>5, <1>13, <2>1, <2>2, <3>1 DEF old
  <2>4. CASE k = key /\ q.counted = p.counted \cup {key} /\ old.count + 1 <= LimitOf(b)
    <3>1. CountedIn(k)' \subseteq CountedIn(k) \cup {c}
      BY <1>10, <2>4 DEF CountedIn
    <3>2. /\ IsFiniteSet(CountedIn(k) \cup {c})
          /\ Cardinality(CountedIn(k) \cup {c}) <= Cardinality(CountedIn(k)) + 1
      <4> DEFINE N == CountedIn(k)
      <4>0. IsFiniteSet(N) /\ Cardinality(N) \in Nat
        BY <2>2
      <4> HIDE DEF N
      <4>1. CASE c \in N
        <5>1. N \cup {c} = N
          BY <4>1
        <5>2. \A m \in Nat : m <= m + 1
          OBVIOUS
        <5>3. Cardinality(N) <= Cardinality(N) + 1
          BY <4>0, <5>2
        <5> QED
          BY <4>0, <5>1, <5>3 DEF N
      <4>2. CASE c \notin N
        <5>1. IsFiniteSet(N \cup {c}) /\ Cardinality(N \cup {c}) = Cardinality(N) + 1
          BY <4>0, <4>2, FS_AddElement
        <5>2. \A m \in Nat : m + 1 <= m + 1
          OBVIOUS
        <5>3. Cardinality(N) + 1 <= Cardinality(N) + 1
          BY <4>0, <5>2
        <5> QED
          BY <5>1, <5>3 DEF N
      <4> QED
        BY <4>1, <4>2
    <3>3. /\ Cardinality(CountedIn(k)') <= Cardinality(CountedIn(k)) + 1
          /\ Cardinality(CountedIn(k)') \in Nat
      <4>1. /\ IsFiniteSet(CountedIn(k)')
            /\ Cardinality(CountedIn(k)') <= Cardinality(CountedIn(k) \cup {c})
        BY <3>1, <3>2, FS_Subset
      <4>2. /\ Cardinality(CountedIn(k)') \in Nat
            /\ Cardinality(CountedIn(k) \cup {c}) \in Nat
        BY <3>2, <4>1, FS_CardinalityType
      <4> QED
        BY <2>2, <3>2, <4>1, <4>2
    <3>4. k.bucket = b /\ k.window = old.window /\ old = WindowOf(k.bucket)
      BY <1>8, <2>4 DEF old
    <3>5. Cardinality(CountedIn(k)) <= old.count
      BY <2>1, <3>4
    <3>6. WindowOf(k.bucket)' = hit
      BY <1>13, <3>4
    <3>7. LimitOf(b) \in Nat
      BY RateLimitAssumption DEF LimitOf
    <3>8. Cardinality(CountedIn(k)') <= old.count + 1
      BY <1>5, <2>2, <3>3, <3>5
    <3>9. Cardinality(CountedIn(k)') <= LimitOf(b)
      BY <1>5, <2>4, <3>3, <3>7, <3>8
    <3>10. ~(k.window > hit.window)
      BY <1>4, <1>5, <3>4
    <3> QED
      BY <1>5, <3>4, <3>6, <3>8, <3>9, <3>10
  <2> QED
    BY <1>9, <2>3, <2>4
<1>15. PassedAreCounted'
  <2> SUFFICES ASSUME NEW d \in WebCalls
               PROVE  /\ webRequests'[d].state \in {"limiting", "served"} =>
                           \A i \in 1 .. Len(Limiters(webRequests'[d])) :
                             i < webRequests'[d].at =>
                               \E k \in webRequests'[d].counted :
                                 k.bucket = Limiters(webRequests'[d])[i]
                      /\ webRequests'[d].state = "served" =>
                           webRequests'[d].at > Len(Limiters(webRequests'[d]))
    BY PassedNext
  <2>1. CASE d # c
    BY <1>1, <1>10, <2>1 DEF PassedAreCounted
  <2>2. CASE d = c
    <3>1. \A i \in 1 .. Len(Limiters(p)) :
            i < p.at => \E k \in p.counted : k.bucket = Limiters(p)[i]
      BY <1>1, <1>2 DEF PassedAreCounted
    <3>2. ASSUME NEW i \in 1 .. Len(Limiters(p)), q.state = "limiting", i < q.at
          PROVE  \E k \in q.counted : k.bucket = Limiters(p)[i]
      <4>1. q.at = p.at + 1 /\ q.counted = p.counted \cup {key}
        BY <1>9, <3>2
      <4>2. CASE i < p.at
        BY <3>1, <4>1, <4>2
      <4>3. CASE i = p.at
        BY <1>8, <4>1, <4>3
      <4>4. i \in Nat /\ p.at \in Nat
        BY <1>2
      <4> QED
        BY <3>2, <4>1, <4>2, <4>3, <4>4
    <3>3. q.state # "served"
      BY <1>9
    <3> QED
      BY <1>10, <1>11, <2>2, <3>2, <3>3
  <2> QED
    BY <2>1, <2>2
<1> QED
  BY <1>12, <1>14, <1>15 DEF RateLimitIInv

\* The next window of a bucket begins: nobody was counted in it yet.
LEMMA WindowEndsInv ==
  ASSUME RateLimitIInv, NEW b \in DOMAIN windows, WindowEnds(b)
  PROVE  RateLimitIInv'
<1> DEFINE next == [window |-> windows[b].window + 1, count |-> 0]
<1>1. CallShape /\ WindowsBound /\ PassedAreCounted /\ UNCHANGED webRequests
  BY DEF RateLimitIInv, WindowEnds
<1>2. windows[b] \in [window : Nat \ {0}, count : Nat]
  BY <1>1 DEF CallShape
<1>3. next \in [window : Nat \ {0}, count : Nat]
  BY <1>2
<1>4. windows' = [windows EXCEPT ![b] = next]
  BY DEF WindowEnds
<1>5. WindowOf(b) = windows[b] /\ \A x : WindowOf(x)' = IF x = b THEN next ELSE WindowOf(x)
  BY <1>4 DEF WindowOf
<1>6. CallShape'
  <2>1. DOMAIN windows' = DOMAIN windows
        /\ \A x \in DOMAIN windows : windows'[x] = IF x = b THEN next ELSE windows[x]
    BY <1>4
  <2> HIDE DEF next
  <2> QED
    BY <1>1, <1>3, <2>1 DEF CallShape
<1>7. WindowsBound'
  <2> SUFFICES ASSUME NEW k \in Hits
               PROVE  /\ Cardinality(CountedIn(k)') <= LimitOf(k.bucket)
                      /\ k.window = WindowOf(k.bucket)'.window =>
                           Cardinality(CountedIn(k)') <= WindowOf(k.bucket)'.count
                      /\ k.window > WindowOf(k.bucket)'.window => CountedIn(k)' = {}
    BY DEF WindowsBound, LimitOf
  <2>1. /\ Cardinality(CountedIn(k)) <= LimitOf(k.bucket)
        /\ k.window = WindowOf(k.bucket).window =>
             Cardinality(CountedIn(k)) <= WindowOf(k.bucket).count
        /\ k.window > WindowOf(k.bucket).window => CountedIn(k) = {}
    BY <1>1 DEF WindowsBound
  <2>2. CountedIn(k)' = CountedIn(k)
    BY <1>1 DEF CountedIn
  <2>3. CASE k.bucket # b
    BY <1>5, <2>1, <2>2, <2>3
  <2>4. CASE k.bucket = b
    <3>1. k.window \in Nat /\ windows[b].window \in Nat
      BY <1>2 DEF Hits
    <3>2. k.window >= next.window => CountedIn(k) = {}
      BY <1>5, <2>1, <2>4, <3>1
    <3>3. next.window \in Nat /\ next.count = 0 /\ Cardinality({}) = 0
      BY <1>3, FS_EmptySet
    <3>4. WindowOf(k.bucket)' = next
      BY <1>5, <2>4
    <3> HIDE DEF next
    <3> QED
      BY <2>1, <2>2, <3>1, <3>2, <3>3, <3>4
  <2> QED
    BY <2>3, <2>4
<1>8. PassedAreCounted'
  BY <1>1, PassedNext DEF PassedAreCounted
<1> QED
  BY <1>6, <1>7, <1>8 DEF RateLimitIInv

----------------------------------------------------------------------------
LEMMA RateLimitInitInv == RateLimitInit => RateLimitIInv
<1> SUFFICES ASSUME RateLimitInit PROVE RateLimitIInv
  OBVIOUS
<1>1. /\ Unsent \in CallRecords /\ Unsent.state = "unsent" /\ Unsent.counted = {}
  <2>1. NoProfile \in [email : Named, phone : Named] /\ NoBody \in [BodyFields -> Named]
    BY DEF NoProfile, NoBody, Named
  <2>2. 1 \in Nat \ {0} /\ {} \in SUBSET Hits
    OBVIOUS
  <2> QED
    BY <2>1, <2>2 DEF Unsent, CallRecords, CallStates
<1>2. webRequests = [c \in WebCalls |-> Unsent] /\ DOMAIN windows = {}
  BY DEF RateLimitInit
<1>3. CallShape
  BY <1>1, <1>2 DEF CallShape
<1>4. \A k : CountedIn(k) = {}
  BY <1>1, <1>2 DEF CountedIn
<1>5. \A b : WindowOf(b).window \in Nat /\ WindowOf(b).count \in Nat
  BY <1>3, WindowShape
<1>6. \A b : LimitOf(b) \in Nat
  BY RateLimitAssumption DEF LimitOf
<1>7. WindowsBound
  BY <1>4, <1>5, <1>6, FS_EmptySet DEF WindowsBound
<1>8. PassedAreCounted
  BY <1>1, <1>2 DEF PassedAreCounted
<1> QED
  BY <1>3, <1>7, <1>8 DEF RateLimitIInv

LEMMA RateLimitNextInv == RateLimitIInv /\ [RateLimitNext]_limitVars => RateLimitIInv'
<1> SUFFICES ASSUME RateLimitIInv, [RateLimitNext]_limitVars
             PROVE  RateLimitIInv'
  OBVIOUS
<1>1. ASSUME NEW c \in WebCalls, LimiterFails(c) \/ Serve(c)
      PROVE  RateLimitIInv'
  <2>1. /\ UNCHANGED windows /\ webRequests[c].state = "limiting"
        /\ \/ webRequests' = [webRequests EXCEPT ![c].state = "failed"]
           \/ /\ webRequests' = [webRequests EXCEPT ![c].state = "served"]
              /\ webRequests[c].at > Len(Limiters(webRequests[c]))
    BY <1>1 DEF LimiterFails, Serve
  <2>2. PICK s \in {"failed", "limited", "served"} :
          /\ webRequests' = [webRequests EXCEPT ![c].state = s]
          /\ s = "served" => webRequests[c].at > Len(Limiters(webRequests[c]))
    BY <2>1
  <2> QED
    BY <2>1, <2>2, EndInv
<1>2. CASE UNCHANGED limitVars
  <2>1. UNCHANGED <<webRequests, windows>> /\ CallShape /\ WindowsBound /\ PassedAreCounted
    BY <1>2 DEF limitVars, RateLimitIInv
  <2>2. PassedAreCounted'
    BY <2>1, PassedNext DEF PassedAreCounted
  <2>3. CallShape' /\ WindowsBound'
    BY <2>1 DEF CallShape, WindowsBound, CountedIn, WindowOf, LimitOf
  <2> QED
    BY <2>2, <2>3 DEF RateLimitIInv
<1> QED
  BY <1>1, <1>2, SendInv, PassInv, WindowEndsInv DEF RateLimitNext

LEMMA BoundedWindowsLimit ==
  ASSUME RateLimitIInv
  PROVE  LimitsHold
<1> DEFINE Served == {c \in WebCalls : webRequests[c].state = "served"}
           CountedBy(c, by, of) ==
             \E k \in webRequests[c].counted :
               /\ k.bucket.prefix \in PrefixesOf(webRequests[c].route)
               /\ k.bucket.key = KeyOf(by, of)
<1>1. CallShape /\ WindowsBound /\ PassedAreCounted
  BY DEF RateLimitIInv
<1>2. ASSUME NEW c \in Served, NEW k \in webRequests[c].counted
      PROVE  Cardinality({d \in Served : k \in webRequests[d].counted}) <= LimitOf(k.bucket)
  <2>1. k \in Hits
    BY <1>1, <1>2 DEF CallShape, CallRecords
  <2>2. Cardinality(CountedIn(k)) <= LimitOf(k.bucket)
    BY <1>1, <2>1 DEF WindowsBound
  <2> DEFINE S == {d \in Served : k \in webRequests[d].counted}
  <2>3. S \subseteq CountedIn(k)
    BY DEF CountedIn
  <2> HIDE DEF S
  <2>4. IsFiniteSet(S) /\ Cardinality(S) <= Cardinality(CountedIn(k))
    BY <2>3, CountedFinite, FS_Subset
  <2>5. Cardinality(S) \in Nat /\ Cardinality(CountedIn(k)) \in Nat /\ LimitOf(k.bucket) \in Nat
    BY <2>4, CountedFinite, FS_CardinalityType, RateLimitAssumption DEF LimitOf
  <2>6. Cardinality(S) <= LimitOf(k.bucket)
    BY <2>2, <2>4, <2>5
  <2> QED
    BY <2>6 DEF S
<1>3. ASSUME NEW c \in Served, NEW by, NEW of, CountsBy(webRequests[c], by, of)
      PROVE  CountedBy(c, by, of)
  <2> DEFINE q == webRequests[c]
             s == Limiters(q)
  <2>1. q \in CallRecords /\ q.state = "served" /\ Carries(q)
    BY <1>1 DEF CallShape
  <2>2. s \in Seq(Buckets)
    BY <2>1, LimitersCount
  <2>3. PICK p \in PrefixesOf(q.route) : Has(s, [prefix |-> p, key |-> KeyOf(by, of)])
    BY <1>3 DEF CountsBy
  <2>4. PICK i \in 1 .. Len(s) : s[i] = [prefix |-> p, key |-> KeyOf(by, of)]
    BY <2>3 DEF Has
  <2>5. i < q.at
    <3>1. q.at > Len(s) /\ q.at \in Nat
      BY <1>1, <2>1 DEF PassedAreCounted, CallRecords
    <3> HIDE DEF q, s
    <3> QED
      BY <2>2, <3>1
  <2>6. PICK k \in q.counted : k.bucket = s[i]
    BY <1>1, <2>1, <2>5 DEF PassedAreCounted
  <2>7. k.bucket.prefix = p /\ k.bucket.key = KeyOf(by, of)
    BY <2>4, <2>6
  <2> QED
    BY <2>7
<1>4. ASSUME NEW c \in Served, NEW q, q = webRequests[c]
      PROVE  /\ q.route # "query" => CountedBy(c, "ip", q.ip)
             /\ q.cookie \in WebSessions /\ q.route \in {"write", "upload", "changeEmail", "phone"}
                  => CountedBy(c, "user", SessionOwner[q.cookie])
             /\ q.route = "ticket" => CountedBy(c, "session", q.cookie)
             /\ q.route \in {"login", "security", "reset", "resend"} /\ EmailNamed(q) # Nobody
                  => CountedBy(c, "email", EmailNamed(q))
  <2>1. q \in CallRecords /\ Carries(q)
    BY <1>1, <1>4 DEF CallShape
  <2>2. \A by, of : CountsBy(q, by, of) => CountedBy(c, by, of)
    BY <1>3, <1>4
  <2> HIDE DEF CountedBy, Served
  <2> QED
    BY <2>1, <2>2, LimitersCount
<1> QED
  BY <1>2, <1>4 DEF LimitsHold

\* However requests interleave, a window of a bucket lets at most its limit be
\* served; and a served request was counted in a bucket of its address (other
\* queries than public browsing excepted; anonymous and signed-in writes have
\* a bucket each), a write under a cookie that verifies in its account's, a
\* ticket in its session's, a sign-in, a security change, a password reset and
\* a repeated link in that of the email the request is keyed by, the body's
\* before the account's (common/middleware/security.ts).
THEOREM ServedAreCounted == RateLimitSpec => []LimitsHold
<1>1. RateLimitIInv => LimitsHold
  BY BoundedWindowsLimit
<1> QED
  BY <1>1, RateLimitInitInv, RateLimitNextInv, PTL DEF RateLimitSpec

----------------------------------------------------------------------------
(* The lock of the tabs: the inductive invariant *)

Steps == Acquiring \cup {"idle", "weblock", "operating", "fenced", "closed"}
Leases == [choosing : BOOLEAN, holding : BOOLEAN, ticket : Nat, live : BOOLEAN]
Scans == [unread : SUBSET Tabs, top : Nat, blocked : BOOLEAN]

LeaseShape ==
  /\ step \in [Tabs -> Steps]
  /\ lease \in [Tabs -> Leases]
  /\ scan \in [Tabs -> Scans]
  /\ passes \in [Tabs -> 0..1]
  /\ unsettled \subseteq Tabs

\* Only a page with storage has a lease; it is marked as held from the end
\* of the scans on, until it is demoted, released or replaced.  And the
\* fence: as long as the server may process a request, the lease it was sent
\* under stands, whatever became of its tab; a page without storage stays in
\* its operation, or in the delay after it, unless it is closed.
LeaseStep(t) ==
  /\ lease[t].live \/ lease[t].holding => t \in StorageTabs
  /\ step[t] \in {"choose", "scan", "confirm"} => t \in StorageTabs
  /\ step[t] \in {"choose", "scan"} => ~lease[t].holding
  /\ step[t] = "confirm" => lease[t].holding
  /\ t \in unsettled /\ t \in StorageTabs =>
       /\ lease[t].live /\ lease[t].holding
       /\ step[t] \notin {"choose", "scan", "confirm"}
  /\ t \in unsettled /\ t \notin StorageTabs => step[t] \in {"operating", "fenced", "closed"}
  /\ step[t] = "operating" /\ lease[t].live => t \in unsettled

FenceStands == \A t \in Tabs : LeaseStep(t)

Holds(t) == lease[t].live /\ lease[t].holding

\* Tab t has looked at the lease of u since it marked its own as held, and
\* did not find it held.
Cleared(t, u) ==
  \/ t \in unsettled
  \/ /\ step[t] = "confirm"
     /\ passes[t] = 1 \/ (u \notin scan[t].unread /\ ~scan[t].blocked)

\* Of two tabs that hold a lease, at most one has found the other's not held:
\* the one that marked its lease last reads the other's afterwards.
OneCleared ==
  \A t, u \in Tabs :
    t # u /\ Holds(t) /\ Holds(u) => ~(Cleared(t, u) /\ Cleared(u, t))

WebLockHeld ==
  /\ \A t, u \in webLock : t = u
  /\ \A t \in WebLockTabs : step[t] \in Acquiring \cup {"operating", "fenced"} => t \in webLock

LeaseIInv == LeaseShape /\ FenceStands /\ OneCleared /\ WebLockHeld

----------------------------------------------------------------------------
(* A step changes what belongs to one tab *)

Only(t) ==
  /\ \A u \in Tabs \ {t} : /\ step'[u] = step[u] /\ lease'[u] = lease[u]
                           /\ scan'[u] = scan[u] /\ passes'[u] = passes[u]
                           /\ (u \in unsettled') <=> (u \in unsettled)
  /\ webLock' \subseteq webLock \cup {t} /\ webLock \ {t} \subseteq webLock'

\* No lease is newly found clear that is held.
NothingCleared(t) ==
  \A u \in Tabs \ {t} : Holds(t)' /\ Holds(u) /\ Cleared(t, u)' => Holds(t) /\ Cleared(t, u)

\* At its own tab a step keeps the Web Lock while it needs it.
LockKept(t) ==
  /\ t \in webLock' => webLock' = {t}
  /\ t \in WebLockTabs /\ step'[t] \in Acquiring \cup {"operating", "fenced"} => t \in webLock'

LEMMA OneTabMoves ==
  ASSUME LeaseIInv, NEW t \in Tabs, Only(t), LeaseShape', LeaseStep(t)', NothingCleared(t),
         LockKept(t)
  PROVE  LeaseIInv'
<1>1. FenceStands'
  BY DEF LeaseIInv, FenceStands, LeaseStep, Only
<1>2. OneCleared'
  <2> SUFFICES ASSUME NEW a \in Tabs, NEW b \in Tabs, a # b, Holds(a)', Holds(b)',
                      Cleared(a, b)', Cleared(b, a)'
               PROVE  FALSE
    BY DEF OneCleared
  <2>1. \A u \in Tabs \ {t}, v \in Tabs :
          /\ Cleared(u, v)' => Cleared(u, v)
          /\ Holds(u)' => Holds(u)
    BY DEF Only, Cleared, Holds
  <2>2. Holds(a) /\ Holds(b) /\ Cleared(a, b) /\ Cleared(b, a)
    BY <2>1 DEF NothingCleared
  <2> QED
    BY <2>2 DEF LeaseIInv, OneCleared
<1>3. WebLockHeld'
  <2>1. \A a, b \in webLock' : a = b
    <3>1. CASE t \in webLock'
      BY <3>1 DEF LockKept
    <3>2. CASE t \notin webLock'
      BY <3>2 DEF LeaseIInv, WebLockHeld, Only
    <3> QED
      BY <3>1, <3>2
  <2>2. ASSUME NEW u \in WebLockTabs, step'[u] \in Acquiring \cup {"operating", "fenced"}
        PROVE  u \in webLock'
    <3>1. u \in Tabs
      BY RefreshLeaseAssumption
    <3>2. CASE u = t
      BY <2>2, <3>2 DEF LockKept
    <3>3. CASE u # t
      BY <2>2, <3>1, <3>3 DEF LeaseIInv, WebLockHeld, Only
    <3> QED
      BY <3>2, <3>3
  <2> QED
    BY <2>1, <2>2 DEF WebLockHeld
<1> QED
  BY <1>1, <1>2, <1>3 DEF LeaseIInv

LEMMA BeginScanShape ==
  ASSUME LeaseShape, NEW t \in Tabs, BeginScan(t)
  PROVE  /\ scan' \in [Tabs -> Scans]
         /\ scan'[t].unread = StorageTabs \ {t}
         /\ \A u \in Tabs \ {t} : scan'[u] = scan[u]
  BY RefreshLeaseAssumption DEF LeaseShape, BeginScan, NoScan, Scans

LEMMA WithdrawShape ==
  ASSUME LeaseShape, NEW t \in Tabs, Withdraw(t)
  PROVE  /\ lease' \in [Tabs -> Leases] /\ lease'[t] = NoLease
         /\ scan' \in [Tabs -> Scans] /\ passes' \in [Tabs -> 0..1]
         /\ step' \in [Tabs -> Steps] /\ step'[t] = "idle"
         /\ webLock' = webLock \ {t}
         /\ \A u \in Tabs \ {t} : /\ step'[u] = step[u] /\ lease'[u] = lease[u]
                                  /\ scan'[u] = scan[u] /\ passes'[u] = passes[u]
  BY DEF LeaseShape, Withdraw, FreeWebLock, NoLease, NoScan, Leases, Scans, Steps, Acquiring

LEMMA MaxOfTwo ==
  ASSUME NEW a \in Nat, NEW b \in Nat
  PROVE  Max({a, b}) \in Nat
<1>1. PICK m \in {a, b} : \A y \in {a, b} : m >= y
  <2>1. a >= b \/ b >= a
    OBVIOUS
  <2>2. CASE a >= b
    BY <2>2
  <2>3. CASE b >= a
    BY <2>3
  <2> QED
    BY <2>1, <2>2, <2>3
<1>2. Max({a, b}) \in {a, b}
  BY <1>1 DEF Max
<1> QED
  BY <1>2

----------------------------------------------------------------------------
(* One lemma per kind of step *)

\* On the way into the lock, before anything is published.
LEMMA EnterInv ==
  ASSUME LeaseIInv, NEW t \in Tabs,
         \/ RequestLock(t) \/ GrantWebLock(t) \/ WebLockTimeout(t) \/ RunWithoutLease(t)
  PROVE  LeaseIInv'
<1>1. LeaseShape /\ LeaseStep(t) /\ WebLockHeld
  BY DEF LeaseIInv, FenceStands
<1>2. /\ UNCHANGED <<lease, scan, passes>>
      /\ step[t] \in {"idle", "weblock", "claim"}
      /\ \E s \in {"idle", "weblock", "claim", "operating"} : step' = [step EXCEPT ![t] = s]
      /\ step'[t] = "operating" => t \notin StorageTabs
      /\ \/ unsettled' = unsettled
         \/ unsettled' = unsettled \cup {t} /\ t \notin StorageTabs /\ step'[t] = "operating"
  BY <1>1 DEF RequestLock, GrantWebLock, WebLockTimeout, RunWithoutLease, LeaseShape
<1>3. LeaseShape'
  BY <1>1, <1>2 DEF LeaseShape, Steps, Acquiring
<1>4. Only(t)
  BY <1>1, <1>2 DEF LeaseShape, Only, RequestLock, GrantWebLock, WebLockTimeout, RunWithoutLease
<1>5. LeaseStep(t)'
  BY <1>1, <1>2, <1>3 DEF LeaseStep, LeaseShape
<1>6. NothingCleared(t)
  <2>1. CASE unsettled' = unsettled
    BY <1>1, <1>2, <1>3, <2>1 DEF NothingCleared, Cleared, Holds, LeaseShape
  <2>2. CASE t \notin StorageTabs
    BY <1>1, <1>2, <2>2 DEF NothingCleared, Holds, LeaseStep
  <2> QED
    BY <1>2, <2>1, <2>2
<1>7. LockKept(t)
  BY <1>1, <1>2 DEF LockKept, WebLockHeld, LeaseShape, Acquiring, RequestLock, GrantWebLock, WebLockTimeout,
                    RunWithoutLease
<1> QED
  BY <1>3, <1>4, <1>5, <1>6, <1>7, OneTabMoves

LEMMA PublishInv ==
  ASSUME LeaseIInv, NEW t \in Tabs, PublishChoosing(t)
  PROVE  LeaseIInv'
<1>1. LeaseShape /\ LeaseStep(t) /\ WebLockHeld
  BY DEF LeaseIInv, FenceStands
<1>2. CASE lease[t].live
  <2>1. /\ UNCHANGED <<lease, scan, passes, unsettled>>
        /\ step[t] = "claim" /\ step' = [step EXCEPT ![t] = "idle"]
        /\ webLock' = webLock \ {t}
    BY <1>2 DEF PublishChoosing, FreeWebLock
  <2>2. LeaseShape' /\ Only(t)
    BY <1>1, <2>1 DEF LeaseShape, Steps, Only
  <2>3. LeaseStep(t)' /\ NothingCleared(t)
    BY <1>1, <2>1 DEF LeaseStep, LeaseShape, NothingCleared, Cleared, Holds
  <2>4. LockKept(t)
    BY <1>1, <2>1 DEF LockKept, LeaseShape, Acquiring
  <2> QED
    BY <2>2, <2>3, <2>4, OneTabMoves
<1>3. CASE ~lease[t].live
  <2>1. /\ UNCHANGED <<passes, unsettled, webLock>>
        /\ step[t] = "claim" /\ step' = [step EXCEPT ![t] = "choose"]
        /\ lease' = [lease EXCEPT ![t] = [NoLease EXCEPT !.choosing = TRUE, !.live = TRUE]]
        /\ BeginScan(t) /\ t \in StorageTabs
    BY <1>3 DEF PublishChoosing
  <2>2. lease' \in [Tabs -> Leases] /\ ~lease'[t].holding
    BY <1>1, <2>1 DEF LeaseShape, NoLease, Leases
  <2>3. LeaseShape' /\ Only(t)
    BY <1>1, <2>1, <2>2, BeginScanShape DEF LeaseShape, Steps, Acquiring, Only
  <2>4. LeaseStep(t)' /\ NothingCleared(t)
    BY <1>1, <1>3, <2>1, <2>2 DEF LeaseStep, LeaseShape, NothingCleared, Cleared, Holds
  <2>5. LockKept(t)
    BY <1>1, <2>1 DEF LockKept, WebLockHeld, LeaseShape, Acquiring
  <2> QED
    BY <2>3, <2>4, <2>5, OneTabMoves
<1> QED
  BY <1>2, <1>3

\* Reading a peer's lease: one that is held blocks.
LEMMA ReadInv ==
  ASSUME LeaseIInv, NEW t \in Tabs, NEW u \in Tabs, ReadLease(t, u)
  PROVE  LeaseIInv'
<1>1. LeaseShape /\ LeaseStep(t) /\ WebLockHeld
  BY DEF LeaseIInv, FenceStands
<1> DEFINE s == [unread |-> scan[t].unread \ {u},
                 top |-> IF step[t] = "choose" /\ lease[u].live
                           THEN Max({scan[t].top, lease[u].ticket}) ELSE scan[t].top,
                 blocked |-> scan[t].blocked \/ (step[t] # "choose" /\ Blocks(u, t))]
<1>2. /\ UNCHANGED <<step, lease, passes, unsettled, webLock>>
      /\ scan' = [scan EXCEPT ![t] = s]
      /\ step[t] \in {"choose", "scan", "confirm"}
  BY <1>1 DEF ReadLease, LeaseShape
<1>3. s \in Scans
  <2>1. scan[t] \in Scans /\ lease[u] \in Leases
    BY <1>1 DEF LeaseShape
  <2>2. scan[t].top \in Nat /\ lease[u].ticket \in Nat /\ scan[t].unread \in SUBSET Tabs
        /\ scan[t].blocked \in BOOLEAN
    BY <2>1 DEF Scans, Leases
  <2>3. Max({scan[t].top, lease[u].ticket}) \in Nat
    BY <2>2, MaxOfTwo
  <2>4. s.top \in Nat /\ s.unread \in SUBSET Tabs
    BY <2>2, <2>3
  <2>5. (scan[t].blocked \/ (step[t] # "choose" /\ Blocks(u, t))) \in BOOLEAN
    OBVIOUS
  <2> QED
    BY <2>4, <2>5 DEF Scans
<1>4. /\ scan'[t] = s /\ \A v \in Tabs \ {t} : scan'[v] = scan[v]
      /\ scan'[t].unread = scan[t].unread \ {u}
      /\ scan[t].blocked => scan'[t].blocked
      /\ step[t] # "choose" /\ Blocks(u, t) => scan'[t].blocked
  <2>1. scan'[t] = s /\ \A v \in Tabs \ {t} : scan'[v] = scan[v]
    BY <1>1, <1>2 DEF LeaseShape
  <2>2. /\ s.unread = scan[t].unread \ {u}
        /\ s.blocked = (scan[t].blocked \/ (step[t] # "choose" /\ Blocks(u, t)))
    OBVIOUS
  <2> QED
    BY <2>1, <2>2
<1>5. LeaseShape'
  BY <1>1, <1>2, <1>3 DEF LeaseShape
<1>6. Only(t) /\ LeaseStep(t)'
  BY <1>1, <1>2, <1>4 DEF Only, LeaseStep
<1>7. LockKept(t)
  BY <1>1, <1>2 DEF LockKept, WebLockHeld
<1>8. NothingCleared(t)
  <2> SUFFICES ASSUME NEW v \in Tabs \ {t}, Holds(t)', Holds(v), Cleared(t, v)'
               PROVE  Holds(t) /\ Cleared(t, v)
    BY DEF NothingCleared
  <2>1. Holds(t)
    BY <1>2 DEF Holds
  <2>2. CASE v = u
    <3>1. step[t] = "confirm" => scan'[t].blocked
      BY <1>4, <2>2 DEF Blocks, Holds
    <3> QED
      BY <1>1, <1>2, <2>1, <3>1 DEF Cleared
  <2>3. CASE v # u
    <3>1. v \notin scan'[t].unread /\ ~scan'[t].blocked
            => v \notin scan[t].unread /\ ~scan[t].blocked
      BY <1>4, <2>3
    <3> QED
      BY <1>2, <2>1, <3>1 DEF Cleared
  <2> QED
    BY <2>2, <2>3
<1> QED
  BY <1>5, <1>6, <1>7, <1>8, OneTabMoves

LEMMA TicketInv ==
  ASSUME LeaseIInv, NEW t \in Tabs, TakeTicket(t)
  PROVE  LeaseIInv'
<1>1. LeaseShape /\ LeaseStep(t) /\ WebLockHeld
  BY DEF LeaseIInv, FenceStands
<1>2. /\ UNCHANGED <<unsettled, webLock>> /\ step[t] = "choose" /\ BeginScan(t)
      /\ step' = [step EXCEPT ![t] = "scan"] /\ passes' = [passes EXCEPT ![t] = 0]
      /\ lease' = [lease EXCEPT ![t] = [NoLease EXCEPT !.ticket = scan[t].top + 1,
                                                        !.live = TRUE]]
  BY DEF TakeTicket
<1>3. scan[t].top + 1 \in Nat
  <2>1. scan[t] \in Scans
    BY <1>1 DEF LeaseShape
  <2> QED
    BY <2>1 DEF Scans
<1>4. lease' \in [Tabs -> Leases] /\ ~lease'[t].holding
  BY <1>1, <1>2, <1>3 DEF LeaseShape, NoLease, Leases
<1>5. LeaseShape' /\ Only(t)
  BY <1>1, <1>2, <1>4, BeginScanShape DEF LeaseShape, Steps, Acquiring, Only
<1>6. LeaseStep(t)' /\ NothingCleared(t)
  BY <1>1, <1>2, <1>4 DEF LeaseStep, LeaseShape, NothingCleared, Holds
<1>7. LockKept(t)
  BY <1>1, <1>2 DEF LockKept, WebLockHeld, LeaseShape, Acquiring
<1> QED
  BY <1>5, <1>6, <1>7, OneTabMoves

\* The claim is withdrawn, with the request settled if there was one.
LEMMA WithdrawInv ==
  ASSUME LeaseIInv, NEW t \in Tabs, Withdraw(t),
         \/ unsettled' = unsettled \ {t}
         \/ unsettled' = unsettled /\ t \notin unsettled
  PROVE  LeaseIInv'
<1>1. LeaseShape /\ WebLockHeld
  BY DEF LeaseIInv
<1>2. /\ lease'[t] = NoLease /\ step'[t] = "idle" /\ webLock' = webLock \ {t}
      /\ t \notin unsettled'
  BY <1>1, WithdrawShape
<1>3. LeaseShape' /\ Only(t)
  BY <1>1, WithdrawShape DEF LeaseShape, Only
<1>4. LeaseStep(t)' /\ NothingCleared(t) /\ LockKept(t)
  BY <1>2 DEF LeaseStep, NothingCleared, Holds, LockKept, NoLease, Acquiring
<1> QED
  BY <1>3, <1>4, OneTabMoves

\* A scan starts over, or starts for the first time, with the lease as it is.
LEMMA RescanInv ==
  ASSUME LeaseIInv, NEW t \in Tabs, BeginScan(t), NEW n \in 0..1,
         passes' = [passes EXCEPT ![t] = n], UNCHANGED <<step, lease, webLock, unsettled>>,
         \/ step[t] = "scan"
         \/ step[t] = "confirm" /\ scan[t].unread = {} /\ ~scan[t].blocked
  PROVE  LeaseIInv'
<1>1. LeaseShape /\ LeaseStep(t) /\ WebLockHeld
  BY DEF LeaseIInv, FenceStands
<1>2. LeaseShape' /\ Only(t)
  BY <1>1, BeginScanShape DEF LeaseShape, Only
<1>3. LeaseStep(t)' /\ LockKept(t)
  BY <1>1 DEF LeaseStep, LockKept, WebLockHeld
<1>4. NothingCleared(t)
  BY DEF NothingCleared, Cleared, Holds
<1> QED
  BY <1>2, <1>3, <1>4, OneTabMoves

\* The lease is marked as held, or demoted, and a scan follows: nobody has
\* been found clear since.
LEMMA MarkInv ==
  ASSUME LeaseIInv, NEW t \in Tabs, BeginScan(t), NEW h \in BOOLEAN,
         step[t] \in {"scan", "confirm"}, t \in StorageTabs,
         lease' = [lease EXCEPT ![t].holding = h], passes' = [passes EXCEPT ![t] = 0],
         step' = [step EXCEPT ![t] = IF h THEN "confirm" ELSE "scan"],
         UNCHANGED <<webLock, unsettled>>
  PROVE  LeaseIInv'
<1>1. LeaseShape /\ LeaseStep(t) /\ WebLockHeld
  BY DEF LeaseIInv, FenceStands
<1>2. /\ lease' \in [Tabs -> Leases] /\ lease'[t].holding = h
      /\ \A u \in Tabs \ {t} : lease'[u] = lease[u]
  BY <1>1 DEF LeaseShape, Leases
<1>3. /\ step' \in [Tabs -> Steps] /\ step'[t] = (IF h THEN "confirm" ELSE "scan")
      /\ \A u \in Tabs \ {t} : step'[u] = step[u]
  BY <1>1 DEF LeaseShape, Steps, Acquiring
<1>4. /\ passes' \in [Tabs -> 0..1] /\ passes'[t] = 0
      /\ \A u \in Tabs \ {t} : passes'[u] = passes[u]
  BY <1>1 DEF LeaseShape
<1>5. LeaseShape' /\ Only(t)
  BY <1>1, <1>2, <1>3, <1>4, BeginScanShape DEF LeaseShape, Only
<1>6. LeaseStep(t)'
  BY <1>1, <1>2, <1>3 DEF LeaseStep
<1>7. LockKept(t)
  BY <1>1 DEF LockKept, WebLockHeld, LeaseShape, Acquiring
<1>8. NothingCleared(t)
  <2> SUFFICES ASSUME NEW u \in Tabs \ {t}, Holds(t)', Holds(u), Cleared(t, u)'
               PROVE  FALSE
    BY DEF NothingCleared
  <2>1. u \in StorageTabs
    BY DEF LeaseIInv, FenceStands, LeaseStep, Holds
  <2>2. u \in scan'[t].unread
    BY <1>1, <2>1, BeginScanShape
  <2>3. t \notin unsettled'
    BY <1>1 DEF LeaseStep
  <2> QED
    BY <1>4, <2>2, <2>3 DEF Cleared
<1> QED
  BY <1>5, <1>6, <1>7, <1>8, OneTabMoves

LEMMA EndScanInv ==
  ASSUME LeaseIInv, NEW t \in Tabs, EndScan(t)
  PROVE  LeaseIInv'
<1>1. LeaseShape /\ LeaseStep(t)
  BY DEF LeaseIInv, FenceStands
<1>2. step[t] = "scan" /\ t \in StorageTabs /\ t \notin unsettled /\ unsettled' = unsettled
  BY <1>1 DEF EndScan, LeaseStep
<1>3. CASE Withdraw(t)
  BY <1>2, <1>3, WithdrawInv
<1>4. CASE \E n \in 0..1 : /\ passes' = [passes EXCEPT ![t] = n] /\ BeginScan(t)
                           /\ UNCHANGED <<step, lease, webLock>>
  <2>1. PICK n \in 0..1 : passes' = [passes EXCEPT ![t] = n]
    BY <1>4
  <2> QED
    BY <1>2, <1>4, <2>1, RescanInv
<1>5. CASE /\ lease' = [lease EXCEPT ![t].holding = TRUE]
           /\ passes' = [passes EXCEPT ![t] = 0] /\ BeginScan(t)
           /\ step' = [step EXCEPT ![t] = "confirm"] /\ UNCHANGED webLock
  BY <1>2, <1>5, MarkInv
<1> QED
  BY <1>3, <1>4, <1>5 DEF EndScan

LEMMA EndConfirmationInv ==
  ASSUME LeaseIInv, NEW t \in Tabs, EndConfirmation(t)
  PROVE  LeaseIInv'
<1>1. LeaseShape /\ LeaseStep(t) /\ WebLockHeld
  BY DEF LeaseIInv, FenceStands
<1>2. /\ step[t] = "confirm" /\ t \in StorageTabs /\ t \notin unsettled
      /\ lease[t].holding /\ scan[t].unread = {}
  BY <1>1 DEF EndConfirmation, LeaseStep
<1>3. CASE Withdraw(t) /\ UNCHANGED unsettled
  BY <1>2, <1>3, WithdrawInv
<1>4. CASE /\ ~scan[t].blocked /\ passes' = [passes EXCEPT ![t] = 1] /\ BeginScan(t)
           /\ UNCHANGED <<step, lease, webLock, unsettled>>
  <2>1. PICK n \in 0..1 : passes' = [passes EXCEPT ![t] = n]
    BY <1>4
  <2>2. step[t] = "confirm" /\ scan[t].unread = {} /\ ~scan[t].blocked
    BY <1>2, <1>4
  <2> QED
    BY <1>4, <2>1, <2>2, RescanInv
<1>5. CASE /\ lease' = [lease EXCEPT ![t].holding = FALSE]
           /\ passes' = [passes EXCEPT ![t] = 0] /\ BeginScan(t)
           /\ step' = [step EXCEPT ![t] = "scan"] /\ UNCHANGED <<webLock, unsettled>>
  BY <1>2, <1>5, MarkInv
<1>6. CASE /\ lease[t].live /\ passes[t] = 1
           /\ StartOperation(t) /\ UNCHANGED <<lease, webLock>>
  <2>1. /\ step' = [step EXCEPT ![t] = "operating"] /\ unsettled' = unsettled \cup {t}
        /\ passes' = [passes EXCEPT ![t] = 0] /\ scan' = [scan EXCEPT ![t] = NoScan]
        /\ UNCHANGED <<lease, webLock>>
    BY <1>6 DEF StartOperation
  <2>2. LeaseShape' /\ Only(t)
    BY <1>1, <2>1 DEF LeaseShape, Steps, Acquiring, NoScan, Scans, Only
  <2>3. LeaseStep(t)'
    BY <1>1, <1>2, <1>6, <2>1 DEF LeaseStep, LeaseShape
  <2>4. NothingCleared(t)
    BY <1>2, <1>6, <2>1 DEF NothingCleared, Cleared, Holds
  <2>5. LockKept(t)
    BY <1>1, <1>2, <2>1 DEF LockKept, WebLockHeld, LeaseShape, Acquiring
  <2> QED
    BY <2>2, <2>3, <2>4, <2>5, OneTabMoves
<1> QED
  BY <1>3, <1>4, <1>5, <1>6 DEF EndConfirmation

\* The end of an operation, by its answer or by an abort, and of its request.
LEMMA OperationInv ==
  ASSUME LeaseIInv, NEW t \in Tabs,
         AcquireTimeout(t) \/ Settle(t) \/ AbortOperation(t) \/ FenceEnds(t) \/ RequestProcessed(t)
  PROVE  LeaseIInv'
<1>1. LeaseShape /\ LeaseStep(t) /\ WebLockHeld
  BY DEF LeaseIInv, FenceStands
<1>2. CASE AcquireTimeout(t)
  <2>1. Withdraw(t) /\ unsettled' = unsettled /\ t \notin unsettled
    BY <1>1, <1>2 DEF AcquireTimeout, LeaseStep
  <2> QED
    BY <2>1, WithdrawInv
<1>3. CASE Settle(t)
  BY <1>3, WithdrawInv DEF Settle
<1>4. CASE AbortOperation(t)
  <2>1. step[t] = "operating" /\ UNCHANGED <<lease, scan, passes, unsettled>>
    BY <1>4 DEF AbortOperation
  <2>2. \/ /\ step' = [step EXCEPT ![t] = "idle"] /\ webLock' = webLock \ {t}
           /\ t \in StorageTabs
        \/ /\ step' = [step EXCEPT ![t] = "fenced"] /\ webLock' = webLock
           /\ t \notin StorageTabs
    BY <1>4 DEF AbortOperation, FreeWebLock
  <2>3. LeaseShape' /\ Only(t)
    BY <1>1, <2>1, <2>2 DEF LeaseShape, Steps, Only
  <2>4. LeaseStep(t)'
    BY <1>1, <2>1, <2>2 DEF LeaseStep, LeaseShape
  <2>5. NothingCleared(t)
    BY <1>1, <2>1, <2>2 DEF LeaseShape, NothingCleared, Cleared, Holds
  <2>6. LockKept(t)
    BY <1>1, <2>1, <2>2 DEF LeaseShape, LockKept, WebLockHeld, Acquiring
  <2> QED
    BY <2>3, <2>4, <2>5, <2>6, OneTabMoves
<1>6. CASE FenceEnds(t)
  <2>1. /\ step[t] = "fenced" /\ step' = [step EXCEPT ![t] = "idle"]
        /\ webLock' = webLock \ {t} /\ unsettled' = unsettled \ {t}
        /\ UNCHANGED <<lease, scan, passes>>
    BY <1>6 DEF FenceEnds, FreeWebLock
  <2>2. LeaseShape' /\ Only(t)
    BY <1>1, <2>1 DEF LeaseShape, Steps, Only
  <2>3. LeaseStep(t)' /\ NothingCleared(t) /\ LockKept(t)
    BY <1>1, <2>1 DEF LeaseStep, LeaseShape, NothingCleared, Cleared, Holds, LockKept, Acquiring
  <2> QED
    BY <2>2, <2>3, OneTabMoves
<1>5. CASE RequestProcessed(t)
  <2>1. /\ step[t] # "operating" /\ unsettled' = unsettled \ {t}
        /\ UNCHANGED <<step, lease, scan, passes, webLock>>
    BY <1>5 DEF RequestProcessed
  <2>2. LeaseShape' /\ Only(t)
    BY <1>1, <2>1 DEF LeaseShape, Only
  <2>3. LeaseStep(t)' /\ NothingCleared(t) /\ LockKept(t)
    BY <1>1, <2>1 DEF LeaseStep, NothingCleared, Cleared, Holds, LockKept, WebLockHeld
  <2> QED
    BY <2>2, <2>3, OneTabMoves
<1> QED
  BY <1>2, <1>3, <1>4, <1>5, <1>6

\* What happens to a tab and to a lease that nobody renews.
LEMMA AbandonInv ==
  ASSUME LeaseIInv, NEW t \in Tabs,
         ReleaseExpired(t) \/ Suspend(t) \/ Resume(t) \/ CloseTab(t) \/ ExpireLease(t)
  PROVE  LeaseIInv'
<1>1. LeaseShape /\ LeaseStep(t) /\ WebLockHeld
  BY DEF LeaseIInv, FenceStands
<1>2. CASE ReleaseExpired(t)
  <2>1. /\ ~lease[t].live /\ lease' = [lease EXCEPT ![t] = NoLease]
        /\ UNCHANGED <<step, scan, passes, webLock, unsettled>>
    BY <1>2 DEF ReleaseExpired
  <2>2. LeaseShape' /\ Only(t)
    BY <1>1, <2>1 DEF LeaseShape, Leases, NoLease, Only
  <2>3. ~lease'[t].live /\ ~lease'[t].holding /\ step[t] = "idle"
    BY <1>1, <1>2, <2>1 DEF LeaseShape, NoLease, ReleaseExpired
  <2>4. LeaseStep(t)' /\ NothingCleared(t) /\ LockKept(t)
    BY <1>1, <2>1, <2>3 DEF LeaseStep, NothingCleared, Holds, LockKept, WebLockHeld
  <2> QED
    BY <2>2, <2>4, OneTabMoves
<1>3. CASE Suspend(t) \/ Resume(t)
  <2>1. UNCHANGED <<step, lease, scan, passes, webLock, unsettled>>
    BY <1>3 DEF Suspend, Resume
  <2> QED
    BY <2>1 DEF LeaseIInv, LeaseShape, FenceStands, LeaseStep, OneCleared, Cleared, Holds, WebLockHeld
<1>4. CASE CloseTab(t)
  <2>1. /\ step' = [step EXCEPT ![t] = "closed"] /\ webLock' = webLock \ {t}
        /\ scan' = [scan EXCEPT ![t] = NoScan] /\ passes' = [passes EXCEPT ![t] = 0]
        /\ UNCHANGED <<lease, unsettled>>
    BY <1>4 DEF CloseTab, FreeWebLock
  <2>2. LeaseShape' /\ Only(t)
    BY <1>1, <2>1 DEF LeaseShape, Steps, NoScan, Scans, Only
  <2>3. LeaseStep(t)' /\ NothingCleared(t) /\ LockKept(t)
    BY <1>1, <2>1 DEF LeaseStep, LeaseShape, NothingCleared, Cleared, Holds, LockKept, Acquiring
  <2> QED
    BY <2>2, <2>3, OneTabMoves
<1>5. CASE ExpireLease(t)
  <2>1. /\ lease' = [lease EXCEPT ![t].live = FALSE] /\ unsettled' = unsettled \ {t}
        /\ UNCHANGED <<step, scan, passes, webLock>>
    BY <1>5 DEF ExpireLease
  <2>2. /\ lease' \in [Tabs -> Leases] /\ ~lease'[t].live /\ lease'[t].holding = lease[t].holding
        /\ \A u \in Tabs \ {t} : lease'[u] = lease[u]
    BY <1>1, <2>1 DEF LeaseShape, Leases
  <2>3. LeaseShape' /\ Only(t)
    BY <1>1, <2>1, <2>2 DEF LeaseShape, Only
  <2>4. LeaseStep(t)' /\ NothingCleared(t) /\ LockKept(t)
    BY <1>1, <2>1, <2>2 DEF LeaseStep, NothingCleared, Holds, LockKept, WebLockHeld
  <2> QED
    BY <2>3, <2>4, OneTabMoves
<1> QED
  BY <1>2, <1>3, <1>4, <1>5

----------------------------------------------------------------------------
LEMMA LeaseInitInv == LeaseInit => LeaseIInv
  BY RefreshLeaseAssumption DEF LeaseInit, LeaseIInv, LeaseShape, Steps, Leases, Scans, NoLease,
     NoScan, FenceStands, LeaseStep, OneCleared, Holds, WebLockHeld, Acquiring

LEMMA LeaseNextInv == LeaseIInv /\ [LeaseNext]_leaseVars => LeaseIInv'
<1> SUFFICES ASSUME LeaseIInv, [LeaseNext]_leaseVars
             PROVE  LeaseIInv'
  OBVIOUS
<1>1. CASE LeaseNext
  <2>1. PICK t \in Tabs :
          \/ RequestLock(t) \/ GrantWebLock(t) \/ WebLockTimeout(t) \/ RunWithoutLease(t)
          \/ PublishChoosing(t) \/ (\E u \in Tabs : ReadLease(t, u))
          \/ TakeTicket(t) \/ EndScan(t) \/ EndConfirmation(t) \/ AcquireTimeout(t)
          \/ Settle(t) \/ AbortOperation(t) \/ FenceEnds(t) \/ RequestProcessed(t)
          \/ ReleaseExpired(t)
          \/ Suspend(t) \/ Resume(t) \/ CloseTab(t) \/ ExpireLease(t)
    BY <1>1 DEF LeaseNext
  <2> QED
    BY <2>1, EnterInv, PublishInv, ReadInv, TicketInv, EndScanInv, EndConfirmationInv,
       OperationInv, AbandonInv
<1>2. CASE UNCHANGED leaseVars
  BY <1>2 DEF leaseVars, LeaseIInv, LeaseShape, FenceStands, LeaseStep, OneCleared, Cleared, Holds,
     WebLockHeld
<1> QED
  BY <1>1, <1>2

LEMMA LeaseExcludes == LeaseIInv => OneSessionMutation
<1> SUFFICES ASSUME LeaseIInv, NEW t \in Tabs, NEW u \in Tabs, t # u, step[t] = "operating"
             PROVE  /\ lease[t].live /\ u \in StorageTabs => u \notin unsettled
                    /\ {t, u} \subseteq WebLockTabs =>
                         /\ step[u] \notin {"operating", "fenced"}
                         /\ u \in unsettled => u \in StorageTabs \/ step[u] = "closed"
  BY DEF OneSessionMutation
<1>1. lease[t].live /\ u \in StorageTabs => u \notin unsettled
  BY DEF LeaseIInv, FenceStands, LeaseStep, OneCleared, Cleared, Holds
<1>2. ASSUME t \in WebLockTabs, u \in WebLockTabs
      PROVE  step[u] \notin {"operating", "fenced"}
  BY <1>2 DEF LeaseIInv, WebLockHeld
<1>3. u \in unsettled /\ u \notin StorageTabs => step[u] \in {"operating", "fenced", "closed"}
  BY DEF LeaseIInv, FenceStands, LeaseStep
<1> QED
  BY <1>1, <1>2, <1>3

\* While an operation runs under a live lease, the server has no request to
\* process that another tab with localStorage sent within the TTL, be that tab
\* running, aborted, suspended or closed; and of two pages with Web Locks none
\* operates beside the other's operation, nor beside the delay that follows an
\* aborted one in a page without storage (runWithRefreshLock).  Two tabs that
\* share neither lock are not spoken of.
THEOREM TabsExclude == LeaseSpec => []OneSessionMutation
<1>1. LeaseIInv => OneSessionMutation
  BY LeaseExcludes
<1> QED
  BY <1>1, LeaseInitInv, LeaseNextInv, PTL DEF LeaseSpec
=============================================================================
