---------------------------- MODULE SecurityLinks ----------------------------
(***************************************************************************)
(* The links an account receives by email: auth/verification.service.ts    *)
(* (verify the address, reset the password), auth/email-change.service.ts, *)
(* auth/step-up.service.ts and the routes that redeem them.                *)
(*                                                                         *)
(* A link is a record in Redis or a row, bound to what the account was     *)
(* when it was issued: address, email generation, password generation,     *)
(* session version.  Issuing, redeeming and changing the account overlap.  *)
(***************************************************************************)
EXTENDS Naturals, FiniteSets

CONSTANTS
  Addresses,        \* email addresses the account may have
  FirstAddress,     \* the address it was registered with
  Resets,           \* requests for a password reset
  MaxSessionVersion,  \* bound: changes of the password from a session
  MaxEmailChanges,  \* bound: requests for another address
  MaxLinkFaults     \* bound: mails and Redis calls that fail

NoOne == "none"

ASSUME LinksAssumption ==
  /\ FirstAddress \in Addresses
  /\ NoOne \notin Resets
  /\ MaxSessionVersion \in Nat /\ MaxEmailChanges \in Nat /\ MaxLinkFaults \in Nat

VARIABLES
  account,       \* the row of users
  verifyTokens,  \* email_verify: records
  redeeming,     \* verification records taken from Redis and not yet applied
  reset,         \* per request: progress and the record it carries
  resetTokens,   \* requests whose pwd_reset: record exists
  activeReset,   \* pwd_reset_active: the request it names, if any
  passwordForm,  \* POST /me/password: the password generation it read
  proofs,        \* step_up: records, by session version
  emailChange,   \* the row of user_email_change_requests
  emailChanges, linkFaults

linkVars == <<account, verifyTokens, redeeming, reset, resetTokens, activeReset,
              passwordForm, proofs, emailChange, emailChanges, linkFaults>>

NoChange == [pc |-> "none"]

LinksInit ==
  /\ account = [email |-> FirstAddress, emailGeneration |-> 1, verified |-> FALSE,
                passwordGeneration |-> 1, sessionVersion |-> 1]
  /\ verifyTokens = {} /\ redeeming = {}
  /\ reset = [r \in Resets |-> [pc |-> "none", passwordGeneration |-> 0, emailGeneration |-> 0]]
  /\ resetTokens = {} /\ activeReset = NoOne
  /\ passwordForm = 0
  /\ proofs = {} /\ emailChange = NoChange /\ emailChanges = 0
  /\ linkFaults = 0

LinkFault ==
  /\ linkFaults < MaxLinkFaults
  /\ linkFaults' = linkFaults + 1

-----------------------------------------------------------------------------
(* Verifying the address *)

(* POST /verify-email/request, and registration: a link for the address and *)
(* generation the account has now.                                          *)
issueEmailVerificationToken ==
  /\ ~account.verified
  /\ verifyTokens' = verifyTokens \cup
       {[email |-> account.email, emailGeneration |-> account.emailGeneration]}
  /\ UNCHANGED <<account, redeeming, reset, resetTokens, activeReset, passwordForm, proofs,
                 emailChange, emailChanges, linkFaults>>

(* The script reads and deletes the record in one step: one caller has it. *)
consumeEmailVerificationToken(t) ==
  /\ t \in verifyTokens
  /\ verifyTokens' = verifyTokens \ {t}
  /\ redeeming' = redeeming \cup {t}
  /\ UNCHANGED <<account, reset, resetTokens, activeReset, passwordForm, proofs, emailChange,
                 emailChanges, linkFaults>>

(* POST /verify-email/confirm: the account must still have that address and *)
(* that generation.                                                         *)
ConfirmAddress(t) ==
  /\ t \in redeeming
  /\ redeeming' = redeeming \ {t}
  /\ account' = [account EXCEPT !.verified =
       @ \/ (t.email = account.email /\ t.emailGeneration = account.emailGeneration)]
  /\ UNCHANGED <<verifyTokens, reset, resetTokens, activeReset, passwordForm, proofs,
                 emailChange, emailChanges, linkFaults>>

-----------------------------------------------------------------------------
(* Resetting the password *)

(* issuePasswordResetToken commits a new password generation first. *)
BeginReset(r) ==
  /\ reset[r].pc = "none"
  /\ account' = [account EXCEPT !.passwordGeneration = @ + 1]
  /\ reset' = [reset EXCEPT ![r] = [pc |-> "epoch",
                                    passwordGeneration |-> account.passwordGeneration + 1,
                                    emailGeneration |-> account.emailGeneration]]
  /\ UNCHANGED <<verifyTokens, redeeming, resetTokens, activeReset, passwordForm, proofs,
                 emailChange, emailChanges, linkFaults>>

(* Mutant: the last caller of the script wins. *)
StoreReset_LastWins(r) ==
  /\ reset[r].pc = "epoch"
  /\ resetTokens' = (resetTokens \ {activeReset}) \cup {r}
  /\ activeReset' = r
  /\ reset' = [reset EXCEPT ![r].pc = "stored"]
  /\ UNCHANGED <<account, verifyTokens, redeeming, passwordForm, proofs, emailChange,
                 emailChanges, linkFaults>>

(* ISSUE_PASSWORD_RESET_SCRIPT ranks concurrent issuers by their generation: *)
(* a late one does not replace a newer link.  Redis may also be down.        *)
StoreReset(r) ==
  /\ reset[r].pc = "epoch"
  /\ \/ /\ activeReset # NoOne
        /\ reset[activeReset].passwordGeneration >= reset[r].passwordGeneration
        /\ reset' = [reset EXCEPT ![r].pc = "failed"]
        /\ UNCHANGED <<resetTokens, activeReset, linkFaults>>
     \/ /\ \/ activeReset = NoOne
           \/ /\ activeReset # NoOne
              /\ reset[activeReset].passwordGeneration < reset[r].passwordGeneration
        /\ resetTokens' = (resetTokens \ {activeReset}) \cup {r}
        /\ activeReset' = r
        /\ reset' = [reset EXCEPT ![r].pc = "stored"]
        /\ UNCHANGED linkFaults
     \/ /\ LinkFault
        /\ reset' = [reset EXCEPT ![r].pc = "failed"]
        /\ UNCHANGED <<resetTokens, activeReset>>
  /\ UNCHANGED <<account, verifyTokens, redeeming, passwordForm, proofs, emailChange,
                 emailChanges>>

SameIdentity(r) ==
  /\ account.passwordGeneration = reset[r].passwordGeneration
  /\ account.emailGeneration = reset[r].emailGeneration

(* The account is read once more: the link is mailed, or taken back. *)
RecheckReset(r) ==
  /\ reset[r].pc = "stored"
  /\ IF SameIdentity(r)
       THEN /\ reset' = [reset EXCEPT ![r].pc = "mailed"]
            /\ UNCHANGED <<resetTokens, activeReset>>
       ELSE /\ reset' = [reset EXCEPT ![r].pc = "failed"]
            /\ resetTokens' = resetTokens \ {r}
            /\ activeReset' = IF activeReset = r THEN NoOne ELSE activeReset
  /\ UNCHANGED <<account, verifyTokens, redeeming, passwordForm, proofs, emailChange,
                 emailChanges, linkFaults>>

(* CONSUME_PASSWORD_RESET_SCRIPT: the record of the active link, once; that of *)
(* another is deleted.                                                         *)
consumePasswordResetToken(r) ==
  /\ reset[r].pc = "mailed"
  /\ reset' = [reset EXCEPT ![r].pc = IF r \in resetTokens /\ activeReset = r
                                        THEN "hashing" ELSE "failed"]
  /\ resetTokens' = resetTokens \ {r}
  /\ activeReset' = IF activeReset = r THEN NoOne ELSE activeReset
  /\ UNCHANGED <<account, verifyTokens, redeeming, passwordForm, proofs, emailChange,
                 emailChanges, linkFaults>>

(* POST /password/reset after the hash: the generations must be the record's. *)
ApplyReset(r) ==
  /\ reset[r].pc = "hashing"
  /\ reset' = [reset EXCEPT ![r].pc = IF SameIdentity(r) THEN "applied" ELSE "failed"]
  /\ account' = IF SameIdentity(r)
                  THEN [account EXCEPT !.passwordGeneration = @ + 1, !.sessionVersion = @ + 1]
                  ELSE account
  /\ UNCHANGED <<verifyTokens, redeeming, resetTokens, activeReset, passwordForm, proofs,
                 emailChange, emailChanges, linkFaults>>

(* POST /me/password reads the generation, hashes, and updates if it stands. *)
ReadPassword ==
  /\ passwordForm = 0 /\ account.sessionVersion < MaxSessionVersion
  /\ passwordForm' = account.passwordGeneration
  /\ UNCHANGED <<account, verifyTokens, redeeming, reset, resetTokens, activeReset, proofs,
                 emailChange, emailChanges, linkFaults>>

ChangePassword ==
  /\ passwordForm # 0
  /\ passwordForm' = 0
  /\ account' = IF passwordForm = account.passwordGeneration
                  THEN [account EXCEPT !.passwordGeneration = @ + 1, !.sessionVersion = @ + 1]
                  ELSE account
  /\ UNCHANGED <<verifyTokens, redeeming, reset, resetTokens, activeReset, proofs,
                 emailChange, emailChanges, linkFaults>>

-----------------------------------------------------------------------------
(* Changing the address *)

(* createStepUpToken: a proof bound to the session version. *)
createStepUpToken ==
  /\ proofs' = proofs \cup {account.sessionVersion}
  /\ UNCHANGED <<account, verifyTokens, redeeming, reset, resetTokens, activeReset,
                 passwordForm, emailChange, emailChanges, linkFaults>>

(* requestEmailChange: consumes the proof of the caller's session version,  *)
(* replaces the row under the user's lock, then mails both addresses.       *)
requestEmailChange(e, sv) ==
  /\ sv \in proofs /\ emailChanges < MaxEmailChanges
  /\ proofs' = proofs \ {sv}
  /\ emailChanges' = emailChanges + 1
  /\ emailChange' = IF sv = account.sessionVersion /\ e # account.email
                      THEN [pc |-> "sending", email |-> e, sessionVersion |-> sv]
                      ELSE emailChange
  /\ UNCHANGED <<account, verifyTokens, redeeming, reset, resetTokens, activeReset,
                 passwordForm, linkFaults>>

(* Both mails went out, or the row is deleted. *)
DeliverEmailChange ==
  /\ emailChange.pc = "sending"
  /\ \/ emailChange' = [emailChange EXCEPT !.pc = "delivered"] /\ UNCHANGED linkFaults
     \/ LinkFault /\ emailChange' = NoChange
  /\ UNCHANGED <<account, verifyTokens, redeeming, reset, resetTokens, activeReset,
                 passwordForm, proofs, emailChanges>>

(* confirmEmailChange: delivered, and requested under the session version the *)
(* account still has.  The new address is verified by the link itself.        *)
confirmEmailChange ==
  /\ emailChange.pc = "delivered"
  /\ emailChange.sessionVersion = account.sessionVersion
  /\ account' = [account EXCEPT !.email = emailChange.email, !.verified = TRUE,
                                !.emailGeneration = @ + 1, !.sessionVersion = @ + 1]
  /\ emailChange' = NoChange
  /\ UNCHANGED <<verifyTokens, redeeming, reset, resetTokens, activeReset, passwordForm,
                 proofs, emailChanges, linkFaults>>

(* A request past its time is as good as none. *)
ExpireEmailChange ==
  /\ emailChange.pc = "delivered"
  /\ emailChange' = NoChange
  /\ UNCHANGED <<account, verifyTokens, redeeming, reset, resetTokens, activeReset,
                 passwordForm, proofs, emailChanges, linkFaults>>

-----------------------------------------------------------------------------
LinksNext ==
  \/ issueEmailVerificationToken
  \/ \E t \in verifyTokens : consumeEmailVerificationToken(t)
  \/ \E t \in redeeming : ConfirmAddress(t)
  \/ \E r \in Resets : \/ BeginReset(r) \/ StoreReset(r) \/ RecheckReset(r)
                       \/ consumePasswordResetToken(r) \/ ApplyReset(r)
  \/ ReadPassword \/ ChangePassword
  \/ createStepUpToken
  \/ \E e \in Addresses, sv \in proofs : requestEmailChange(e, sv)
  \/ DeliverEmailChange \/ confirmEmailChange \/ ExpireEmailChange

LinksSpec == LinksInit /\ [][LinksNext]_linkVars

-----------------------------------------------------------------------------
(* Every variable has its type. *)
LinksTypeOK ==
  /\ account \in [email : Addresses, emailGeneration : Nat, verified : BOOLEAN,
                  passwordGeneration : Nat, sessionVersion : Nat]
  /\ verifyTokens \cup redeeming \subseteq [email : Addresses, emailGeneration : Nat]
  /\ reset \in [Resets -> [pc : {"none", "epoch", "stored", "mailed", "hashing", "applied",
                                 "failed"},
                           passwordGeneration : Nat, emailGeneration : Nat]]
  /\ resetTokens \subseteq Resets /\ activeReset \in Resets \cup {NoOne}
  /\ passwordForm \in Nat /\ proofs \subseteq Nat
  /\ emailChange.pc \in {"none", "sending", "delivered"}
  /\ emailChanges \in 0..MaxEmailChanges /\ linkFaults \in 0..MaxLinkFaults

(* The newest reset link that was mailed can be redeemed as long as the       *)
(* account has not changed since, however late an older request reaches Redis *)
(* or is taken back.                                                          *)
NewestLinkWorks ==
  \A r \in Resets : reset[r].pc = "mailed" /\ SameIdentity(r) =>
                       r \in resetTokens /\ activeReset = r
=============================================================================
