---------------------------- MODULE RefreshLease ----------------------------
(***************************************************************************)
(* The lock between the tabs of one browser (frontend/lib/api.ts): login,  *)
(* refresh and logout change the cookies all tabs share, so a tab runs     *)
(* them inside runWithRefreshLock.  Web Locks give the lock where the page *)
(* has them; every page that has localStorage also publishes a lease       *)
(* there, acquired like a ticket of Lamport's bakery and confirmed after   *)
(* it is marked as held.  Storage operations are atomic one by one, a scan *)
(* of the leases is not.                                                   *)
(*                                                                         *)
(* A tab that runs renews its lease long before it expires; a tab that is  *)
(* suspended or closed, or that gave an aborted request up, does not.      *)
(* Within a page runWithLocalPageLock lets one operation in at a time.     *)
(* A page without localStorage shares the Web Lock with the pages that     *)
(* have one, and no lock at all with a page that only has localStorage.    *)
(***************************************************************************)
EXTENDS Naturals, FiniteSets, FiniteSetsExt

CONSTANTS
  Tabs,            \* numbers: the order of ownerId
  WebLockTabs,     \* pages with navigator.locks
  StorageTabs,     \* pages with a usable localStorage
  MaxOperations,   \* bound: operations started
  MaxSuspensions   \* bound: suspensions of a tab

ASSUME RefreshLeaseAssumption ==
  /\ Tabs \subseteq Nat
  /\ WebLockTabs \subseteq Tabs /\ StorageTabs \subseteq Tabs
  /\ MaxOperations \in Nat /\ MaxSuspensions \in Nat

VARIABLES
  step,         \* where runWithRefreshLock of a tab stands
  lease,        \* the key of a tab in localStorage
  scan,         \* the enumeration in progress: peers to read and what was seen
  passes,       \* conflictFreeScans, or the confirmation scans passed
  unsettled,    \* tabs whose request, sent within the TTL, the server may still process
  webLock,      \* the tab that holds the Web Lock, if any
  suspended, operations, suspensions

leaseVars == <<step, lease, scan, passes, unsettled, webLock, suspended, operations,
               suspensions>>

(* The stored record; live: expiresAt is in the future. *)
NoLease == [choosing |-> FALSE, holding |-> FALSE, ticket |-> 0, live |-> FALSE]
NoScan == [unread |-> {}, top |-> 0, blocked |-> FALSE]

Acquiring == {"claim", "choose", "ticket", "scan", "confirm"}

LeaseInit ==
  /\ step = [t \in Tabs |-> "idle"]
  /\ lease = [t \in Tabs |-> NoLease]
  /\ scan = [t \in Tabs |-> NoScan]
  /\ passes = [t \in Tabs |-> 0]
  /\ unsettled = {}
  /\ webLock = {}
  /\ suspended = {}
  /\ operations = 0
  /\ suspensions = 0

Running(t) == t \notin suspended /\ step[t] # "closed"

FreeWebLock(t) == webLock' = webLock \ {t}

(* A new enumeration of the keys. *)
BeginScan(t) == scan' = [scan EXCEPT ![t] = [NoScan EXCEPT !.unread = StorageTabs \ {t}]]

-----------------------------------------------------------------------------
(* An operation enters runWithRefreshLock; a page without Web Locks goes straight to the lease. *)
RequestLock(t) ==
  /\ Running(t) /\ step[t] = "idle" /\ operations < MaxOperations
  /\ operations' = operations + 1
  /\ step' = [step EXCEPT ![t] = IF t \in WebLockTabs THEN "weblock" ELSE "claim"]
  /\ UNCHANGED <<lease, scan, passes, unsettled, webLock, suspended, suspensions>>

GrantWebLock(t) ==
  /\ step[t] = "weblock" /\ webLock = {} /\ Running(t)
  /\ webLock' = {t}
  /\ step' = [step EXCEPT ![t] = "claim"]
  /\ UNCHANGED <<lease, scan, passes, unsettled, suspended, operations, suspensions>>

(* The wait for the Web Lock is bounded; no other lock domain is tried after it. *)
WebLockTimeout(t) ==
  /\ step[t] = "weblock" /\ Running(t)
  /\ step' = [step EXCEPT ![t] = "idle"]
  /\ UNCHANGED <<lease, scan, passes, webLock, unsettled, suspended, operations, suspensions>>

(* Storage is unavailable: the operation runs under the Web Lock, or under the *)
(* page's own queue only.  Its request leaves the browser like any other.      *)
RunWithoutLease(t) ==
  /\ step[t] = "claim" /\ Running(t) /\ t \notin StorageTabs
  /\ step' = [step EXCEPT ![t] = "operating"]
  /\ unsettled' = unsettled \cup {t}
  /\ UNCHANGED <<lease, scan, passes, webLock, suspended, operations, suspensions>>

(* acquireRefreshLease: choosing is published before any contender is looked *)
(* at.  A live lease of this tab's own is the fence of an aborted request.   *)
PublishChoosing(t) ==
  /\ step[t] = "claim" /\ Running(t) /\ t \in StorageTabs
  /\ IF lease[t].live
       THEN /\ step' = [step EXCEPT ![t] = "idle"]
            /\ FreeWebLock(t)
            /\ UNCHANGED <<lease, scan>>
       ELSE /\ lease' = [lease EXCEPT ![t] = [NoLease EXCEPT !.choosing = TRUE, !.live = TRUE]]
            /\ BeginScan(t)
            /\ step' = [step EXCEPT ![t] = "choose"]
            /\ UNCHANGED webLock
  /\ UNCHANGED <<passes, unsettled, suspended, operations, suspensions>>

(* leasePrecedes: by ticket, then by owner. *)
leasePrecedes(u, t) ==
  \/ lease[u].ticket < lease[t].ticket
  \/ lease[u].ticket = lease[t].ticket /\ u < t

(* What disturbs tab t about the lease of u, while it scans and while it    *)
(* confirms.                                                                *)
Blocks(u, t) ==
  /\ lease[u].live
  /\ \/ lease[u].holding
     \/ step[t] = "scan" /\ (lease[u].choosing \/ leasePrecedes(u, t))

(* readRefreshLeases: one key is read. *)
ReadLease(t, u) ==
  /\ step[t] \in {"choose", "scan", "confirm"} /\ Running(t)
  /\ u \in scan[t].unread
  /\ scan' = [scan EXCEPT ![t] =
       [unread |-> @.unread \ {u},
        top |-> IF step[t] = "choose" /\ lease[u].live THEN Max({@.top, lease[u].ticket})
                                                       ELSE @.top,
        blocked |-> @.blocked \/ (step[t] # "choose" /\ Blocks(u, t))]]
  /\ UNCHANGED <<step, lease, passes, webLock, unsettled, suspended, operations, suspensions>>

(* One ticket more than the largest that was seen. *)
TakeTicket(t) ==
  /\ step[t] = "choose" /\ Running(t) /\ scan[t].unread = {}
  /\ lease' = [lease EXCEPT ![t] = [NoLease EXCEPT !.ticket = scan[t].top + 1,
                                                    !.live = TRUE]]
  /\ BeginScan(t)
  /\ passes' = [passes EXCEPT ![t] = 0]
  /\ step' = [step EXCEPT ![t] = "scan"]
  /\ UNCHANGED <<webLock, unsettled, suspended, operations, suspensions>>

(* The finally of acquireRefreshLease: the claim is withdrawn. *)
Withdraw(t) ==
  /\ lease' = [lease EXCEPT ![t] = NoLease]
  /\ scan' = [scan EXCEPT ![t] = NoScan]
  /\ passes' = [passes EXCEPT ![t] = 0]
  /\ step' = [step EXCEPT ![t] = "idle"]
  /\ FreeWebLock(t)

(* Two scans without a blocker, then the lease is marked as held. *)
EndScan(t) ==
  /\ step[t] = "scan" /\ Running(t) /\ scan[t].unread = {}
  /\ \/ ~lease[t].live /\ Withdraw(t)
     \/ /\ lease[t].live /\ scan[t].blocked
        /\ passes' = [passes EXCEPT ![t] = 0]
        /\ BeginScan(t)
        /\ UNCHANGED <<step, lease, webLock>>
     \/ /\ lease[t].live /\ ~scan[t].blocked /\ passes[t] = 0
        /\ passes' = [passes EXCEPT ![t] = 1]
        /\ BeginScan(t)
        /\ UNCHANGED <<step, lease, webLock>>
     \/ /\ lease[t].live /\ ~scan[t].blocked /\ passes[t] = 1
        /\ lease' = [lease EXCEPT ![t].holding = TRUE]
        /\ passes' = [passes EXCEPT ![t] = 0]
        /\ BeginScan(t)
        /\ step' = [step EXCEPT ![t] = "confirm"]
        /\ UNCHANGED webLock
  /\ UNCHANGED <<unsettled, suspended, operations, suspensions>>

(* keepLease: the operation starts and its request leaves the browser. *)
StartOperation(t) ==
  /\ step' = [step EXCEPT ![t] = "operating"]
  /\ unsettled' = unsettled \cup {t}
  /\ passes' = [passes EXCEPT ![t] = 0]
  /\ scan' = [scan EXCEPT ![t] = NoScan]

(* Two confirmation scans: a competing holder demotes the lease again. *)
EndConfirmation(t) ==
  /\ step[t] = "confirm" /\ Running(t) /\ scan[t].unread = {}
  /\ \/ /\ ~lease[t].live
        /\ Withdraw(t) /\ UNCHANGED unsettled
     \/ /\ lease[t].live /\ scan[t].blocked
        /\ lease' = [lease EXCEPT ![t].holding = FALSE]
        /\ passes' = [passes EXCEPT ![t] = 0]
        /\ BeginScan(t)
        /\ step' = [step EXCEPT ![t] = "scan"]
        /\ UNCHANGED <<webLock, unsettled>>
     \/ /\ lease[t].live /\ ~scan[t].blocked /\ passes[t] = 0
        /\ passes' = [passes EXCEPT ![t] = 1]
        /\ BeginScan(t)
        /\ UNCHANGED <<step, lease, webLock, unsettled>>
     \/ /\ lease[t].live /\ ~scan[t].blocked /\ passes[t] = 1
        /\ StartOperation(t)
        /\ UNCHANGED <<lease, webLock>>
  /\ UNCHANGED <<suspended, operations, suspensions>>

(* Mutant: at the deadline the operation runs without the lease. *)
AcquireTimeout_Proceeds(t) ==
  /\ step[t] \in {"choose", "scan", "confirm"} /\ Running(t)
  /\ StartOperation(t)
  /\ UNCHANGED <<lease, webLock, suspended, operations, suspensions>>

(* The deadline, the caller's signal, or an enumeration that keeps changing. *)
AcquireTimeout(t) ==
  /\ step[t] \in {"choose", "scan", "confirm"} /\ Running(t)
  /\ Withdraw(t)
  /\ UNCHANGED <<unsettled, suspended, operations, suspensions>>

-----------------------------------------------------------------------------
(* The answer arrives: lease and Web Lock are released. *)
Settle(t) ==
  /\ step[t] = "operating" /\ Running(t)
  /\ Withdraw(t)
  /\ unsettled' = unsettled \ {t}
  /\ UNCHANGED <<suspended, operations, suspensions>>

(* The guard aborts: the operation's own timeout, the caller, or a heartbeat *)
(* that finds the lease expired.  The request may still be processed: the    *)
(* lease stays as a fence and is no longer renewed.  A page without storage  *)
(* keeps the Web Lock and its own queue closed for as long instead.          *)
AbortOperation(t) ==
  /\ step[t] = "operating" /\ Running(t)
  /\ \/ /\ t \in StorageTabs
        /\ step' = [step EXCEPT ![t] = "idle"]
        /\ FreeWebLock(t)
     \/ /\ t \notin StorageTabs
        /\ step' = [step EXCEPT ![t] = "fenced"]
        /\ UNCHANGED webLock
  /\ UNCHANGED <<lease, scan, passes, unsettled, suspended, operations, suspensions>>

(* The delay of REFRESH_LEASE_TTL_MS is over: the request was sent longer ago. *)
FenceEnds(t) ==
  /\ step[t] = "fenced" /\ Running(t)
  /\ step' = [step EXCEPT ![t] = "idle"]
  /\ FreeWebLock(t)
  /\ unsettled' = unsettled \ {t}
  /\ UNCHANGED <<lease, scan, passes, suspended, operations, suspensions>>

(* The server is done with a request nobody waits for any more. *)
RequestProcessed(t) ==
  /\ t \in unsettled /\ step[t] # "operating"
  /\ unsettled' = unsettled \ {t}
  /\ UNCHANGED <<step, lease, scan, passes, webLock, suspended, operations, suspensions>>

(* releaseRefreshLeaseAfterExpiry *)
ReleaseExpired(t) ==
  /\ step[t] = "idle" /\ Running(t) /\ lease[t] # NoLease /\ ~lease[t].live
  /\ lease' = [lease EXCEPT ![t] = NoLease]
  /\ UNCHANGED <<step, scan, passes, webLock, unsettled, suspended, operations, suspensions>>

-----------------------------------------------------------------------------
Suspend(t) ==
  /\ Running(t) /\ suspensions < MaxSuspensions
  /\ suspensions' = suspensions + 1
  /\ suspended' = suspended \cup {t}
  /\ UNCHANGED <<step, lease, scan, passes, unsettled, webLock, operations>>

Resume(t) ==
  /\ t \in suspended
  /\ suspended' = suspended \ {t}
  /\ UNCHANGED <<step, lease, scan, passes, unsettled, webLock, operations, suspensions>>

(* The browser frees the Web Lock of a closed page; its lease stays. *)
CloseTab(t) ==
  /\ step[t] # "closed" /\ step[t] # "idle"
  /\ step' = [step EXCEPT ![t] = "closed"]
  /\ FreeWebLock(t)
  /\ scan' = [scan EXCEPT ![t] = NoScan]
  /\ passes' = [passes EXCEPT ![t] = 0]
  /\ suspended' = suspended \ {t}
  /\ UNCHANGED <<lease, unsettled, operations, suspensions>>

(* REFRESH_LEASE_TTL_MS passes without a renewal.  A waiting tab gives up   *)
(* after half of it, so only a tab that does not run, or a fence, expires.  *)
ExpireLease(t) ==
  /\ lease[t].live
  /\ t \in suspended \/ step[t] \in {"closed", "idle"}
  /\ lease' = [lease EXCEPT ![t].live = FALSE]
  /\ unsettled' = unsettled \ {t}
  /\ UNCHANGED <<step, scan, passes, webLock, suspended, operations, suspensions>>

-----------------------------------------------------------------------------
LeaseNext ==
  \E t \in Tabs :
    \/ RequestLock(t) \/ GrantWebLock(t) \/ WebLockTimeout(t) \/ RunWithoutLease(t)
    \/ PublishChoosing(t) \/ (\E u \in Tabs : ReadLease(t, u))
    \/ TakeTicket(t) \/ EndScan(t) \/ EndConfirmation(t) \/ AcquireTimeout(t)
    \/ Settle(t) \/ AbortOperation(t) \/ FenceEnds(t) \/ RequestProcessed(t)
    \/ ReleaseExpired(t)
    \/ Suspend(t) \/ Resume(t) \/ CloseTab(t) \/ ExpireLease(t)

LeaseSpec == LeaseInit /\ [][LeaseNext]_leaseVars

-----------------------------------------------------------------------------
(* Every variable has its type. *)
LeaseTypeOK ==
  /\ step \in [Tabs -> Acquiring \cup {"idle", "weblock", "operating", "fenced", "closed"}]
  /\ lease \in [Tabs -> [choosing : BOOLEAN, holding : BOOLEAN,
                         ticket : 0..(MaxOperations + 1), live : BOOLEAN]]
  /\ scan \in [Tabs -> [unread : SUBSET Tabs, top : Nat, blocked : BOOLEAN]]
  /\ passes \in [Tabs -> 0..1]
  /\ unsettled \subseteq Tabs /\ webLock \subseteq Tabs
  /\ suspended \subseteq Tabs
  /\ operations \in 0..MaxOperations /\ suspensions \in 0..MaxSuspensions

(* Two tabs that share a lock keep their session requests apart.  Both with    *)
(* localStorage: no operation runs under a live lease while the server may     *)
(* still process a request the other tab sent less than the TTL ago, be it     *)
(* running, aborted or left behind by a closed tab.  Both with Web Locks: they *)
(* never operate together, nor does one operate while the other, without       *)
(* storage, has a request of that age out and its page open.  A tab with       *)
(* localStorage only and one with Web Locks only (or with neither) share no    *)
(* lock, and nothing is said of them.                                          *)
OneSessionMutation ==
  \A t, u \in Tabs :
    t # u /\ step[t] = "operating" =>
      /\ lease[t].live /\ u \in StorageTabs => u \notin unsettled
      /\ {t, u} \subseteq WebLockTabs =>
           /\ step[u] \notin {"operating", "fenced"}
           /\ u \in unsettled => u \in StorageTabs \/ step[u] = "closed"
=============================================================================
