----------------------------- MODULE ReleaseGate -----------------------------
(***************************************************************************)
(* The release gate, scripts/verify-all.mjs: it runs a plan of steps over  *)
(* a checkout that a developer keeps editing, starts disposable containers *)
(* for the backend's steps, stops at the first step that does not pass,    *)
(* removes its containers whatever happened and turns the results into an  *)
(* exit code. The freeze steps are the guard of FreezeGuard, the audits of *)
(* the three projects the script of AuditPolicy.                           *)
(*                                                                         *)
(* One step stands for each group of consecutive commands with the same    *)
(* environment and outcomes.  A signal kills the script: it handles none.  *)
(***************************************************************************)
EXTENDS FreezeGuard, AuditPolicy

CONSTANTS
  SectionChoices,   \* the --only lists tried
  EditKinds,        \* the lines a developer types
  MaxTreeEdits      \* bound on edits of the checkout

VARIABLES
  headTree, indexTree, workTree,  \* the three trees the guard compares with the base
  treeEdits,          \* edits made
  verification,               \* the run: phase, options, position, results, services, exit code
  containers,         \* the run's containers that exist
  freezeChecked,            \* the trees the last passing freeze step saw
  audited             \* the reports of the passing audits are covered by exceptions

treeVars == <<headTree, indexTree, workTree, treeEdits>>
gateVars == <<headTree, indexTree, workTree, treeEdits, verification, containers, freezeChecked, audited>>

ALL_SECTIONS == {"policy", "backend", "frontend", "release"}
Containers == {"postgres", "redis"}

ASSUME GateAssumption ==
  /\ SectionChoices \subseteq (SUBSET ALL_SECTIONS) \ {{}} /\ EditKinds \subseteq LineKinds
  /\ MaxTreeEdits \in Nat

-----------------------------------------------------------------------------
(* The checkout *)

Trees == [frozen : Texts, mixed : Seq(LineKinds), migration : Texts, source : Texts]

(* One edit of the mixed file: a line typed, removed or moved. *)
EditedTexts(lines) ==
  LET Typed == {SubSeq(lines, 1, i) \o <<k>> \o SubSeq(lines, i + 1, Len(lines)) :
                  i \in 0 .. Len(lines), k \in EditKinds}
      Without(i) == SubSeq(lines, 1, i - 1) \o SubSeq(lines, i + 1, Len(lines))
      Moved == {SubSeq(Without(i), 1, j) \o <<lines[i]>> \o SubSeq(Without(i), j + 1, Len(lines) - 1) :
                  i \in DOMAIN lines, j \in 0 .. Len(lines) - 1}
  IN  Typed \union {Without(i) : i \in DOMAIN lines} \union Moved

(* Edits after the run is over cannot matter to it. *)
InUse == verification.phase \in {"idle", "running"}

Edit ==
  /\ InUse /\ treeEdits < MaxTreeEdits
  /\ treeEdits' = treeEdits + 1
  /\ \/ \E lines \in EditedTexts(workTree.mixed) \union {<<>>} : workTree' = [workTree EXCEPT !.mixed = lines]
     \/ \E p \in {"frozen", "migration", "source"}, t \in Texts : workTree' = [workTree EXCEPT ![p] = t]
  /\ UNCHANGED <<headTree, indexTree, verification, containers, freezeChecked, audited>>

Stage ==
  /\ InUse /\ indexTree # workTree /\ indexTree' = workTree
  /\ UNCHANGED <<headTree, workTree, treeEdits, verification, containers, freezeChecked,
                 audited>>

CommitIndex ==
  /\ InUse /\ headTree # indexTree /\ headTree' = indexTree
  /\ UNCHANGED <<indexTree, workTree, treeEdits, verification, containers, freezeChecked,
                 audited>>

-----------------------------------------------------------------------------
(* The plan *)

commandStep(section, environment) == [section |-> section, environment |-> environment, type |-> "command"]
internalStep(section, type) == [section |-> section, environment |-> "local", type |-> type]

PolicyAndBackendSteps ==
  << commandStep("policy", "local"),
     internalStep("policy", "freeze"),
     [commandStep("policy", "local") EXCEPT !.type = "audit"],
     commandStep("backend", "local"),
     internalStep("backend", "start-services"),
     commandStep("backend", "backend-test") >>

FrontendAndReleaseSteps ==
  << commandStep("frontend", "frontend"),
     commandStep("release", "compose"),
     internalStep("release", "gitleaks"),
     internalStep("release", "freeze") >>

FullPlan == <<internalStep("preflight", "version")>> \o PolicyAndBackendSteps \o FrontendAndReleaseSteps

createPlan(sections) ==
  Subsequence(FullPlan, {i \in DOMAIN FullPlan : FullPlan[i].section \in sections \union {"preflight"}})

IdleGate ==
  [phase |-> "idle", sections |-> {}, at |-> 0, results |-> <<>>, started |-> {}, services |-> FALSE, exit |-> 0]

(* --list, --dry-run and --help only print; a bad argument exits with 2. *)
parseArguments ==
  /\ verification.phase = "idle"
  /\ \/ \E chosen \in SectionChoices :
          verification' = [verification EXCEPT !.phase = "running", !.sections = chosen, !.at = 1]
     \/ \E code \in {0, 2} : verification' = [verification EXCEPT !.phase = "printed", !.exit = code]
  /\ UNCHANGED <<treeVars, containers, freezeChecked, audited>>

-----------------------------------------------------------------------------
(* Steps *)

Plan == createPlan(verification.sections)
Step == Plan[verification.at]
AtStep(type) == verification.phase = "running" /\ verification.at <= Len(Plan) /\ Step.type = type

(* A result is recorded; after one that is not PASS the rest of the plan is *)
(* marked BLOCKED and the run goes to its cleanup.                          *)
Recorded(g, result) ==
  LET skipped == [n \in 1 .. Len(Plan) - g.at |-> "BLOCKED"]
  IN  IF result = "PASS" /\ g.at < Len(Plan)
      THEN [g EXCEPT !.at = @ + 1, !.results = Append(@, result)]
      ELSE [g EXCEPT !.phase = "cleanup",
                     !.results = Append(@, result) \o (IF result = "PASS" THEN <<>> ELSE skipped)]

environmentFor == Step.environment = "backend-test" => verification.services

(* A command that cannot be spawned blocks the gate; its exit code decides else. *)
spawnCommand == {"PASS", "FAIL", "BLOCKED"}

(* Gitleaks is downloaded (or the archive of an earlier run read), its checksum *)
(* compared and the binary extracted again: any of it may fail or block.        *)
ensureGitleaks == {"PASS", "FAIL", "BLOCKED"}

executeStep ==
  /\ \/ /\ AtStep("command")
        /\ \E result \in IF environmentFor THEN spawnCommand ELSE {"BLOCKED"} :
             verification' = Recorded(verification, result)
     \/ /\ AtStep("version")
        /\ \E result \in {"PASS", "BLOCKED"} : verification' = Recorded(verification, result)
     \/ /\ AtStep("gitleaks")
        /\ \E result \in ensureGitleaks :
             \E outcome \in IF result = "PASS" THEN spawnCommand ELSE {result} :
               verification' = Recorded(verification, outcome)
  /\ UNCHANGED <<treeVars, containers, freezeChecked, audited>>

(* The guard reports violations (exit 1), or a git command, the base or the *)
(* configuration fails it safe (exit 2).                                    *)
safeFailure == verification' = Recorded(verification, "FAIL") /\ UNCHANGED freezeChecked

FreezeStep ==
  /\ AtStep("freeze")
  /\ \/ /\ checkFinancialFreeze(headTree, indexTree, workTree)
        /\ freezeChecked' = {headTree, indexTree, TrackedWork(indexTree, workTree)}
        /\ verification' = Recorded(verification, "PASS")
     \/ safeFailure
  /\ UNCHANGED <<treeVars, containers, audited>>

(* An audit that did not run, or whose output is no report, fails as well. *)
parseAuditProcessResult == {"FAIL", "BLOCKED"}

AuditStep ==
  /\ AtStep("audit")
  /\ \/ \E outcome \in AuditOutcomes :
          /\ verification' = Recorded(verification, IF outcome.passes THEN "PASS" ELSE "FAIL")
          /\ audited' = outcome.covered
     \/ /\ \E result \in parseAuditProcessResult : verification' = Recorded(verification, result)
        /\ UNCHANGED audited
  /\ UNCHANGED <<treeVars, containers, freezeChecked>>

(* docker rm --force of both names: it removes them or fails. *)
stopIsolatedServices(succeeds) == containers' = IF succeeds THEN {} ELSE containers

(* docker version, then the two containers, then health and ports.  An error *)
(* after docker answered removes what was started, ignoring how that goes.   *)
startIsolatedServices ==
  /\ AtStep("start-services") /\ ~verification.services
  /\ \/ /\ verification.started = {}
        /\ verification' = Recorded(verification, "BLOCKED") /\ UNCHANGED containers
     \/ \E c \in Containers \ verification.started :
          /\ c = "redis" => "postgres" \in verification.started
          /\ containers' = containers \union {c}
          /\ verification' = [verification EXCEPT !.started = @ \union {c}]
     \/ \E removed \in BOOLEAN :
          /\ stopIsolatedServices(removed)
          /\ verification' = Recorded(verification, "FAIL")
     \/ /\ verification.started = Containers
        /\ verification' = Recorded([verification EXCEPT !.services = TRUE], "PASS")
        /\ UNCHANGED containers
  /\ UNCHANGED <<treeVars, freezeChecked, audited>>

(* The finally block and the exit code. *)
ExitCode(results, cleanup) ==
  IF cleanup # "PASS" \/ \E i \in DOMAIN results : results[i] = "FAIL" THEN 1
  ELSE IF \E i \in DOMAIN results : results[i] # "PASS" THEN 2 ELSE 0

runVerification ==
  /\ verification.phase = "cleanup"
  /\ IF verification.services
     THEN \E cleanup \in {"PASS", "FAIL", "BLOCKED"} :
            /\ stopIsolatedServices(cleanup = "PASS")
            /\ verification' = [verification EXCEPT !.phase = "done", !.exit = ExitCode(verification.results, cleanup)]
     ELSE /\ verification' = [verification EXCEPT !.phase = "done", !.exit = ExitCode(verification.results, "PASS")]
          /\ UNCHANGED containers
  /\ UNCHANGED <<treeVars, freezeChecked, audited>>

(* A signal: nothing is cleaned up. *)
Interrupt ==
  /\ verification.phase \in {"running", "cleanup"}
  /\ verification' = [verification EXCEPT !.phase = "killed"]
  /\ UNCHANGED <<treeVars, containers, freezeChecked, audited>>

-----------------------------------------------------------------------------

GateInit ==
  /\ headTree = BaseTree /\ indexTree = BaseTree /\ workTree = BaseTree /\ treeEdits = 0
  /\ verification = IdleGate /\ containers = {} /\ freezeChecked = {} /\ audited = FALSE

GateNext ==
  \/ Edit \/ Stage \/ CommitIndex
  \/ parseArguments \/ executeStep \/ FreezeStep \/ AuditStep \/ startIsolatedServices
  \/ runVerification \/ Interrupt

GateSpec == GateInit /\ [][GateNext]_gateVars

(* Type invariant. *)
GateTypeOK ==
  /\ {headTree, indexTree, workTree} \union freezeChecked \subseteq Trees
  /\ treeEdits \in 0 .. MaxTreeEdits
  /\ verification.phase \in {"idle", "printed", "running", "cleanup", "done", "killed"}
  /\ audited \in BOOLEAN /\ verification.exit \in 0 .. 2 /\ containers \subseteq Containers

(* A gate that exits 0 vouches for the checkout: if it ran the policy or the  *)
(* release section, every tree the last freeze step compared (HEAD, the       *)
(* index, the tracked working tree) keeps the financial freeze, however lines *)
(* were typed, removed, moved, staged or committed while the gate ran; if it  *)
(* ran the policy section, every severe advisory it was shown has its dated   *)
(* exception, and no exception is left over; and a run that exits with        *)
(* anything but 1 has left none of its containers behind, whichever step,     *)
(* start or cleanup failed.                                                   *)
GreenGateVouches ==
  verification.phase = "done" =>
    /\ verification.exit # 1 => containers = {}
    /\ verification.exit = 0 /\ verification.sections \intersect {"policy", "release"} # {} =>
         freezeChecked # {} /\ \A tree \in freezeChecked : KeepsFreeze(tree)
    /\ verification.exit = 0 /\ "policy" \in verification.sections => audited
=============================================================================
