----------------------------- MODULE AuditPolicy -----------------------------
(***************************************************************************)
(* .github/scripts/check-npm-audit.mjs: npm's report on the production     *)
(* dependencies of a project is compared with a list of dated exceptions.  *)
(*                                                                         *)
(* A report gives each vulnerable package a severity and its causes:       *)
(* concrete advisories, and names of packages it depends on, possibly in a *)
(* circle.                                                                 *)
(***************************************************************************)
EXTENDS Naturals, Sequences, FiniteSets

CONSTANTS
  AuditedPackages,
  ListedEntries     \* the exceptions that may be on the list

SeverityRank == [info |-> 0, low |-> 1, moderate |-> 2, high |-> 3, critical |-> 4]
Severe(severity) == SeverityRank[severity] >= SeverityRank["high"]

ASSUME AuditAssumption ==
  /\ IsFiniteSet(AuditedPackages)
  /\ ListedEntries \subseteq
       [advisory : {"ghsa", "malformed"}, package : AuditedPackages \union {"none"},
        maxSeverity : {"high", "other"}, reference : {"documented", "dangling", "unsafe", "none"},
        expires : {"later", "past", "unreadable"}]

-----------------------------------------------------------------------------
(* Reports *)

(* normalizeConcreteAdvisory: an advisory without a GHSA url is keyed by npm. *)
ConcreteAdvisories ==
  [id : {"ghsa", "npm"}, package : AuditedPackages, severity : {"moderate", "high", "critical"}]

Unaffected == [severity |-> "info", advisories |-> {}, via |-> {}]
Vulnerabilities(p) ==
  {[severity |-> s, advisories |-> a, via |-> v] :
     s \in {"moderate", "high"},
     a \in {{}} \union {{c} : c \in {d \in ConcreteAdvisories : d.package = p}},
     v \in SUBSET (AuditedPackages \ {p})} \union {Unaffected}
AuditReports ==
  {r \in [AuditedPackages -> UNION {Vulnerabilities(p) : p \in AuditedPackages}] :
     \A p \in AuditedPackages : r[p] \in Vulnerabilities(p)}
Allowlists == UNION {[1 .. n -> ListedEntries] : n \in 0 .. 2}

collectConcreteAdvisories(report) == UNION {report[p].advisories : p \in AuditedPackages}

(* The walk from a package along its causes, one level at a time.  A package *)
(* visited before adds nothing, so the levels after the last are all alike.   *)
Reached(report, p) ==
  LET walk[n \in Nat] ==
        IF n = 0 THEN {p} ELSE UNION {{q} \union report[q].via : q \in walk[n - 1]}
  IN  walk[Cardinality(AuditedPackages)]

resolveConcreteAdvisories(report, p) ==
  UNION {report[q].advisories : q \in Reached(report, p)}

-----------------------------------------------------------------------------
(* Failures, one token each *)

KeyOf(entry) == <<entry.package, entry.advisory>>

(* An expired entry still covers its advisory: the expiry is a failure by itself. *)
Usable(entry) ==
  /\ entry.package # "none" /\ entry.maxSeverity = "high"
  /\ entry.reference # "none" /\ entry.expires # "unreadable"

BadEntry(entries, i) ==
  \/ entries[i].advisory # "ghsa" \/ entries[i].package = "none" \/ entries[i].maxSeverity # "high"
  \/ entries[i].reference \in {"unsafe", "none"} \/ entries[i].expires \in {"past", "unreadable"}
  \/ \E j \in 1 .. i - 1 : Usable(entries[j]) /\ KeyOf(entries[j]) = KeyOf(entries[i])

validateAllowlist(entries) == {<<"entry", i>> : i \in {j \in DOMAIN entries : BadEntry(entries, j)}}

validateReferenceTargets(entries) ==
  {<<"reference", i>> : i \in {j \in DOMAIN entries : entries[j].reference = "dangling"}}

evaluateAuditPolicy(report, entries) ==
  LET allowlist == {KeyOf(entries[i]) : i \in {j \in DOMAIN entries : Usable(entries[j])}}
      severe == {a \in collectConcreteAdvisories(report) : Severe(a.severity)}
      Key(a) == <<a.package, a.id>>
      unlisted == {a \in severe : a.id # "ghsa" \/ Key(a) \notin allowlist}
      escalated == {a \in severe \ unlisted : a.severity = "critical"}
      rootless == {p \in AuditedPackages :
                     /\ Severe(report[p].severity)
                     /\ ~\E a \in resolveConcreteAdvisories(report, p) : Severe(a.severity)}
      unmatched == allowlist \ {Key(a) : a \in severe}
  IN  validateAllowlist(entries)
        \union {<<"advisory", a>> : a \in unlisted \union escalated}
        \union {<<"rootless", p>> : p \in rootless} \union {<<"unused", k>> : k \in unmatched}

runAudit(report, entries) == evaluateAuditPolicy(report, entries) \union validateReferenceTargets(entries) = {}

-----------------------------------------------------------------------------
(* A dependency, through any number of packages. *)
DependsOn(report, p, q) ==
  \A closed \in SUBSET AuditedPackages :
    p \in closed /\ (\A x \in closed : report[x].via \subseteq closed) => q \in closed

(* What passing has to mean, without the script's bookkeeping: every severe    *)
(* advisory is a GHSA advisory of severity high with exactly one exception, in *)
(* date and documented; every exception is for such an advisory; every severe  *)
(* package depends, through any number of packages, on one that has one.       *)
AuditCovered(report, entries) ==
  LET severe == {a \in collectConcreteAdvisories(report) : Severe(a.severity)}
      For(a) == {i \in DOMAIN entries : KeyOf(entries[i]) = <<a.package, "ghsa">>}
      Sound(entry) == entry.maxSeverity = "high" /\ entry.reference = "documented" /\ entry.expires = "later"
  IN  /\ \A a \in severe : /\ a.id = "ghsa" /\ a.severity = "high"
                           /\ Cardinality(For(a)) = 1 /\ \A i \in For(a) : Sound(entries[i])
      /\ \A i \in DOMAIN entries : \E a \in severe : i \in For(a)
      /\ \A p \in AuditedPackages : Severe(report[p].severity) =>
           \E a \in severe : DependsOn(report, p, a.package)

(* The ways an audit can go: whether the script passes, and whether it should. *)
AuditOutcomes ==
  {[passes |-> runAudit(r, entries), covered |-> AuditCovered(r, entries)] :
     r \in AuditReports, entries \in Allowlists}
=============================================================================
