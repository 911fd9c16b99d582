----------------------------- MODULE FreezeGuard -----------------------------
(***************************************************************************)
(* The financial-freeze policy, scripts/check-financial-freeze.mjs: given  *)
(* a base commit it compares HEAD, the index and the working tree with it  *)
(* and reports every change that touches protected files or the protected  *)
(* ranges of mixed files.                                                  *)
(*                                                                         *)
(* Four paths stand for the rule kinds of config/financial-freeze.json: a  *)
(* path frozen as a whole, a mixed file, a migration (frozen if the base   *)
(* has it, scanned when new) and a source file scanned where it changes.   *)
(* The mixed file is a sequence of lines; the others are one line whose    *)
(* text either mentions money, for the patterns, or does not.              *)
(***************************************************************************)
EXTENDS Integers, Sequences, FiniteSets, FiniteSetsExt

CONSTANTS
  BaseText,       \* the mixed file in the base commit
  SymbolRule,     \* its protected symbol
  AnchorRule,     \* its protected anchors
  BaseMigration   \* the migration in the base commit

Absent == "absent"
Texts == {Absent, "plain", "money"}
LineKinds == {"start", "end", "anchor", "fee1", "fee2", "text"}
FragmentLines == {"fee1", "fee2"}

BaseTree == [frozen |-> "plain", mixed |-> BaseText, migration |-> BaseMigration, source |-> "plain"]
RepoPaths == DOMAIN BaseTree
NoFile == [frozen |-> Absent, mixed |-> <<>>, migration |-> Absent, source |-> Absent]

-----------------------------------------------------------------------------
(* Configuration *)

(* Occurrences are consistent with the expected counts, windows are not     *)
(* negative, and a symbol has an end anchor or runs to the end, not both.   *)
validSymbol(s) ==
  /\ s.expectedStarts \in Nat \ {0} /\ s.startOccurrence \in 1 .. s.expectedStarts
  /\ s.end => s.expectedEnds \in Nat \ {0} /\ s.endOccurrence \in 1 .. s.expectedEnds
  /\ ~(s.end /\ s.toEnd)
  /\ s.includeBefore \in Nat /\ s.includeAfter \in Nat
  /\ {s.end, s.toEnd, s.includeEnd} \subseteq BOOLEAN

validateConfig(symbol, anchor) ==
  /\ validSymbol(symbol)
  /\ anchor.expected \in Nat \ {0} /\ anchor.before \in Nat /\ anchor.after \in Nat

ASSUME FreezeAssumption ==
  /\ BaseText \in Seq(LineKinds)
  /\ BaseMigration \in {Absent, "plain"}
  /\ validateConfig(SymbolRule, AnchorRule)

(* So it is for every symbol of config/financial-freeze.json.  Between the first *)
(* and the last of several starts an occurrence is not a place in the text: one  *)
(* start that goes and another that comes, both outside the range, move it.      *)
ASSUME OccurrenceAssumption == SymbolRule.startOccurrence \in {1, SymbolRule.expectedStarts}

-----------------------------------------------------------------------------
(* Ranges and fragments of a mixed file *)

matchingLineIndexes(lines, kind) == {i \in DOMAIN lines : lines[i] = kind}

Nth(indexes, n) == CHOOSE i \in indexes : Cardinality({j \in indexes : j <= i}) = n

EndAnchors(lines, startIndex) == {i \in matchingLineIndexes(lines, "end") : i > startIndex}

(* The protected range of the symbol, [from, to] with both ends included, or *)
(* `valid` FALSE where the code throws.                                      *)
SymbolRange(lines, s) ==
  LET starts == matchingLineIndexes(lines, "start")
  IN  IF Cardinality(starts) # s.expectedStarts THEN [valid |-> FALSE, from |-> 0, to |-> 0]
      ELSE LET startIndex == Nth(starts, s.startOccurrence)
               ends == EndAnchors(lines, startIndex)
               counted == s.end => Cardinality(ends) = s.expectedEnds
               endLine == IF s.toEnd THEN Len(lines)
                          ELSE IF ~s.end \/ ~counted THEN startIndex
                          ELSE Nth(ends, s.endOccurrence) - (IF s.includeEnd THEN 0 ELSE 1)
               from == Max({1, startIndex - s.includeBefore})
               to == Min({Len(lines), endLine + s.includeAfter})
           IN  [valid |-> counted /\ to >= from, from |-> from, to |-> to]

AnchorLines(lines, a) ==
  UNION {Max({1, i - a.before}) .. Min({Len(lines), i + a.after}) :
           i \in matchingLineIndexes(lines, "anchor")}

(* The lines protected in one version of the file, or a failed location. *)
locateProtectedRanges(lines) ==
  LET range == SymbolRange(lines, SymbolRule)
      found == Cardinality(matchingLineIndexes(lines, "anchor"))
  IN  [valid |-> range.valid /\ found = AnchorRule.expected,
       protected |-> range.from .. range.to \union AnchorLines(lines, AnchorRule)]

locateProtectedFragments(lines) == SelectSeq(lines, LAMBDA l : l \in FragmentLines)

-----------------------------------------------------------------------------
(* git *)

Subsequence(lines, kept) ==
  [n \in 1 .. Cardinality(kept) |-> lines[Nth(kept, n)]]

(* Whatever alignment git's diff settles on: lines of the old and of the new *)
(* version that it pairs up; all the others are in some hunk.                *)
Alignments(old, new) ==
  UNION {{<<kept, matched>> : matched \in {m \in kSubset(Cardinality(kept), DOMAIN new) :
                                             Subsequence(new, m) = Subsequence(old, kept)}} :
           kept \in SUBSET DOMAIN old}

(* What `git diff --name-status` lists: paths that differ from the base.  (A  *)
(* delete and an add reported as a rename meet the same rules through both of *)
(* their paths.)                                                              *)
parseNameStatusZ(tree) == {p \in RepoPaths : tree[p] # BaseTree[p]}

Status(tree, p) ==
  IF BaseTree[p] = NoFile[p] THEN "A" ELSE IF tree[p] = NoFile[p] THEN "D" ELSE "M"

(* `git diff <base>` sees the working tree only at paths the index tracks. *)
TrackedWork(index, work) == [p \in RepoPaths |-> IF index[p] = NoFile[p] THEN NoFile[p] ELSE work[p]]

Untracked(index, work) == {p \in RepoPaths : index[p] = NoFile[p] /\ work[p] # NoFile[p]}

-----------------------------------------------------------------------------
(* Verdicts *)

pathRuleMatches(p) == p = "frozen" \/ (p = "migration" /\ BaseMigration # Absent)

(* A hunk overlaps a range if it holds a line of it, on its own side: base  *)
(* lines that disappear, new lines that appear.                             *)
rangesOverlap_OldSide(alignment, old, new, oldRange, newRange) ==
  \E i \in oldRange \ alignment[1] : i \in DOMAIN old
rangesOverlap(alignment, old, new, oldRange, newRange) ==
  \/ \E i \in oldRange \ alignment[1] : i \in DOMAIN old
  \/ \E i \in newRange \ alignment[2] : i \in DOMAIN new

(* A mixed file that changes must keep its life, its anchors, its fragments *)
(* and every protected line.                                                *)
MixedViolation(lines, alignment) ==
  LET old == locateProtectedRanges(BaseText)
      new == locateProtectedRanges(lines)
  IN  \/ lines = <<>>
      \/ ~new.valid
      \/ locateProtectedFragments(lines) # locateProtectedFragments(BaseText)
      \/ rangesOverlap(alignment, BaseText, lines, old.protected, new.protected)

fullContentMatches(content) == content = "money"

(* The hunks of a changed source file, on both sides; an added or deleted file *)
(* as a whole.                                                                 *)
scanChangedContentRules(p, tree) ==
  p = "source" /\ (fullContentMatches(tree[p]) \/ fullContentMatches(BaseTree[p]))

scanNewFileRules(p, content) == p = "migration" /\ fullContentMatches(content)

ChangeViolates(p, tree, alignment) ==
  \/ pathRuleMatches(p)
  \/ p = "mixed" /\ (Status(tree, p) # "M" \/ MixedViolation(tree[p], alignment))
  \/ scanChangedContentRules(p, tree)
  \/ Status(tree, p) = "A" /\ scanNewFileRules(p, tree[p])

UntrackedViolates(p, work) ==
  \/ pathRuleMatches(p)
  \/ p = "mixed"
  \/ scanNewFileRules(p, work[p])
  \/ p = "source" /\ fullContentMatches(work[p])

(* The guard reports nothing, for some alignment of each comparison.  A base *)
(* whose own anchors do not fit is refused before anything is compared.      *)
checkFinancialFreeze(head, index, work) ==
  /\ locateProtectedRanges(BaseText).valid
  /\ \A tree \in {head, index, TrackedWork(index, work)} :
       \A p \in parseNameStatusZ(tree) :
         IF p # "mixed" THEN ~ChangeViolates(p, tree, <<{}, {}>>)
         ELSE \E alignment \in Alignments(BaseText, tree.mixed) : ~ChangeViolates(p, tree, alignment)
  /\ \A p \in Untracked(index, work) : ~UntrackedViolates(p, work)

-----------------------------------------------------------------------------
(* What the freeze is for *)

(* The text the symbol protects, line by line, and what follows it. *)
ProtectedText(lines) ==
  LET range == SymbolRange(lines, SymbolRule) IN SubSeq(lines, range.from, range.to)

Following(lines) == SubSeq(lines, SymbolRange(lines, SymbolRule).to + 1, Len(lines))

Extends(long, short) == Len(short) <= Len(long) /\ SubSeq(long, 1, Len(short)) = short

(* The protected text is that of the base.  Only a symbol whose end anchor is *)
(* not itself protected may have it moved: up, which leaves a prefix of the   *)
(* text in the range, or down, over lines that already followed it.           *)
KeepsText(lines) ==
  LET old == ProtectedText(BaseText)
      new == ProtectedText(lines)
  IN  \/ new = old
      \/ /\ SymbolRule.end /\ ~SymbolRule.includeEnd
         /\ \/ Extends(old, new)
            \/ /\ Extends(new, old)
               /\ \E kept \in SUBSET DOMAIN Following(BaseText) :
                    new = old \o Subsequence(Following(BaseText), kept)

(* A tree keeps the freeze: the frozen files and the deployed migrations are   *)
(* those of the base, no new migration and no changed source deals with money, *)
(* and the protected text and fragments of the mixed file are intact.          *)
KeepsFreeze(tree) ==
  /\ tree.frozen = BaseTree.frozen
  /\ BaseMigration # Absent => tree.migration = BaseMigration
  /\ tree.migration # "money" /\ tree.source # "money"
  /\ locateProtectedFragments(tree.mixed) = locateProtectedFragments(BaseText)
  /\ KeepsText(tree.mixed)
=============================================================================
