------------------------------- MODULE VersionDiff -------------------------------
(***************************************************************************)
(* src/components/VersionDiff.tsx: the 对比 tab, which shows two finished  *)
(* versions of the document as a reader's comparison or as the source's,   *)
(* and lets the reader change between the two.                             *)
(***************************************************************************)
EXTENDS ReadingDiff

CONSTANT Revisions   \* the pairs of documents that may be compared

VARIABLES
  contents,   \* <<sourceContent, targetContent>>
  reading,    \* readingDiff of the two
  lines,      \* diffLines of the two
  mode        \* "reading" or "source"

vars == <<contents, reading, lines, mode>>

source == contents[1]
target == contents[2]

\* Each stretch of untouched sections becomes one row of names.
groupSections(sections) ==
  LET Grouped(stretch) ==
        IF Head(stretch).changed THEN Head(stretch)
        ELSE [type |-> "unchanged",
              names |-> [n \in DOMAIN stretch |-> stretch[n].heading]]
  IN  FoldLeft(LAMBDA groups, stretch : Append(groups, Grouped(stretch)), <<>>,
        Pieces(sections, LAMBDA before, section : before.changed \/ section.changed))

\* What the tab shows.
Comparison ==
  IF mode = "source"
  THEN [added |-> lines.addedCount, removed |-> lines.removedCount,
        unchanged |-> lines.unchanged, body |-> lines.segments]
  ELSE [added |-> reading.addedBlocks, removed |-> reading.removedBlocks,
        unchanged |-> reading.unchanged, body |-> groupSections(reading.sections)]

\* A tab that is opened is in the reading mode; both comparisons are made once.
Init ==
  /\ contents \in Revisions
  /\ reading = readingDiff(source, target)
  /\ lines = diffLines(source, target)
  /\ mode = "reading"

setMode(next) ==
  /\ next # mode
  /\ mode' = next
  /\ UNCHANGED <<contents, reading, lines>>

Next == \E next \in {"reading", "source"} : setMode(next)

Spec == Init /\ [][Next]_vars

--------------------------------------------------------------------------------
(* Properties. *)

\* One row of the diff, read against the source from line at.line on.
PatchRow(at, row) ==
  LET fits == /\ row.kind # "added" => /\ at.line <= Len(source)
                                       /\ source[at.line] = row.text
                                       /\ row.sourceLine = at.line
              /\ row.kind # "removed" => row.targetLine = Len(at.text) + 1
  IN  [line |-> at.line + (IF row.kind = "added" THEN 0 ELSE 1),
       text |-> IF row.kind = "removed" THEN at.text ELSE Append(at.text, row.text),
       good |-> at.good /\ fits]

PatchSegment(at, segment) ==
  IF segment.type = "hunk" THEN FoldLeft(PatchRow, at, segment.rows)
  ELSE [line |-> at.line + segment.count,
        text |-> at.text \o SubSeq(source, at.line, at.line + segment.count - 1),
        good |-> at.good /\ segment.count >= MIN_COLLAPSE_LINES]

LinesAreExact ==
  LET patched == FoldLeft(PatchSegment, [line |-> 1, text |-> <<>>, good |-> TRUE],
                          Comparison.body)
  IN  /\ Comparison.unchanged = (source = target)
      /\ ~Comparison.unchanged =>
           /\ patched.good /\ patched.line = Len(source) + 1
           /\ patched.text = target

Comparable(a, b) == (Len(a) + 1) * (Len(b) + 1) <= MAX_LCS_CELLS

\* What both documents have in the same order, at most; by definition, not by a table.
Selections(seq) ==
  {LET order == InOrder(S, Len(seq)) IN [k \in DOMAIN order |-> seq[order[k]]] :
     S \in SUBSET DOMAIN seq}

Shared(a, b) == Max({Len(s) : s \in Selections(a) \cap Selections(b)})

\* No diff of the two documents counts fewer lines, or fewer blocks, as changed, as
\* long as they are small enough to be compared at all.
NothingIsMarkedInVain ==
  LET Pieced(doc) == IF mode = "source" THEN doc ELSE Texts(splitBlocks(doc))
      a == Pieced(source)
      b == Pieced(target)
  IN  Comparable(a, b) => Comparison.added + Comparison.removed = Len(a) + Len(b) - 2 * Shared(a, b)

\* One change, read against the blocks of the old version from number at.block on.
PatchBlock(at, change, text) ==
  [at EXCEPT !.block = IF change = "added" THEN @ ELSE @ + 1,
             !.text = IF change = "removed" THEN @ ELSE Append(@, text),
             !.good = @ /\ (change # "added" => at.block <= Len(at.old) /\ at.old[at.block] = text)]

PatchReadingRow(at, row) ==
  IF row.type = "block" THEN PatchBlock(at, row.change, row.block.text)
  ELSE [at EXCEPT !.block = @ + row.count,
          !.text = @ \o SubSeq(at.old, at.block, at.block + row.count - 1)]

PatchSection(at, section) ==
  FoldLeft(PatchReadingRow,
           IF section.heading = Null THEN at
           ELSE PatchBlock(at, section.change, section.heading),
           section.rows)

\* How many blocks of the old version a section stands for.
OldBlocks(section) ==
  LET Count(row) == IF row.type = "skipped" THEN row.count
                    ELSE IF row.change = "added" THEN 0 ELSE 1
  IN  FoldLeft(LAMBDA n, row : n + Count(row),
               IF section.heading = Null \/ section.change = "added" THEN 0 ELSE 1,
               section.rows)

ReadingIsExact ==
  LET sections == reading.sections
      old == Texts(splitBlocks(source))
      new == Texts(splitBlocks(target))
      unlisted == FoldLeft(LAMBDA n, section : n - OldBlocks(section), Len(old), sections)
      patched == FoldLeft(PatchSection,
                   [block |-> unlisted + 1, text |-> SubSeq(old, 1, unlisted),
                    good |-> TRUE, old |-> old], sections)
      Inked(doc) == SelectSeq(doc, LAMBDA line : ~Is(line, "blank"))
  IN  /\ Inked(FlattenSeq(old)) = Inked(source)
      /\ Comparison.unchanged => old = new
      /\ Comparable(old, new) /\ old = new => Comparison.unchanged
      /\ ~Comparison.unchanged =>
           /\ patched.good /\ patched.block = Len(old) + 1
           /\ patched.text = new
           /\ SelectSeq(sections, LAMBDA s : s.changed)
                = SelectSeq(Comparison.body, LAMBDA s : "changed" \in DOMAIN s)

\* What the tab shows can be applied to the old version as a patch, and yields the
\* new one.  By lines: every line is where its numbers say, the lines a marker stands
\* for are the unchanged ones, and nothing is said to have changed only of equal
\* documents.  By blocks: every block of the two is shown, counted by a marker, or
\* before the first heading and unchanged; no line but blank ones is lost when a
\* document is cut into blocks; and no section that changed is folded into the names
\* of the untouched ones.
ComparisonIsExact == IF mode = "source" THEN LinesAreExact ELSE ReadingIsExact

================================================================================
