------------------------------- MODULE ReadingDiff -------------------------------
(***************************************************************************)
(* src/lib/readingDiff.ts: what changed between two documents, in whole    *)
(* Markdown blocks, section by section.  A line is known by its shape;     *)
(* fences are of one kind, and no line differs from another by the space   *)
(* around it only.                                                         *)
(***************************************************************************)
EXTENDS LineDiff

CONSTANTS
  Shape,               \* per line, what it looks like: a set of shapes
  MIN_COLLAPSE_BLOCKS  \* 3 in the code

ASSUME ReadingDiffAssumption ==
  /\ MIN_COLLAPSE_BLOCKS \in Nat
  /\ \A line \in DOMAIN Shape : Shape[line] \subseteq
       {"blank", "fence", "rule", "pipe", "delimiter", "item", "indented", "quote"}

Is(line, shape) == shape \in Shape[line]
IsHeading(line) == HeadingLevel[line] > 0

breaksBlock(line) == IsHeading(line) \/ Is(line, "fence") \/ Is(line, "rule")

\* The first line from n on that ends a stretch of lines, or the end of the document.
StretchEnd(doc, n, Ends(_)) ==
  Min({m \in n .. Len(doc) + 1 : m = Len(doc) + 1 \/ Ends(doc[m])})

KindAt(doc, n) ==
  LET line == doc[n] IN
  CASE Is(line, "fence") -> "code"
    [] IsHeading(line) -> "heading"
    [] Is(line, "rule") -> "rule"
    [] OTHER ->
         IF Is(line, "pipe") /\ n < Len(doc) /\ Is(doc[n + 1], "delimiter") THEN "table"
         ELSE IF Is(line, "item") THEN "list"
         ELSE IF Is(line, "quote") THEN "quote" ELSE "paragraph"

\* The line after the block that begins at line n.
BlockEnd(doc, n, kind) ==
  CASE kind = "code" ->
         LET close == StretchEnd(doc, n + 1, LAMBDA next : Is(next, "fence"))
         IN  Min({close + 1, Len(doc) + 1})
    [] kind \in {"heading", "rule"} -> n + 1
    [] kind = "table" ->
         StretchEnd(doc, n + 2, LAMBDA next : Is(next, "blank") \/ ~Is(next, "pipe"))
    [] kind = "list" ->
         StretchEnd(doc, n + 1, LAMBDA next : Is(next, "blank") \/ Is(next, "item")
                                                \/ breaksBlock(next) \/ ~Is(next, "indented"))
    [] OTHER ->
         StretchEnd(doc, n + 1, LAMBDA next : Is(next, "blank") \/ breaksBlock(next)
                      \/ Is(next, "item") \/ (kind = "quote") # Is(next, "quote"))

splitBlocks(doc) ==
  LET from[n \in 1 .. Len(doc) + 1] ==
        IF n > Len(doc) THEN <<>>
        ELSE IF Is(doc[n], "blank") THEN from[n + 1]
        ELSE LET kind == KindAt(doc, n)
                 next == BlockEnd(doc, n, kind)
             IN  <<[kind |-> kind, level |-> HeadingLevel[doc[n]],
                    text |-> SubSeq(doc, n, next - 1)]>> \o from[next]
  IN  from[1]

--------------------------------------------------------------------------------

BlockRow(change, block) == [type |-> "block", change |-> change, block |-> block]

Texts(blocks) == [n \in DOMAIN blocks |-> blocks[n].text]

diffBlocks(source, target) ==
  LET a == Texts(source)
      b == Texts(target)
      rows == IF (Len(a) + 1) * (Len(b) + 1) > MAX_LCS_CELLS
              THEN Replacement(a, b, 0) ELSE Walk(a, b, 0)
      change == [context |-> "unchanged", removed |-> "removed", added |-> "added"]
  IN  [n \in DOMAIN rows |->
         BlockRow(change[rows[n].kind],
                  IF rows[n].kind = "added" THEN target[rows[n].targetLine]
                  ELSE source[rows[n].sourceLine])]

startsSection(row) == row.block.kind = "heading" /\ row.block.level > 1

IsSame(row) == row.change = "unchanged"

\* A sequence cut into pieces, wherever Begins holds of two neighbours.
Pieces(seq, Begins(_, _)) ==
  LET Grown(pieces, item) ==
        IF pieces = <<>> \/ Begins(Last(Last(pieces)), item)
        THEN Append(pieces, <<item>>)
        ELSE [pieces EXCEPT ![Len(pieces)] = Append(@, item)]
  IN  FoldLeft(Grown, <<>>, seq)

Skipped(count) == <<[type |-> "skipped", count |-> count]>>

collapse(rows) ==
  LET Collapsed(stretch) ==
        IF IsSame(Head(stretch)) /\ Len(stretch) >= MIN_COLLAPSE_BLOCKS
        THEN Skipped(Len(stretch)) ELSE stretch
  IN  FoldLeft(LAMBDA shown, stretch : shown \o Collapsed(stretch), <<>>,
        Pieces(rows, LAMBDA before, row : IsSame(before) # IsSame(row)))

Changes(rows, change) == Len(SelectSeq(rows, LAMBDA row : row.change = change))

buildSection(heading, body) ==
  LET added == Changes(body, "added")
      removed == Changes(body, "removed")
      changed == (heading # Null /\ ~IsSame(heading)) \/ added > 0 \/ removed > 0
  IN  [heading |-> IF heading = Null THEN Null ELSE heading.block.text,
       change |-> IF heading = Null THEN "unchanged" ELSE heading.change,
       changed |-> changed, addedBlocks |-> added, removedBlocks |-> removed,
       rows |-> IF changed THEN collapse(body)
                ELSE IF body # <<>> THEN Skipped(Len(body)) ELSE <<>>]

\* What comes before the first heading is left out when nothing of it changed.
IsListed(section) == section.changed \/ section.heading # Null

SectionOf(rows) ==
  IF startsSection(Head(rows)) THEN buildSection(Head(rows), Tail(rows))
  ELSE buildSection(Null, rows)

readingDiff(sourceDoc, targetDoc) ==
  LET rows == diffBlocks(splitBlocks(sourceDoc), splitBlocks(targetDoc))
      same == \A n \in DOMAIN rows : IsSame(rows[n])
      Listed(sections, piece) == sections \o SelectSeq(<<SectionOf(piece)>>, IsListed)
  IN  [addedBlocks |-> Changes(rows, "added"), removedBlocks |-> Changes(rows, "removed"),
       unchanged |-> same,
       sections |-> IF same THEN <<>>
                    ELSE FoldLeft(Listed, <<>>,
                           Pieces(rows, LAMBDA before, row : startsSection(row)))]

================================================================================
