-------------------------------- MODULE LineDiff --------------------------------
(***************************************************************************)
(* src/lib/diff.ts: what changed between two documents, line by line.  A   *)
(* document is a sequence of lines; all a line is good for here is to be   *)
(* equal to another, and to be a heading of some level.                    *)
(***************************************************************************)
EXTENDS Integers, FiniteSets, Sequences, SequencesExt, Functions

CONSTANTS
  Null,
  HeadingLevel,       \* per line, its number of #; 0 for a line that is no heading
  CONTEXT_LINES,      \* 3 in the code
  MIN_COLLAPSE_LINES, \* 2 in the code
  MAX_LCS_CELLS       \* 250000 in the code

ASSUME LineDiffAssumption ==
  /\ CONTEXT_LINES \in Nat /\ MIN_COLLAPSE_LINES \in Nat /\ MAX_LCS_CELLS \in Nat
  /\ \A line \in DOMAIN HeadingLevel : HeadingLevel[line] \in 0 .. 6

\* The numbers of S in order, none of them above n.
InOrder(S, n) == SelectSeq([k \in 1 .. n |-> k], LAMBDA k : k \in S)

\* table[i][j]: the lines a longest common subsequence of a from i and b from j has.
lcsLengths(a, b) ==
  LET Row(i, below) ==
        FoldLeft(LAMBDA row, j :
            [row EXCEPT ![j] = IF a[i] = b[j] THEN below[j + 1] + 1
                               ELSE Max({below[j], row[j + 1]})],
          [j \in 1 .. Len(b) + 1 |-> 0], Reverse([j \in 1 .. Len(b) |-> j]))
  IN  FoldLeft(LAMBDA table, i : <<Row(i, table[1])>> \o table,
        <<[j \in 1 .. Len(b) + 1 |-> 0]>>, Reverse([i \in 1 .. Len(a) |-> i]))

\* Faulty: of a line to remove and one to add, any is taken first.
AnySide(table, i, j, a, b) == j > Len(b) \/ i <= Len(a)

\* Removals come before additions, when the rest keeps as many lines.
DropsSource(table, i, j, a, b) ==
  j > Len(b) \/ (i <= Len(a) /\ table[i + 1][j] >= table[i][j + 1])

pushRow(kind, text, sourceLine, targetLine) ==
  [kind |-> kind, text |-> text, sourceLine |-> sourceLine, targetLine |-> targetLine]

\* The walk along the table, one row of the diff per step; line numbers count on
\* from the lines that come before a and b.
Walk(a, b, before) ==
  LET table == lcsLengths(a, b)
      Step(at, ignored) ==
        LET i == at.i
            j == at.j
        IN  CASE i > Len(a) /\ j > Len(b) -> at
              [] i <= Len(a) /\ j <= Len(b) /\ a[i] = b[j] ->
                   [i |-> i + 1, j |-> j + 1,
                    rows |-> Append(at.rows, pushRow("context", a[i], before + i, before + j))]
              [] OTHER ->
                   IF DropsSource(table, i, j, a, b)
                   THEN [at EXCEPT !.i = i + 1, !.rows =
                           Append(@, pushRow("removed", a[i], before + i, Null))]
                   ELSE [at EXCEPT !.j = j + 1, !.rows =
                           Append(@, pushRow("added", b[j], Null, before + j))]
  IN  FoldLeft(Step, [i |-> 1, j |-> 1, rows |-> <<>>],
               [n \in 1 .. Len(a) + Len(b) |-> n]).rows

\* Too much to compare: everything is removed, then everything added.
Replacement(a, b, before) ==
  [i \in DOMAIN a |-> pushRow("removed", a[i], before + i, Null)] \o
  [j \in DOMAIN b |-> pushRow("added", b[j], Null, before + j)]

CommonPrefix(a, b) ==
  Min({n \in 0 .. Len(a) : n = Len(a) \/ n >= Len(b) \/ a[n + 1] # b[n + 1]})

\* Faulty: the common ends may overlap the common beginnings.
WholeSuffix(a, b, prefix) == CommonPrefix(Reverse(a), Reverse(b))

CommonSuffix(a, b, prefix) ==
  CommonPrefix(Reverse(SubSeq(a, prefix + 1, Len(a))), Reverse(SubSeq(b, prefix + 1, Len(b))))

diffRows(source, target) ==
  LET prefix == CommonPrefix(source, target)
      suffix == CommonSuffix(source, target, prefix)
      a == SubSeq(source, prefix + 1, Len(source) - suffix)
      b == SubSeq(target, prefix + 1, Len(target) - suffix)
  IN  [n \in 1 .. prefix |-> pushRow("context", source[n], n, n)] \o
      (IF (Len(a) + 1) * (Len(b) + 1) > MAX_LCS_CELLS
       THEN Replacement(a, b, prefix) ELSE Walk(a, b, prefix)) \o
      [n \in 1 .. suffix |->
         pushRow("context", source[Len(source) - suffix + n],
                 Len(source) - suffix + n, Len(target) - suffix + n)]

--------------------------------------------------------------------------------
(* Hunks. *)

IsChange(row) == row.kind # "context"

\* The section a row is in: the last heading below the title, at or above it.
headingsFor(rows) ==
  [n \in DOMAIN rows |->
     LET above == {m \in 1 .. n : HeadingLevel[rows[m].text] > 1}
     IN  IF above = {} THEN Null
         ELSE rows[Max(above)].text]

\* Changed rows, their context, and gaps too short to be worth a marker.
Shown(rows) ==
  LET near == {n \in DOMAIN rows : \E m \in DOMAIN rows : IsChange(rows[m])
                 /\ n - m <= CONTEXT_LINES /\ m - n <= CONTEXT_LINES}
      Gap(n) == {m \in DOMAIN rows : \A k \in DOMAIN rows :
                   (m <= k /\ k <= n) \/ (n <= k /\ k <= m) => k \notin near}
  IN  near \cup {n \in DOMAIN rows : Cardinality(Gap(n)) \in 1 .. MIN_COLLAPSE_LINES - 1}

segmentsFor(rows) ==
  LET shown == Shown(rows)
      headings == headingsFor(rows)
      starts == {n \in DOMAIN rows : n = 1 \/ (n \in shown) # (n - 1 \in shown)}
      After(n) == Min({m \in starts \cup {Len(rows) + 1} : m > n})
      Segment(n) ==
        LET last == After(n) - 1
            changes == {m \in n .. last : IsChange(rows[m])}
        IN  IF n \notin shown THEN [type |-> "skipped", count |-> last - n + 1]
            ELSE [type |-> "hunk", rows |-> SubSeq(rows, n, last),
                  heading |-> headings[IF changes = {} THEN n ELSE Min(changes)]]
      order == InOrder(starts, Len(rows))
  IN  [k \in DOMAIN order |-> Segment(order[k])]

diffLines(source, target) ==
  LET rows == diffRows(source, target)
      added == Len(SelectSeq(rows, LAMBDA row : row.kind = "added"))
      removed == Len(SelectSeq(rows, LAMBDA row : row.kind = "removed"))
      same == added = 0 /\ removed = 0
  IN  [addedCount |-> added, removedCount |-> removed, unchanged |-> same,
       segments |-> IF same THEN <<>> ELSE segmentsFor(rows)]

================================================================================
