----------------------------- MODULE MCVersionDiff ------------------------------
(***************************************************************************)
(* Small documents for VersionDiff: all pairs of up to three and up to four*)
(* lines over a heading and two texts; a long document with every two      *)
(* edits of a line; and every document of up to three lines of any shape   *)
(* with every edit of one of them.                                         *)
(***************************************************************************)
EXTENDS VersionDiff

MCShape ==
  [line \in {"# T", "## A", "x", "y", "", "- i", "  j", "|a|", "|-|", "~~~", "> q", "---"} |->
     CASE line = "" -> {"blank"}
       [] line = "- i" -> {"item"}
       [] line = "  j" -> {"indented"}
       [] line = "|a|" -> {"pipe"}
       [] line = "|-|" -> {"pipe", "delimiter"}
       [] line = "~~~" -> {"fence"}
       [] line = "> q" -> {"quote"}
       [] line = "---" -> {"rule"}
       [] OTHER -> {}]

MCHeadingLevel ==
  [line \in DOMAIN MCShape |-> IF line = "# T" THEN 1 ELSE IF line = "## A" THEN 2 ELSE 0]

\* The documents of up to n lines.
Documents(texts, n) == UNION {[1 .. m -> texts] : m \in 0 .. n}

\* A document with one line dropped, replaced or inserted.
Revised(doc, texts) ==
  {SubSeq(doc, 1, n - 1) \o new \o SubSeq(doc, n + old, Len(doc)) :
     n \in DOMAIN doc, old \in {0, 1}, new \in {<<>>} \cup {<<line>> : line \in texts}}

\* A document that is long enough for two hunks with a marker between them.
Long == <<"x", "## A", "y", "x", "y", "## A", "x">>

MCRevisions ==
  Documents({"## A", "x", "y"}, 3) \X Documents({"## A", "x", "y"}, 4)
    \cup {Long} \X UNION {Revised(doc, {"x", "## A"}) : doc \in Revised(Long, {"y"})}
    \cup UNION {{doc} \X Revised(doc, {"x"}) : doc \in Documents(DOMAIN MCShape \ {"# T", "y"}, 3)}

================================================================================
