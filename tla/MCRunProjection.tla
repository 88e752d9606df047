---------------------------- MODULE MCRunProjection ----------------------------
(* Instances of RunProjection for TLC. *)
EXTENDS RunProjectionInvariant

\* A good review with advice, a good one with a blocker, and a weak one.
Good    == [score |-> 9, feedback |-> <<"optional">>]
Blocked == [score |-> 9, feedback |-> <<"must_fix", "optional">>]
Weak    == [score |-> 5, feedback |-> <<"should_fix">>]

\* Reviews stored before findings had a severity.
Bare    == [score |-> 9, feedback |-> <<"text", "blank">>]
Unknown == [score |-> 9, feedback |-> <<"must_fix", "unknown">>]
Stored  == [score |-> 9, feedback |-> <<"text", "blank", "must_fix", "unknown">>]

Run(iterations, threshold, reviews, legacy, requests, picks) ==
  [max_iterations |-> iterations, quality_threshold |-> threshold, reviews |-> reviews,
   legacy |-> legacy, pauses |-> requests, chunks |-> 1, picks |-> picks]

\* Two versions of unlike quality, a run that is paused, an old server, and a run of
\* longer texts; with one reviewer.
MCSetups ==
  {Run(2, 9, {Blocked, Weak}, FALSE, 0, {1}), Run(2, 9, {Blocked}, FALSE, 1, {}),
   Run(2, 10, {Stored}, TRUE, 0, {}),
   [Run(2, 9, {Blocked}, FALSE, 0, {}) EXCEPT !.chunks = 2]}

\* One version that passes, is blocked or falls short, of all three reviewers, and
\* one of an old server.
MCOneVersion ==
  {Run(1, 27, {Good, Blocked}, FALSE, 0, {}), Run(1, 19, {Weak}, FALSE, 0, {}),
   Run(1, 28, {Bare, Unknown}, TRUE, 0, {})}

\* The same with a run of two versions, so that there is a plan to misnumber.
MCOneOrTwoVersions == MCOneVersion \cup {Run(2, 27, {Weak}, FALSE, 0, {})}

\* Every chunk reads the same as the one in its place in another version or attempt.
MCSharedWords(text) == [k \in DOMAIN text |-> text[k][Len(text[k])]]

================================================================================
