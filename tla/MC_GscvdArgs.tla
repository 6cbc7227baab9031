----------------------------- MODULE MC_GscvdArgs -----------------------------
(* GscvdArgs instantiated for TLC. *)
EXTENDS GscvdArgs

\* uint32_t scaled to 3 bits, long to 5: values 8..15 fit a long but not a
\* uint32_t, 16 and more overflow a long but fit an unsigned long long up
\* to 31.
MCW == 3
MCLW == 5

\* Room for two ranges: a third field meets "Too many ranges!".
MCMaxRanges == 2

T(k, v) == [kind |-> k, v |-> v]
F(off, size) == [colon |-> TRUE, off |-> off, size |-> size]
NoColon == [colon |-> FALSE, off |-> T("hex", 2), size |-> T("hex", 2)]

\* -R arguments: "2:2", "2:2,5:1", "2:2,5:1,6:1" (too many), "9:1" (offset
\* past uint32_t), "-1:1", ":2" (empty offset), "2:2,2" (second field
\* without ':'), "2:2x" (stray character), "11:1" (past long).
MCRArgs ==
    { <<F(T("hex", 2), T("hex", 2))>>,
      <<F(T("hex", 2), T("hex", 2)), F(T("hex", 5), T("hex", 1))>>,
      <<F(T("hex", 2), T("hex", 2)), F(T("hex", 5), T("hex", 1)),
        F(T("hex", 6), T("hex", 1))>>,
      <<F(T("hex", 9), T("hex", 1))>>,
      <<F(T("neg", 1), T("hex", 1))>>,
      <<F(T("empty", 0), T("hex", 2))>>,
      <<F(T("hex", 2), T("hex", 2)), NoColon>>,
      <<F(T("hex", 2), T("junk", 0))>>,
      <<F(T("hex", 17), T("hex", 1))>> }

\* -b arguments: 2, 7 (UINT32_MAX), 17 (sign bit of a long long), 40 (past
\* unsigned long long), -2, the empty string, a stray character.
MCBoardArgs ==
    {T("hex", 2), T("hex", 7), T("hex", 17), T("hex", 40), T("neg", 2),
     T("empty", 0), T("junk", 0)}

\* Six options: the five a signing needs and one more.
MCMaxOpts == 6
=============================================================================
