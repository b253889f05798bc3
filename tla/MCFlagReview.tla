----------------------------- MODULE MCFlagReview -----------------------------
EXTENDS FlagReview, TLC

CONSTANTS f1, f2, a, b, c

\* Two sentences that differ, and a setting (c) that contradicts both.
MCFlags == {f1, f2}
MCValues == {a, b, c}
MCSaid == (f1 :> a) @@ (f2 :> b)
OneSaid == f1 :> a
MCJobs == Checks \cup Runs

\* The two sentences are interchangeable with what they say.
Swap == (f1 :> f2) @@ (f2 :> f1) @@ (a :> b) @@ (b :> a)
Symmetry == {Swap} \cup Permutations(Checks) \cup Permutations(Runs)
===============================================================================
