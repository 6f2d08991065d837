----------------------------- MODULE MCRunStore -----------------------------
(* RunStore on small sets of runs and requests.                            *)
EXTENDS RunStore, TLC

CONSTANTS c1, c2, s1, a1, a2

TwoCliRuns == {c1, c2}
OneApiRun == {s1}
TwoApprovals == {a1, a2}

\* Runs of a kind, and approvals, are interchangeable.
JobSymmetry == Permutations(CliRuns) \cup Permutations(ApiRuns) \cup Permutations(Approvals)
=============================================================================
