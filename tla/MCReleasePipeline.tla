-------------------------- MODULE MCReleasePipeline --------------------------
(* ReleasePipeline with two commits of one beta and one of a stable        *)
(* version, and two runs.                                                  *)
EXTENDS ReleasePipeline, TLC

CONSTANTS b1, b2, s1, r1, r2, beta, final

MCCommits == {b1, b2, s1}
MCVersions == {beta, final}
MCVersion == [c \in MCCommits |-> IF c = s1 THEN final ELSE beta]
MCStable == {final}
MCSignedBy == {}
MCRuns == {r1, r2}
MCNewer == [c \in MCCommits |-> CASE c = b1 -> {b2} [] c = b2 -> {s1} [] OTHER -> {}]
MCHandTags == {<<beta, b2>>, <<final, s1>>}
Input(ref, c, t) == [ref |-> ref, sha |-> c, tests |-> t]
MCInputs == {Input("branch", b1, b1), Input("branch", b2, b2), Input("branch", s1, s1),
             Input("branch", b1, b2), Input(beta, b2, b2), Input(final, s1, s1)}
Symmetric == Permutations(MCRuns)
=============================================================================
