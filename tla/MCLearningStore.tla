--------------------------- MODULE MCLearningStore ---------------------------
EXTENDS LearningStore, TLC

CONSTANTS a, b

Symmetric == Permutations(Proc) \cup Permutations(Pattern)

(* Two candidates for one pattern, or one for each.                        *)
FewCandidates == issued[a] + issued[b] <= 2
=============================================================================
