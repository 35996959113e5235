---------------------------- MODULE MCGitHubSync ----------------------------
(* Two sprints; two tasks of the first, one blocked by the other; a third  *)
(* id in the second sprint that an issue can be moved to.                  *)
EXTENDS GitHubSync, TLC
CONSTANTS s1, s2, k1, k2, i1, i2, i3, c1, c2
MCSprintOf == i1 :> s1 @@ i2 :> s1 @@ i3 :> s2
MCSprintNo == s1 :> 1 @@ s2 :> 2
MCSequenceNo == i1 :> 1 @@ i2 :> 2 @@ i3 :> 3
MCFirstId == k1 :> i1 @@ k2 :> i2
MCBlockedBy == k1 :> {} @@ k2 :> {k1}
Symmetry == Permutations(Callers)
=============================================================================
