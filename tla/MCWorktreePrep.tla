--------------------------- MODULE MCWorktreePrep ---------------------------
(***************************************************************************)
(* Two calls that prepare a task.  The clone is fresh, with the default    *)
(* branch on the remote, only local, or nowhere; or its sprint branch has  *)
(* fallen behind the remote's, or diverged from it; or the task has been   *)
(* worked on in another clone.                                             *)
(***************************************************************************)
EXTENDS WorktreePrep, TLC

CONSTANTS c1, c2, t1

Fresh(b)    == [NoRefs EXCEPT ![Default] = b]
Started(s)  == [Fresh({0}) EXCEPT ![Sprint] = s]
Clone(o, h) == [origin |-> o, heads |-> h]

\* The commits that are there to start with are numbered from 10.
MCClones ==
    {Clone(Fresh({0}), Fresh({0})), Clone(Fresh({}), Fresh({0})), Clone(Fresh({}), Fresh({})),
     Clone(Started({0, 10}), Started({0})), Clone(Started({0, 10}), Started({0, 11})),
     Clone([Started({0, 10}) EXCEPT ![t1] = {0, 10, 12}], Fresh({0}))}
=============================================================================
