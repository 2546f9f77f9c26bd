----------------------------- MODULE MCClaimStore -----------------------------
(***************************************************************************)
(* One fact that is asserted, updated and retracted, and another fact;     *)
(* runs that read them differently.  Facts reach over chapters only where  *)
(* their id has no mention in it, as for terms and foreshadowing: mentions *)
(* are named within a chapter.                                             *)
(***************************************************************************)
EXTENDS ClaimStoreProps, TLC

CONSTANTS r1, r2, v1, v2, v3, w1

MCRuns      == {r1, r2}
MCVersions  == {v1, v2, v3, w1}
MCFactOf    == [v \in MCVersions |-> IF v = w1 THEN "g" ELSE "f"]
MCOperation == [v \in MCVersions |-> CASE v = v2 -> "update"
                                       [] v = v3 -> "retract"
                                       [] OTHER  -> "assert"]
MCChapters  == {1, 2}

At(v, c) == [version |-> v, chapter |-> c]

(* One draft has everything, one starts with the revision, one misses it,  *)
(* one meets the assertion late and after another fact.                    *)
MCDrafts == {<<At(v1, 1), At(v2, 1), At(v3, 2)>>,
             <<At(v2, 1), At(v3, 2)>>,
             <<At(v1, 1), At(v1, 2)>>,
             <<At(w1, 1), At(v1, 2)>>}

(* Runs are interchangeable. *)
RunSymmetry == Permutations(MCRuns)
===============================================================================
