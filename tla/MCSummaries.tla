------------------------------ MODULE MCSummaries ------------------------------
(* Two claims that read the same in a summary and one that does not; a run whose *)
(* first chapter is read again, and a run that has lost the second chapter.      *)
EXTENDS SummariesProps, TLC
CONSTANTS m1, m2, m3, g, h, r1, r2
MCGist  == m1 :> g @@ m2 :> g @@ m3 :> h
MCViews == {[run |-> r1, memory |-> <<m1, m3>>], [run |-> r1, memory |-> <<m2, m3>>],
            [run |-> r2, memory |-> <<m2, None>>]}
CommandSymmetry == Permutations(Commands)
================================================================================
