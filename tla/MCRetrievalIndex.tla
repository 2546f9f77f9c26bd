--------------------------- MODULE MCRetrievalIndex ---------------------------
(* Two chunks in two chapters; the chunking and the embedding profile change   *)
(* independently.                                                              *)
EXTENDS RetrievalIndexProps, TLC

CONSTANTS s, t, p, q

MCChapterOf == <<1, 2>>
MCConfigs   == {[scheme |-> s, profile |-> p], [scheme |-> s, profile |-> q],
                [scheme |-> t, profile |-> p]}
CommandSymmetry == Permutations(Commands)
===============================================================================
