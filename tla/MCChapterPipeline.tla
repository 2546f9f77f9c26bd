--------------------------- MODULE MCChapterPipeline ---------------------------
(* Model values and symmetry for the chapter pipeline. *)
EXTENDS ChapterPipelineProps, TLC

Symmetric == Permutations(Runs) \cup Permutations(Chapters)
===============================================================================
