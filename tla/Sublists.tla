------------------------------- MODULE Sublists -------------------------------
(* The elements of a sequence that are in a set, in their order: SelectSeq     *)
(* with a set for the test and by a recursive function, so that what it        *)
(* returns can be proved as well as evaluated.                                 *)
EXTENDS Naturals, Sequences

Only(seq, S) ==
    LET upto[n \in 0..Len(seq)] ==
          IF n = 0 THEN <<>>
          ELSE IF seq[n] \in S THEN Append(upto[n - 1], seq[n]) ELSE upto[n - 1]
    IN upto[Len(seq)]
===============================================================================
