---------------------------- MODULE MCBookImport ----------------------------
(* TXT files of up to four lines and EPUBs of up to three entries, one of     *)
(* which may be a page of titles, with different tables of contents.          *)
EXTENDS BookImportProps, TLC

MCWidth   == [chapter |-> 6, volume |-> 4, nav |-> 3, list |-> 60, body |-> 12, blank |-> 1]
MCEntries == {<<"list", "body">>, <<"body">>,
              <<"body", "chapter", "body">>, <<"chapter", "chapter", "nav", "chapter", "chapter">>}
MCTocs    == {<<[volume |-> TRUE, entries |-> <<{1}, {2}>>], [volume |-> TRUE, entries |-> <<{3}>>]>>,
              <<[volume |-> FALSE, entries |-> <<{1}>>], [volume |-> TRUE, entries |-> <<{3}>>]>>}
Upto(n, S) == UNION {[1..k -> S] : k \in 0..n}
TxtFiles  == {[format |-> "txt", lines |-> l] : l \in Upto(4, {"chapter", "volume", "body"})}
EpubFiles == {[format |-> "epub", spine |-> e, toc |-> c] : e \in Upto(3, MCEntries), c \in MCTocs}
Shuffled  == [format |-> "epub", spine |-> [e \in 1..3 |-> <<"chapter", "body">>],
              toc |-> <<[volume |-> TRUE, entries |-> <<{9}, {1, 3}, {2}>>],
                        [volume |-> TRUE, entries |-> <<{9}, {3}>>]>>]
MCSources == TxtFiles \cup EpubFiles \cup {Shuffled}
TwoVolumes == {[format |-> "txt", lines |-> <<"volume", "chapter", "volume", "chapter", "body">>]}

MCChunkConfigs == [target : {3, 10}, percent : {15, 100}, min : {3}]
CommandSymmetry == Permutations(Commands)
==============================================================================
