---------------------------- MODULE BookImportProps ----------------------------
(* What the rest of the system takes for granted of the chapters of a book, the  *)
(* chunks of a chapter and the volumes of a grouping.                            *)
EXTENDS BookImport

CONSTANTS ChunkConfigs   \* configurations of the chunker that are tried

ASSUME ChunkAssumption == ChunkConfigs \subseteq [target : Nat, percent : Nat, min : Nat]

\* Imports that died half way, that were run again or beside each other: the stored
\* chapters follow each other without gap or overlap from the beginning of the
\* stored text, each with the hash of its range.  Once an import has come to its
\* end they reach the end of the text; only a book of nothing but titles has none.
ChaptersTile ==
    LET n == Cardinality(DOMAIN chapters)
    IN /\ DOMAIN chapters = 0..n - 1
       /\ \A o \in DOMAIN chapters :
            /\ chapters[o].lo = (IF o = 0 THEN 0 ELSE chapters[o - 1].hi)
            /\ chapters[o].lo < chapters[o].hi /\ chapters[o].hi <= Len(book.text)
            /\ chapters[o].hash = Lines(book.text, chapters[o].lo, chapters[o].hi)
       /\ complete => IF n = 0 THEN Filled(book.text) = <<>> \/ MostlyListed(book.text)
                      ELSE chapters[n - 1].hi = Len(book.text)

\* chunk_text, for every configuration whose chunks are not shorter than what is
\* kept: every token of a stored chapter is in a chunk, no chunk is longer than the
\* target or lies within its neighbour, and neighbours share what they should.
ChunksCover ==
    \A n \in {Chars(chapters[o].hash) : o \in DOMAIN chapters},
       config \in {c \in ChunkConfigs : StepOf(c) >= c.min} :
        LET cs == ChunkText(n, config)
            step == StepOf(config)
            overlap == OverlapOf(config)
            Shared(i) == cs[i - 1].hi - cs[i].lo
        IN /\ n > 0 => cs # <<>> /\ cs[1].lo = 0 /\ cs[Len(cs)].hi = n
           /\ \A i \in DOMAIN cs : cs[i].hi - cs[i].lo <= step
           /\ \A i \in 2..Len(cs) :
                /\ cs[i - 1].lo < cs[i].lo /\ cs[i - 1].hi < cs[i].hi
                /\ IF overlap < step THEN Shared(i) = overlap ELSE Shared(i) >= 0

\* The current grouping has the rows of an import, completed where they are.
TakenOver == \E v \in Current : volumes[v].version = 0

\* After a group-volumes, the volumes of the current grouping share out the chapters
\* without gap or overlap, and a chapter names the volume whose range it is in,
\* whatever volumes an import has left behind.  (A book that begins with a chapter of
\* no volume, before others of one, cannot be grouped.)  Only while no import has come to its
\* end can rows be taken over, which then need not be those the chapters name.
VolumesPartition ==
    fresh /\ (complete \/ ~TakenOver) =>
        /\ \A o \in DOMAIN chapters :
             /\ chapters[o].volume \in Current
             /\ volumes[chapters[o].volume].from <= o /\ o <= volumes[chapters[o].volume].to
        /\ \A v, w \in Current : v = w \/ volumes[v].to < volumes[w].from \/ volumes[w].to < volumes[v].from

--------------------------------------------------------------------------------
(* A statement of the repository that the code does not keep. *)

\* The design and volumes.py: group-volumes takes over the book's own volumes, with
\* the titles that the table of contents or the headings give them.
OwnTitlesKept ==
    fresh /\ complete =>
        \A o \in DOMAIN chapters :
            file.chapters[o + 1].volume # NoVolume =>
                volumes[chapters[o].volume].title = Own(file.chapters[o + 1].volume)

--------------------------------------------------------------------------------
(* Why the volumes share out the chapters. *)

Ordinals(f) == {c.ordinal : c \in Range(f.chapters)}

\* The volumes of a file have the numbers before those its chapters know them under.
Numbered(f) ==
    /\ Ordinals(f) \subseteq Nat \cup {NoVolume}
    /\ f.volumes \in Seq(Range(f.volumes))
    /\ \A x \in Range(f.volumes) : x.ordinal \in Nat /\ x.ordinal + 1 \in Ordinals(f)

\* Rows of version 0 come from an import, under the number before the one chapters
\* know; those of a grouping have its hash.  Rows are taken over from an import only
\* before all of its chapters are there.
RowInv ==
    /\ Numbered(file)
    /\ volumes \in Seq(Range(volumes))
    /\ \A v \in DOMAIN volumes :
         LET r == volumes[v]
         IN /\ r.version \in Nat /\ r.ordinal \in Nat
            /\ IF r.version = 0
               THEN /\ r.ordinal + 1 \in Ordinals(file)
                    /\ IF r.hash = NoHash THEN \E x \in Range(file.volumes) : r.title = Own(x.title)
                       ELSE Len(r.hash.texts) < Len(file.chapters)
               ELSE r.hash # NoHash

\* A chapter names no volume, one of a grouping, or that of an import it looked for;
\* an import knows the rows it made.
NamingInv ==
    /\ \A o \in DOMAIN chapters :
         LET v == chapters[o].volume
         IN \/ v = NoVolume
            \/ /\ v \in DOMAIN volumes
               /\ volumes[v].version = 0 => volumes[v].ordinal = file.chapters[o + 1].ordinal
    /\ \A p \in Commands : job[p].ids \in Seq(Range(job[p].ids))
    /\ \A p \in Commands : \A pair \in Range(job[p].ids) :
         /\ pair[2] \in DOMAIN volumes
         /\ volumes[pair[2]].version = 0 /\ volumes[pair[2]].ordinal = pair[1]

\* The volumes of the current grouping share out the chapters before m.
SharedOut(m) ==
    /\ \A o \in 0..m - 1 :
         /\ o \in DOMAIN chapters /\ chapters[o].volume \in Current
         /\ volumes[chapters[o].volume].from <= o /\ o <= volumes[chapters[o].volume].to
    /\ \A v, w \in Current : v = w \/ volumes[v].to < volumes[w].from \/ volumes[w].to < volumes[v].from

\* What a grouping has shared out stays so, whatever imports add to it; after a
\* group-volumes that is all, unless rows were taken over.
GroupedInv ==
    /\ ~TakenOver => \A v \in Current :
         /\ SharedOut(Len(volumes[v].hash.texts))
         /\ \A w \in Current : volumes[w].hash = volumes[v].hash
    /\ fresh => IF TakenOver THEN Cardinality(DOMAIN chapters) < Len(file.chapters)
                ELSE SharedOut(Cardinality(DOMAIN chapters))

VolumeInv == RowInv /\ NamingInv /\ GroupedInv

--------------------------------------------------------------------------------
(* Why the stored chapters tile the text. *)

\* Chapters cut a text from beginning to end, each hashed as it is.
Chaptered(cs, book_text) ==
    /\ \A i \in DOMAIN cs :
         /\ cs[i].lo = (IF i = 1 THEN 0 ELSE cs[i - 1].hi)
         /\ cs[i].hi \in Int /\ cs[i].lo < cs[i].hi /\ cs[i].hi <= Len(book_text)
         /\ cs[i].hash = Lines(book_text, cs[i].lo, cs[i].hi)
    /\ cs # <<>> => cs[Len(cs)].hi = Len(book_text)

\* What the parsers promise of a file.
WellCut(f) ==
    /\ f.text \in Seq(Kinds) /\ f.chapters \in Seq(Range(f.chapters))
    /\ Chaptered(f.chapters, f.text)
    /\ f.chapters = <<>> => Filled(f.text) = <<>> \/ MostlyListed(f.text)

ParsedInv == WellCut(file)

\* Imports write the chapters of the file in order, and what one of them has behind it
\* is stored; nothing is stored before the book.
StoredInv ==
    /\ book \in {NoBook, [text |-> file.text, there |-> TRUE]}
    /\ DOMAIN job = Commands
    /\ \A p \in Commands :
         /\ job[p] = [step |-> job[p].step, ids |-> job[p].ids, done |-> job[p].done]
         /\ job[p].done \in Nat
         /\ job[p].step \in {"volumes", "chapters"} => book.there
    /\ \E n \in 0..Len(file.chapters) :
         /\ DOMAIN chapters = 0..n - 1
         /\ n > 0 \/ complete => book.there
         /\ complete => n = Len(file.chapters)
         /\ \A p \in Commands : job[p].step = "chapters" => job[p].done <= n
    /\ \A o \in DOMAIN chapters :
         LET c == file.chapters[o + 1]
         IN chapters[o] = [lo |-> c.lo, hi |-> c.hi, hash |-> c.hash, volume |-> chapters[o].volume]
================================================================================
