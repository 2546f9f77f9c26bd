------------------------------- MODULE BookText -------------------------------
(***************************************************************************)
(* How a book file becomes chapters (ingestion/chapter_split.py, txt.py,   *)
(* epub.py) and a chapter becomes chunks (retrieval/chunker.py).           *)
(*                                                                         *)
(* A text is a sequence of lines, a line is only its kind: a chapter       *)
(* title, a volume title, a navigation word, a list of many titles on one  *)
(* line, prose, or nothing.  Offsets count lines; Width has the characters  *)
(* of a line, its end included.  Reading zip, XML and HTML is left out: an *)
(* EPUB is its entries in spine order and the table of contents, whose     *)
(* points are [volume, entries], volume telling whether the title reads    *)
(* like that of a volume.                                                  *)
(***************************************************************************)
EXTENDS Integers, Sequences, SequencesExt, FiniteSetsExt, Sublists

CONSTANTS NoVolume,
          Width,          \* characters of a line, by kind
          MinEntry,      \* _EMPTY_ENTRY_LEN
          MaxListing     \* characters from which a chapter is no listing

Kinds == {"chapter", "volume", "nav", "list", "body", "blank"}
ASSUME TextAssumption == Width \in [Kinds -> Nat] /\ MinEntry \in Nat /\ MaxListing \in Nat

Lines(text, lo, hi) == SubSeq(text, lo + 1, hi)
Chars(text) ==
    LET upto[n \in 0..Len(text)] == IF n = 0 THEN 0 ELSE upto[n - 1] + Width[text[n]]
    IN upto[Len(text)]
Filled(text) == Only(text, Kinds \ {"blank"})
LinesOf(text, kind) ==
    Only([i \in DOMAIN text |-> i - 1], {i \in 0..Len(text) - 1 : text[i + 1] = kind})

(* With a mistake: what stands before the first title is left out. *)
SplitAtTitles(text) ==
    LET at == LinesOf(text, "chapter")
    IN [i \in DOMAIN at |-> [lo |-> at[i], hi |-> IF i < Len(at) THEN at[i + 1] ELSE Len(text)]]

(* From title to title; the first chapter has what stands before it, too.   *)
SplitByTitles(text) ==
    LET at == LinesOf(text, "chapter")
    IN IF at # <<>> THEN [i \in DOMAIN at |->
                            [lo |-> IF i = 1 THEN 0 ELSE at[i],
                             hi |-> IF i < Len(at) THEN at[i + 1] ELSE Len(text)]]
       ELSE IF Filled(text) # <<>> THEN <<[lo |-> 0, hi |-> Len(text)]>> ELSE <<>>

Chapter(text, lo, hi, volume, ordinal) ==
    [lo |-> lo, hi |-> hi, hash |-> Lines(text, lo, hi), volume |-> volume, ordinal |-> ordinal]

(* The volumes that chapters name, under the title the first of them has.   *)
VolumesOf(chapters) ==
    LET named == {c.ordinal : c \in Range(chapters)} \ {NoVolume}
        used == Only([k \in 1..Max({0} \cup named) |-> k], named)
        First(n) == chapters[Min({i \in DOMAIN chapters : chapters[i].ordinal = n})]
    IN [k \in DOMAIN used |-> [ordinal |-> used[k] - 1, title |-> First(used[k]).volume]]

ParsedBook(text, chapters) == [text |-> text, chapters |-> chapters, volumes |-> VolumesOf(chapters)]

(* A chapter belongs to the last volume whose title it does not precede.    *)
ParseTxt(text) ==
    LET marks == LinesOf(text, "volume")
        Above(lo) == {v \in DOMAIN marks : marks[v] <= lo}
        Volume(lo) == IF Above(lo) = {} THEN NoVolume ELSE Max(Above(lo))
        cands == SplitByTitles(text)
    IN ParsedBook(text, [i \in DOMAIN cands |->
         Chapter(text, cands[i].lo, cands[i].hi, Volume(cands[i].lo), Volume(cands[i].lo))])

-----------------------------------------------------------------------------
(* EPUB *)

Listing == {"chapter", "volume", "nav", "list"}
MostlyListed(text) ==
    LET lines == Filled(text)
        other == Only(lines, Kinds \ Listing)
    IN lines # <<>> /\ 10 * Len(other) < Len(lines)
IsTocEntry(entry) ==
    (Len(Filled(entry)) >= 5 /\ MostlyListed(entry)) \/ Contains(entry, "list")
IsTocLine(text) == Chars(text) < MaxListing /\ MostlyListed(text)

(* What the table of contents says of an entry: a point of its first level  *)
(* has the entries that the leaves under each of its own points lead to,    *)
(* and the last leaf counts.  The ordinal counts the points of a volume,    *)
(* not the volumes.                                                         *)
Meta(toc, e) ==
    LET Points(v) == {k \in DOMAIN toc[v].entries : e \in toc[v].entries[k]}
        at == {v \in DOMAIN toc : Points(v) # {}}
        last == Max(at)
        named == at # {} /\ toc[last].volume
    IN [titled  |-> at # {},
        volume  |-> IF named THEN last ELSE NoVolume,
        ordinal |-> IF named THEN Max(Points(last)) ELSE NoVolume]

(* Entries are joined by an empty line, which the last chapter of an entry  *)
(* takes in.                                                                *)
Padded(entries) == [i \in DOMAIN entries |->
    entries[i] \o IF i < Len(entries) THEN <<"blank">> ELSE <<>>]
Joined(entries) == FlattenSeq(Padded(entries))
Offset(entries, i) == Len(FlattenSeq(SubSeq(Padded(entries), 1, i)))

EntryCandidates(entries, i, meta) ==
    LET whole == Joined(entries)
        from == Offset(entries, i - 1)
        to == Offset(entries, i)
        cands == SplitByTitles(entries[i])
        One(j) == Chapter(whole, from + cands[j].lo,
                          IF j = Len(cands) THEN to ELSE from + cands[j].hi,
                          meta.volume, meta.ordinal)
    IN IF IsTocEntry(entries[i])
       THEN <<[c |-> Chapter(whole, from, to, NoVolume, NoVolume), tiny |-> FALSE]>>
       ELSE [j \in DOMAIN cands |->
               [c |-> One(j), tiny |-> /\ Chars(One(j).hash) < MinEntry
                                       /\ LinesOf(entries[i], "chapter") = <<>> /\ ~meta.titled]]

(* A few characters without a title go to the chapter before, whose hash    *)
(* stays.                                                                   *)
WithCandidate(chapters, new) ==
    IF ~new.tiny THEN Append(chapters, new.c)
    ELSE IF chapters = <<>> THEN chapters
    ELSE [chapters EXCEPT ![Len(chapters)].hi = new.c.hi]

Collected(found) ==
    LET upto[n \in 0..Len(found)] ==
          IF n = 0 THEN <<>> ELSE WithCandidate(upto[n - 1], found[n])
    IN upto[Len(found)]

(* With a mistake: the next chapter keeps its hash.                         *)
WithoutTocLinesUnhashed(text, chapters) ==
    LET Step(s, c) ==
          IF IsTocLine(Lines(text, c.lo, c.hi))
          THEN [s EXCEPT !.from = IF @ < 0 THEN c.lo ELSE @]
          ELSE [out |-> Append(s.out, IF s.from < 0 THEN c ELSE [c EXCEPT !.lo = s.from]),
                from |-> -1]
        upto[n \in 0..Len(chapters)] ==
          IF n = 0 THEN [out |-> <<>>, from |-> -1] ELSE Step(upto[n - 1], chapters[n])
        end == upto[Len(chapters)]
        last == end.out[Len(end.out)]
    IN IF end.from < 0 \/ end.out = <<>> THEN end.out
       ELSE [end.out EXCEPT ![Len(end.out)] =
               Chapter(text, last.lo, Len(text), last.volume, last.ordinal)]

(* Chapters of nothing but titles go to the next real one, at the end of    *)
(* the book to the last.                                                    *)
WithoutTocLines(text, chapters) ==
    LET Reaching(c, lo, hi) == Chapter(text, lo, hi, c.volume, c.ordinal)
        Step(s, c) ==
          IF IsTocLine(Lines(text, c.lo, c.hi))
          THEN [s EXCEPT !.from = IF @ < 0 THEN c.lo ELSE @]
          ELSE [out |-> Append(s.out, IF s.from < 0 THEN c ELSE Reaching(c, s.from, c.hi)),
                from |-> -1]
        upto[n \in 0..Len(chapters)] ==
          IF n = 0 THEN [out |-> <<>>, from |-> -1] ELSE Step(upto[n - 1], chapters[n])
        end == upto[Len(chapters)]
        last == end.out[Len(end.out)]
    IN IF end.from < 0 \/ end.out = <<>> THEN end.out
       ELSE [end.out EXCEPT ![Len(end.out)] = Reaching(last, last.lo, Len(text))]

(* An entry of nothing but a cover is left out.                             *)
HasText(entry) == Filled(entry) # <<>> /\ Chars(entry) > MinEntry

ParseEpub(spine, toc) ==
    LET kept == Only([e \in DOMAIN spine |-> e], {e \in DOMAIN spine : HasText(spine[e])})
        entries == [i \in DOMAIN kept |-> spine[kept[i]]]
        found == FlattenSeq([i \in DOMAIN kept |-> EntryCandidates(entries, i, Meta(toc, kept[i]))])
        all == Collected(found)
        chapters == Only(all, {c \in Range(all) : c.hi > c.lo})
    IN ParsedBook(Joined(entries), WithoutTocLines(Joined(entries), chapters))

Parse(source) ==
    IF source.format = "txt" THEN ParseTxt(source.lines) ELSE ParseEpub(source.spine, source.toc)

-----------------------------------------------------------------------------
(* Chunks of a chapter of n tokens; a configuration is [target, percent,    *)
(* min].                                                                    *)
StepOf(config) == Max({config.target, 1})
OverlapOf(config) ==
    IF StepOf(config) > config.min THEN Max({(StepOf(config) * config.percent) \div 100, 1}) ELSE 0

(* With a mistake: the last piece, too, must be long enough. *)
ChunkTextOfMin(n, config) ==
    LET step == StepOf(config)
        overlap == OverlapOf(config)
        from[pos \in 0..n] ==
          LET end == Min({pos + step, n})
              here == IF end - pos >= config.min THEN <<[lo |-> pos, hi |-> end]>> ELSE <<>>
          IN IF pos = n THEN <<>> ELSE IF end = n THEN here
             ELSE here \o from[Max({end - overlap, pos + 1})]
    IN from[0]

ChunkText(n, config) ==
    LET step == StepOf(config)
        overlap == OverlapOf(config)
        from[pos \in 0..n] ==
          LET end == Min({pos + step, n})
              here == IF end - pos >= config.min \/ end = n THEN <<[lo |-> pos, hi |-> end]>>
                      ELSE <<>>
          IN IF pos = n THEN <<>> ELSE IF end = n THEN here
             ELSE here \o from[Max({end - overlap, pos + 1})]
    IN from[0]
===============================================================================
