------------------------------ MODULE BookImport ------------------------------
(***************************************************************************)
(* The tables books, volumes and chapters of one book: import commands     *)
(* (ingestion/service.py), which write row by row and may die in between,  *)
(* and group-volumes (summaries/volumes.py), here one step, which takes    *)
(* over the volumes of the book or cuts it into volumes of equal size; one *)
(* that raises an error leaves everything as it is.                        *)
(* A volume is named by its place in the table, chapters by their ordinal  *)
(* from 0.  The title of a volume is that of the book's own volume with    *)
(* this number, or a made up one.  Versions are numbers, 0 those of an     *)
(* import; as text, as the code compares them, they agree up to nine.      *)
(***************************************************************************)
EXTENDS BookText

CONSTANTS Commands, Sources,
          PerVolume,     \* chapters_per_volume
          MaxImports, MaxKills, MaxGroupings   \* bounds

ASSUME ImportAssumption ==
    /\ PerVolume \in Nat \ {0} /\ {MaxImports, MaxKills} \subseteq Nat /\ MaxGroupings \in 0..9
    /\ NoVolume \notin Nat
    /\ \A s \in Sources :
         IF s.format = "txt" THEN s.lines \in Seq(Kinds)
         ELSE s.spine \in Seq(Seq(Kinds)) /\ s.toc \in Seq([volume : BOOLEAN, entries : Seq(SUBSET Nat)])

VARIABLES file,               \* what the parser makes of the file imported under this id
          book, volumes, chapters,
          job,                \* step, ids of the volumes by ordinal, rows written
          imports, kills,
          complete,           \* an import has come to its end
          fresh               \* nothing was written since the last group-volumes

tables == <<book, volumes, chapters>>
importVars == <<file, tables, job, imports, kills, complete, fresh>>

NoBook == [text |-> <<>>, there |-> FALSE]
Idle == [step |-> "idle", ids |-> <<>>, done |-> 0]
NoHash == <<>>
Own(v) == <<"own", v>>
MadeUp(k) == <<"made up", k>>

ImportInit ==
    /\ file \in {Parse(s) : s \in Sources}
    /\ book = NoBook /\ volumes = <<>> /\ chapters = <<>>
    /\ job = [p \in Commands |-> Idle]
    /\ imports = 0 /\ kills = 0 /\ complete = FALSE /\ fresh = FALSE

Goto(p, step) == job' = [job EXCEPT ![p].step = step, ![p].done = 0]

-----------------------------------------------------------------------------
(* import_book: one transaction for each row; what is there is left alone. *)

Start(p) ==
    /\ job[p].step = "idle" /\ imports < MaxImports
    /\ imports' = imports + 1
    /\ job' = [job EXCEPT ![p] = [Idle EXCEPT !.step = "book"]]
    /\ UNCHANGED <<file, tables, kills, complete, fresh>>

CreateBook(p) ==
    /\ job[p].step = "book"
    /\ book' = IF book.there THEN book ELSE [text |-> file.text, there |-> TRUE]
    /\ Goto(p, "volumes")
    /\ UNCHANGED <<file, volumes, chapters, imports, kills, complete, fresh>>

(* A new id each time, so an import that is run again adds them again.      *)
CreateVolume(p) ==
    LET n == job[p].done + 1
    IN /\ job[p].step = "volumes"
       /\ IF n > Len(file.volumes)
          THEN Goto(p, "chapters") /\ UNCHANGED <<volumes, fresh>>
          ELSE /\ volumes' = Append(volumes, [title |-> Own(file.volumes[n].title),
                                              ordinal |-> file.volumes[n].ordinal, version |-> 0,
                                              from |-> NoVolume, to |-> NoVolume,
                                              source |-> NoVolume, hash |-> NoHash])
               /\ job' = [job EXCEPT ![p].done = n,
                                     ![p].ids = Append(@, <<file.volumes[n].ordinal, Len(volumes) + 1>>)]
               /\ fresh' = FALSE
       /\ UNCHANGED <<file, book, chapters, imports, kills, complete>>

(* The volume a chapter names is looked for under the ordinal of the rows.  *)
VolumeId(p, ordinal) ==
    LET at == Only(job[p].ids, {pair \in Range(job[p].ids) : ordinal # NoVolume /\ pair[1] = ordinal})
    IN IF at = <<>> THEN NoVolume ELSE at[1][2]

CreateChapter(p) ==
    LET n == job[p].done + 1
        c == file.chapters[n]
    IN /\ job[p].step = "chapters"
       /\ IF n > Len(file.chapters)
          THEN Goto(p, "idle") /\ complete' = TRUE /\ UNCHANGED <<chapters, fresh>>
          ELSE /\ chapters' = [o \in DOMAIN chapters \cup {n - 1} |->
                                 IF o \in DOMAIN chapters THEN chapters[o]
                                 ELSE [lo |-> c.lo, hi |-> c.hi, hash |-> c.hash,
                                       volume |-> VolumeId(p, c.ordinal)]]
               /\ job' = [job EXCEPT ![p].done = n]
               /\ fresh' = FALSE /\ UNCHANGED complete
       /\ UNCHANGED <<file, book, volumes, imports, kills>>

Kill(p) ==
    /\ job[p].step # "idle" /\ kills < MaxKills
    /\ kills' = kills + 1
    /\ job' = [job EXCEPT ![p] = Idle]
    /\ UNCHANGED <<file, tables, imports, complete, fresh>>

-----------------------------------------------------------------------------
(* group-volumes *)

Current == {v \in DOMAIN volumes : \A w \in DOMAIN volumes : volumes[w].version <= volumes[v].version}
InOrder == Only([k \in DOMAIN file.chapters |-> k - 1], DOMAIN chapters)

(* The row the current grouping begins with.                                *)
FirstRow ==
    CHOOSE v \in Current : \A w \in Current :
        \/ volumes[v].ordinal < volumes[w].ordinal
        \/ volumes[v].ordinal = volumes[w].ordinal /\ v <= w

(* Where the volumes come from does not change once they are grouped.       *)
DetectSource ==
    IF Current # {} /\ volumes[FirstRow].source # NoVolume THEN volumes[FirstRow].source
    ELSE IF \E o \in DOMAIN chapters : chapters[o].volume # NoVolume THEN "source" ELSE "default"

(* With a mistake: the chapters of a volume are one group wherever they are. *)
SourceBoundariesByVolume ==
    LET used == SetToSeq({chapters[o].volume : o \in DOMAIN chapters})
        In(v) == {o \in DOMAIN chapters : chapters[o].volume = v}
    IN [k \in DOMAIN used |-> [volume |-> used[k], title |-> MadeUp(k),
                               from |-> Min(In(used[k])), to |-> Max(In(used[k]))]]

(* Chapters in a row that name the same volume, the first of them one.      *)
SourceBoundaries ==
    LET TitleOf(v, k) == IF v \in Current THEN volumes[v].title ELSE MadeUp(k)
        Step(groups, o) ==
          LET v == chapters[o].volume
          IN IF groups # <<>> /\ groups[Len(groups)].volume = v
             THEN [groups EXCEPT ![Len(groups)].to = o]
             ELSE Append(groups, [volume |-> v, title |-> TitleOf(v, Len(groups) + 1),
                                  from |-> o, to |-> o])
        upto[n \in 0..Len(InOrder)] == IF n = 0 THEN <<>> ELSE Step(upto[n - 1], InOrder[n])
    IN upto[Len(InOrder)]

DefaultBoundaries ==
    LET n == Len(InOrder)
    IN [k \in 1..((n + PerVolume - 1) \div PerVolume) |->
         [volume |-> NoVolume, title |-> MadeUp(k), from |-> InOrder[PerVolume * (k - 1) + 1],
          to |-> InOrder[Min({PerVolume * k, n})]]]

(* _source_boundaries looks for the last group of none when the first       *)
(* chapter, a preface, names no volume: an IndexError before any write.     *)
Headless == DetectSource = "source" /\ chapters[InOrder[1]].volume = NoVolume

Boundaries == IF DetectSource = "source" THEN SourceBoundaries ELSE DefaultBoundaries

Hash == [source |-> DetectSource,
         ranges |-> [k \in DOMAIN Boundaries |-> <<Boundaries[k].from, Boundaries[k].to, Boundaries[k].title>>],
         texts |-> [k \in DOMAIN InOrder |-> chapters[InOrder[k]].hash]]

(* Rows without a hash are completed if they are the ones expected, by number *)
(* and title; those of an import count from 0, the expected ones from 1.    *)
Matches ==
    /\ \A v \in Current : volumes[v].hash = NoHash /\ volumes[v].ordinal \in DOMAIN Boundaries
    /\ \A k \in DOMAIN Boundaries : \E v \in Current :
         /\ volumes[v].title = Boundaries[k].title
         /\ \A w \in Current : volumes[w].ordinal = k <=> w = v

Rows(version) ==
    [k \in DOMAIN Boundaries |->
        [title |-> Boundaries[k].title, ordinal |-> k, version |-> version,
         from |-> Boundaries[k].from, to |-> Boundaries[k].to, source |-> DetectSource, hash |-> Hash]]

(* Chapters move to the new rows.                                           *)
Pointed(table) ==
    [o \in DOMAIN table |->
        [table[o] EXCEPT !.volume = Len(volumes) + CHOOSE k \in DOMAIN Boundaries :
                                       Boundaries[k].from <= o /\ o <= Boundaries[k].to]]

Group ==
    LET newest == IF Current = {} THEN 0 ELSE volumes[FirstRow].version
    IN /\ DOMAIN chapters # {} /\ ~fresh /\ ~Headless
       /\ IF Current # {} /\ volumes[FirstRow].hash = Hash THEN UNCHANGED <<volumes, chapters>>
          ELSE IF Current # {} /\ Matches
          THEN /\ volumes' = [v \in DOMAIN volumes |->
                   IF v \in Current THEN Rows(newest)[volumes[v].ordinal] ELSE volumes[v]]
               /\ UNCHANGED chapters
          ELSE /\ newest < MaxGroupings
               /\ volumes' = volumes \o Rows(newest + 1)
               /\ chapters' = Pointed(chapters)
       /\ fresh' = TRUE
       /\ UNCHANGED <<file, book, job, imports, kills, complete>>

ImportNext ==
    \/ Group
    \/ \E p \in Commands :
          Start(p) \/ CreateBook(p) \/ CreateVolume(p) \/ CreateChapter(p) \/ Kill(p)

ImportSpec == ImportInit /\ [][ImportNext]_importVars
=============================================================================
