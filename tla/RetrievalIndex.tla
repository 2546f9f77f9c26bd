--------------------------- MODULE RetrievalIndex ---------------------------
(***************************************************************************)
(* The retrieval index of one book: reindex commands that build a version  *)
(* chunk by chunk and activate it, single chapter rebuilds, and a search   *)
(* that reads the tables in several statements.  A chunk's id is a hash of *)
(* chapter, chunking version and position; it does not name the index      *)
(* version, so builds with the same chunking write the same rows.          *)
(***************************************************************************)
EXTENDS Naturals, FiniteSets, FiniteSetsExt

CONSTANTS Size,       \* number of chunks the book is cut into
          ChapterOf,  \* the chapter of each of them
          Configs,    \* [scheme, profile]: chunking version, embedding profile
          Commands,   \* processes that run build_index or rebuild_chapter
          None,
          MaxBuilds,  \* bound on the index versions
          MaxRebuilds,\* bound on the chapter rebuilds
          MaxFaults,  \* bound on the commands that die half way
          MaxSearches \* bound on the searches

ASSUME IndexAssumption ==
  /\ Size \in Nat \ {0} /\ MaxBuilds \in Nat /\ MaxFaults \in Nat
  /\ MaxRebuilds \in Nat /\ MaxSearches \in Nat
  /\ DOMAIN ChapterOf = 1..Size
  /\ None \notin Configs /\ \A c \in Configs : c.profile # None

VARIABLES status, config,   \* index_versions
          row,              \* raw_chunks with their embedding record
          shown,            \* chunk ids that have FTS rows
          job,              \* the running commands
          reader,           \* one search of the query path
          rebuilds, faults, searches, touched, overlapped, gaps
tables  == <<status, config, row, shown>>
bounds  == <<rebuilds, faults, searches>>
history == <<touched, overlapped, gaps>>
vars    == <<tables, job, reader, bounds, history>>

Versions == 1..MaxBuilds
Schemes  == {c.scheme : c \in Configs}
Profiles == {c.profile : c \in Configs}
Places   == 1..Size
Chunks   == Schemes \X Places

\* A chunk that is not stored.
NoRow  == [owner |-> 0, record |-> 0, vector |-> None]
Stored == {c \in Chunks : row[c] # NoRow}
Idle   == [step |-> "idle", rebuild |-> FALSE, version |-> 0, todo |-> {}, record |-> 0]
Still  == [step |-> "idle", profile |-> None, reported |-> 0, used |-> 0,
           fts |-> {}, vec |-> {}, moved |-> FALSE]

JobType == [step : {"idle", "delete", "write", "embed"}, rebuild : BOOLEAN,
            version : 0..MaxBuilds, todo : SUBSET Places, record : Nat]
ReaderType == [step : {"idle", "index", "fts", "vector", "count", "search", "hydrate",
                       "answered", "refused"},
               profile : Profiles \cup {None}, reported : 0..MaxBuilds, used : 0..MaxBuilds,
               fts : SUBSET Chunks, vec : SUBSET Chunks, moved : BOOLEAN]
RowType == [owner : 0..MaxBuilds, record : Nat, vector : Profiles \cup {None}]

TypeOK ==
  /\ status \in [Versions -> {"none", "building", "active", "retired"}]
  /\ config \in [Versions -> Configs \cup {None}]
  /\ row \in [Chunks -> RowType] /\ shown \subseteq Chunks
  /\ job \in [Commands -> JobType] /\ reader \in ReaderType
  /\ touched \subseteq Versions /\ gaps \subseteq Chunks /\ overlapped \in BOOLEAN
  /\ rebuilds \in Nat /\ faults \in Nat /\ searches \in Nat

Init ==
  /\ status = [v \in Versions |-> "none"] /\ config = [v \in Versions |-> None]
  /\ row = [c \in Chunks |-> NoRow] /\ shown = {}
  /\ job = [w \in Commands |-> Idle] /\ reader = Still
  /\ rebuilds = 0 /\ faults = 0 /\ searches = 0
  /\ touched = {} /\ overlapped = FALSE /\ gaps = {}
-----------------------------------------------------------------------------
(* The commands. *)

Active == {v \in Versions : status[v] = "active"}

ChunkOf(v, i) == <<config[v].scheme, i>>

\* INTEGER PRIMARY KEY without AUTOINCREMENT: the largest id in use, plus one.
\* The REPLACE has deleted the chunk's old record by cascade before that, so
\* the largest id is given out again when that record had it.
NextRecord(c) == 1 + Max({0} \cup {row[d].record : d \in Stored \ {c}})

Begin(w, v, rebuild, step, todo) ==
  /\ job[w] = Idle
  /\ job' = [job EXCEPT ![w] = [step |-> step, rebuild |-> rebuild, version |-> v,
                                todo |-> todo, record |-> 0]]
  /\ overlapped' = (overlapped \/ \E u \in Commands \ {w} : job[u] # Idle)

\* The chunks of a command are written in the order of the book.
Ahead(w) == ChunkOf(job[w].version, Min(job[w].todo))

\* With a mistake: a reindex clears the full text tables first.
StartClearing(w, c) ==
  \E v \in Versions :
    /\ status[v] = "none" /\ \A u \in 1..(v - 1) : status[u] # "none"
    /\ Begin(w, v, FALSE, "write", Places)
    /\ status' = [status EXCEPT ![v] = "building"]
    /\ config' = [config EXCEPT ![v] = c]
    /\ shown' = {}
    /\ UNCHANGED <<row, reader, bounds, touched, gaps>>

\* With a mistake: the old version is retired when the build begins.
StartRetiring(w, c) ==
  \E v \in Versions :
    /\ status[v] = "none" /\ \A u \in 1..(v - 1) : status[u] # "none"
    /\ Begin(w, v, FALSE, "write", Places)
    /\ status' = [u \in Versions |-> IF u = v THEN "building"
                                     ELSE IF u \in Active THEN "retired" ELSE status[u]]
    /\ config' = [config EXCEPT ![v] = c]
    /\ UNCHANGED <<row, shown, reader, bounds, touched, gaps>>

\* build_index: a version of its own, before any chunk.
Start(w, c) ==
  \E v \in Versions :
    /\ status[v] = "none" /\ \A u \in 1..(v - 1) : status[u] # "none"
    /\ Begin(w, v, FALSE, "write", Places)
    /\ status' = [status EXCEPT ![v] = "building"]
    /\ config' = [config EXCEPT ![v] = c]
    /\ UNCHANGED <<row, shown, reader, bounds, touched, gaps>>

\* rebuild_chapter: of the version that is active now.
StartRebuild(w, h) ==
  /\ rebuilds < MaxRebuilds /\ rebuilds' = rebuilds + 1
  /\ \E v \in Active : Begin(w, v, TRUE, "delete", {i \in Places : ChapterOf[i] = h})
  /\ UNCHANGED <<tables, reader, faults, searches, touched, gaps>>

\* Drops the chapter's chunks that the version still owns, their embedding
\* records (by cascade) and their FTS rows, in one transaction.
Delete(w) ==
  LET v    == job[w].version
      gone == {c \in Stored : row[c].owner = v /\ c[2] \in job[w].todo}
  IN /\ job[w].step = "delete"
     /\ row' = [c \in Chunks |-> IF c \in gone THEN NoRow ELSE row[c]]
     /\ shown' = shown \ gone
     /\ job' = [job EXCEPT ![w].step = "write"]
     /\ touched' = touched \cup {v} /\ gaps' = gaps \cup gone
     /\ UNCHANGED <<status, config, reader, bounds, overlapped>>

\* With a mistake: INSERT OR IGNORE, a chunk that is stored stays with its owner ...
WriteIfMissing(w) ==
  /\ job[w].step = "write" /\ job[w].todo # {}
  /\ LET v == job[w].version
         c == Ahead(w)
         r == IF c \in Stored THEN row[c]
              ELSE [owner |-> v, record |-> NextRecord(c), vector |-> None]
     IN /\ row' = [row EXCEPT ![c] = r]
        /\ shown' = shown \cup {c}
        /\ job' = [job EXCEPT ![w].step = "embed", ![w].record = r.record]
        /\ gaps' = gaps \ {c}
  /\ UNCHANGED <<status, config, reader, bounds, touched, overlapped>>

\* ... or an upsert that keeps the vector the record had.
WriteKeepingVector(w) ==
  /\ job[w].step = "write" /\ job[w].todo # {}
  /\ LET v == job[w].version
         c == Ahead(w)
     IN /\ row' = [row EXCEPT ![c] = [owner |-> v, record |-> NextRecord(c),
                                      vector |-> row[c].vector]]
        /\ shown' = shown \cup {c}
        /\ job' = [job EXCEPT ![w].step = "embed", ![w].record = NextRecord(c)]
        /\ touched' = touched \cup ({row[c].owner} \ {0, v})
        /\ gaps' = gaps \ {c}
  /\ UNCHANGED <<status, config, reader, bounds, overlapped>>

\* The first half of _write_chunk: the row changes hands, its vector is gone.
Write(w) ==
  /\ job[w].step = "write" /\ job[w].todo # {}
  /\ LET v == job[w].version
         c == Ahead(w)
     IN /\ row' = [row EXCEPT ![c] = [owner |-> v, record |-> NextRecord(c), vector |-> None]]
        /\ shown' = shown \cup {c}
        /\ job' = [job EXCEPT ![w].step = "embed", ![w].record = NextRecord(c)]
        /\ touched' = touched \cup ({row[c].owner} \ {0, v})
        /\ gaps' = gaps \ {c}
  /\ UNCHANGED <<status, config, reader, bounds, overlapped>>

\* The second half: the embedding service answered; the vector goes to whatever
\* record has the id now, or nowhere.
Store(w) ==
  /\ job[w].step = "embed"
  /\ row' = [c \in Chunks |-> IF c \in Stored /\ row[c].record = job[w].record
                              THEN [row[c] EXCEPT !.vector = config[job[w].version].profile]
                              ELSE row[c]]
  /\ job' = [job EXCEPT ![w].step = "write", ![w].todo = @ \ {Min(@)}, ![w].record = 0]
  /\ UNCHANGED <<status, config, shown, reader, bounds, history>>

\* The swap at the end of build_index, one transaction.
Activate(w) ==
  /\ job[w].step = "write" /\ job[w].todo = {} /\ ~job[w].rebuild
  /\ status' = [v \in Versions |-> IF v = job[w].version THEN "active"
                                   ELSE IF v \in Active THEN "retired" ELSE status[v]]
  /\ job' = [job EXCEPT ![w] = Idle]
  /\ reader' = [reader EXCEPT !.moved = TRUE]
  /\ UNCHANGED <<config, row, shown, bounds, history>>

EndRebuild(w) ==
  /\ job[w].step = "write" /\ job[w].todo = {} /\ job[w].rebuild
  /\ job' = [job EXCEPT ![w] = Idle]
  /\ UNCHANGED <<tables, reader, bounds, history>>

\* The embedding service fails, or the process dies: nothing is cleaned up.
Fail(w) ==
  /\ job[w] # Idle /\ faults < MaxFaults /\ faults' = faults + 1
  /\ job' = [job EXCEPT ![w] = Idle]
  /\ UNCHANGED <<tables, reader, rebuilds, searches, history>>
-----------------------------------------------------------------------------
(* hybrid_search, with the backend the API chose for it. *)

Read(from, next) == /\ reader.step = from
                    /\ reader' = next
                    /\ UNCHANGED <<tables, job, bounds, history>>
Refused == [reader EXCEPT !.step = "refused"]

\* _runtime_backend: the embedder of the active index's profile.
Backend ==
  /\ reader.step = "idle" /\ searches < MaxSearches /\ searches' = searches + 1
  /\ reader' = [Still EXCEPT !.step = "index",
                             !.profile = IF Active = {} THEN None
                                         ELSE config[CHOOSE v \in Active : TRUE].profile]
  /\ UNCHANGED <<tables, job, rebuilds, faults, history>>

ReadIndex == Read("index", IF Active = {} THEN Refused
                           ELSE [reader EXCEPT !.step = "fts",
                                               !.reported = CHOOSE v \in Active : TRUE])

\* FTS rows carry no index version.
ReadFts == Read("fts", [reader EXCEPT !.step = "vector", !.fts = shown])

\* search_vectors reads the active index again and checks its profile.
ReadAgain ==
  Read("vector", LET v == CHOOSE v \in Active : TRUE
                 IN IF Active # {} /\ config[v].profile = reader.profile
                    THEN [reader EXCEPT !.step = "count", !.used = v]
                    ELSE Refused)

Owned(v) == {c \in Stored : row[c].owner = v}

CountRecords == Read("count", IF Owned(reader.used) = {} THEN Refused
                              ELSE [reader EXCEPT !.step = "search"])

SearchVectors == Read("search", [reader EXCEPT !.step = "hydrate",
                                   !.vec = {c \in Owned(reader.used) : row[c].vector # None}])

\* Ids without a row any more are skipped.
Hydrate == Read("hydrate", [reader EXCEPT !.step = "answered",
                              !.fts = @ \cap Stored, !.vec = @ \cap Stored])

Respond == reader.step \in {"answered", "refused"} /\ Read(reader.step, Still)
-----------------------------------------------------------------------------
Command(w) == \/ \E c \in Configs : Start(w, c)
              \/ \E i \in Places : StartRebuild(w, ChapterOf[i])
              \/ Delete(w) \/ Write(w) \/ Store(w) \/ Activate(w) \/ EndRebuild(w)
              \/ Fail(w)

Search == \/ Backend \/ ReadIndex \/ ReadFts \/ ReadAgain \/ CountRecords
          \/ SearchVectors \/ Hydrate \/ Respond

Next == Search \/ \E w \in Commands : Command(w)

Spec == Init /\ [][Next]_vars
=============================================================================
