------------------------- MODULE RetrievalIndexProps -------------------------
(* What the retrieval index promises to those who search it. *)
EXTENDS RetrievalIndex

\* A version that nobody wrote over since its build has every chunk of the
\* book, each with a vector: neither a build that died nor one that lost its
\* records to another is ever activated as if it were whole.
ServedIsWhole ==
  \A v \in Active \ touched :
    \A i \in Places : /\ row[ChunkOf(v, i)].owner = v
                      /\ row[ChunkOf(v, i)].vector # None

\* Record ids are given out again; as long as commands run one after the other,
\* a vector still comes from the embedder its record names, after any failure.
VectorsMatchProfile ==
  ~overlapped => \A c \in Stored : row[c].vector \in {None, config[row[c].owner].profile}

\* Builds, failed ones included, never take text out of the full text search:
\* once a version is served every place of the book can be found, except where
\* a chapter rebuild has deleted it and not (or never) put it back.
TextStaysFindable ==
  Active # {} => \A i \in Places : \E s \in Schemes : <<s, i>> \in shown \cup gaps

\* A search fails only where there was no index, where another index was
\* activated during the search, or where a command has written over the chunks
\* of the one it used.
RefusalExplained ==
  reader.step = "refused" =>
    \/ reader.moved
    \/ reader.reported = 0
    \/ reader.used \in touched
===============================================================================
