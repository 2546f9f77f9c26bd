--------------------------- MODULE ClaimStoreProps ---------------------------
(* Properties of ClaimStore. *)
EXTENDS ClaimStore

\* Version chains are well founded: what a row supersedes is an older row of
\* the same fact, and no chain begins with an update or a retraction, however
\* many align commands of different runs insert at the same time.
ChainsPointBack ==
  \A v \in Versions :
    /\ supersedes[v] # None => /\ Stored(supersedes[v])
                               /\ FactOf[supersedes[v]] = FactOf[v]
                               /\ rowid[supersedes[v]] < rowid[v]
    /\ Stored(v) /\ Operation[v] # "assert" => supersedes[v] # None

Elders(v) == {w \in Versions : /\ Stored(w)
                               /\ FactOf[w] = FactOf[v]
                               /\ rowid[w] < rowid[v]}

\* As long as commands have run one at a time (the single writer that
\* Repository asks of its callers), crashes included, a fact's versions form
\* one line: each supersedes the row before it, and only the first supersedes
\* nothing.
ChainIsLinear ==
  ~overlapped => \A v \in Versions : Stored(v) =>
                   \A w \in Elders(v) : /\ supersedes[v] # None
                                        /\ rowid[w] <= rowid[supersedes[v]]

Traced(r, c) == /\ <<r, c.version>> \in observed
                /\ [version |-> c.version, chapter |-> c.chapter, run |-> r]
                     \in evidence
                /\ status[c.version] = "supported"

\* A run whose align command went through has all its claims observed,
\* supported and backed by evidence of its own, and other runs, which write
\* the same rows and may die half way, do not take that away.
AlignedIsTraceable ==
  \A r \in aligned : \A i \in 1..Len(draft[r]) : Traced(r, draft[r][i])

\* What such a run answers at any cutoff, and the evidence it shows, stays as
\* it is whatever other runs do: writing the same versions, adding versions to
\* the same facts, being activated, crashing.
AnswersStand ==
  [][\A r \in aligned : \A k \in Chapters : Answered(r, k)' = Answered(r, k)]_vars

-------------------------------------------------------------------------------
(* The inductive invariants behind the proofs *)

\* Rows: rowids grow, and only rows are supported, and observed by runs that
\* have the version in their draft.
StoreInv ==
  /\ \A v \in Versions : rowid[v] <= last
  /\ \A v \in Versions : status[v] = "supported" => Stored(v)
  /\ \A r \in Runs, v \in Versions : <<r, v>> \in observed =>
       /\ Stored(v)
       /\ \E i \in 1..Len(draft[r]) : draft[r][i].version = v

\* A command that is alive has dealt with the claims before the one it is at,
\* and with that one as far as its next step tells.
Progress(r) ==
  /\ ~Busy(r) => pos[r] = 1
  /\ Busy(r) => \A i \in 1..(pos[r] - 1) : Traced(r, draft[r][i])
  /\ pc[r] \in {"insert", "primary", "evidence", "status"} =>
       pos[r] <= Len(draft[r])
  /\ pc[r] \in {"primary", "evidence", "status"} => <<r, Version(r)>> \in observed
  /\ pc[r] = "status" => EvidenceFor(r) \in evidence

ProgressInv == \A r \in Runs : Progress(r)

\* What a command is about to supersede is a row of the fact, and while there
\* is one command it is still the latest.
Found(r) ==
  pc[r] = "insert" =>
    /\ found[r] # None => /\ Stored(found[r])
                          /\ FactOf[found[r]] = FactOf[Version(r)]
    /\ MayBegin(Version(r), found[r])
    /\ ~overlapped => IsLatest(found[r], Version(r))

FoundInv == /\ ~overlapped => \A q, r \in Runs : Busy(q) /\ Busy(r) => q = r
            /\ \A r \in Runs : Found(r)

ClaimInv == StoreInv /\ ProgressInv /\ FoundInv
===============================================================================
