------------------------------ MODULE Summaries ------------------------------
(***************************************************************************)
(* Volume groupings and hierarchical summaries of one book whose volumes   *)
(* come from the default grouping.  The commands group-volumes and         *)
(* summarize run beside aligns and activations, which change what the      *)
(* summaries are made of.                                                  *)
(***************************************************************************)
EXTENDS Naturals, Sequences, FiniteSets, FiniteSetsExt, Functions

CONSTANTS Chapters,      \* 1..n
          Commands, None,
          Views,         \* [run, memory]: the run that is served, its claims by chapter
          GistOf,        \* the text a summarizer makes of a chapter's claims
          Sizes,         \* chapters per volume that a command asks for
          Cutoffs,       \* of summarize; None for the whole book
          Base,          \* of the numerals of grouping versions (10 in the code)
          MaxGroupings, MaxChanges, MaxSummaries, MaxFaults   \* bounds

ASSUME SummariesAssumption ==
  /\ IsFiniteSet(Chapters) /\ Chapters = 1..Cardinality(Chapters)
  /\ Base \in Nat \ {0, 1}
  /\ Sizes \subseteq Nat \ {0}
  /\ \A v \in Views : v.memory \in [Chapters -> DOMAIN GistOf \cup {None}]
  /\ MaxGroupings \in Nat /\ MaxChanges \in Nat /\ MaxSummaries \in Nat /\ MaxFaults \in Nat

VARIABLES view,       \* what v_active_claims shows now; a chapter has claims or None
          groupings,  \* rows of volumes: one entry per group() that wrote
          artifacts,  \* summary_artifacts
          job,        \* the running commands
          changes, started, faults,
          settled,    \* a summarize has just run with nothing else happening
          leftover    \* a summary of an old grouping may have been left valid
store == <<view, groupings, artifacts>>
vars  == <<store, job, changes, started, faults, settled, leftover>>

\* A volume is named by its grouping and its ordinal in it.
Ordinals(size) == {((c - 1) \div size) + 1 : c \in Chapters}
Volumes(n)     == {<<n, k>> : k \in Ordinals(groupings[n].size)}
ChaptersOf(v)  == {c \in Chapters : ((c - 1) \div groupings[v[1]].size) + 1 = v[2]}

(* MAX(grouping_version) compares text. *)
Numeral[n \in Nat] == IF n < Base THEN <<n>> ELSE Append(Numeral[n \div Base], n % Base)
TextLess(a, b) ==
  LET x == Numeral[a]
      y == Numeral[b]
  IN \E i \in DOMAIN y : /\ \A j \in 1..(i - 1) : j \in DOMAIN x /\ x[j] = y[j]
                         /\ i \notin DOMAIN x \/ x[i] < y[i]
Current == {n \in DOMAIN groupings : \A m \in DOMAIN groupings :
                                        ~TextLess(groupings[n].version, groupings[m].version)}

CurrentVolumes == UNION {Volumes(n) : n \in Current}

Idle == [step |-> "idle", cutoff |-> None, todo |-> {}, mem |-> None, made |-> {},
         version |-> 0, size |-> 0, only |-> FALSE, alone |-> TRUE]

\* What identifies a summary is its scope and its text.
Id(a)    == <<a.level, a.volume, a.gist>>
Valid    == {a \in artifacts : a.status = "valid"}
Of(A, level, v) == {a \in A : a.level = level /\ a.volume = v}

TypeOK ==
  /\ view \in Views
  /\ \A n \in DOMAIN groupings : groupings[n].version \in Nat /\ groupings[n].size \in Sizes
  /\ \A a, b \in artifacts : Id(a) = Id(b) => a = b
  /\ \A a \in artifacts : a.level \in {"volume", "book"} /\ a.status \in {"valid", "stale"}
  /\ \A p \in Commands : job[p].step \in {"idle", "group", "write", "stale", "read", "volume", "save",
                                          "saveBook"}

Init ==
  /\ view \in Views
  /\ groupings = <<>> /\ artifacts = {}
  /\ job = [p \in Commands |-> Idle]
  /\ changes = 0 /\ started = 0 /\ faults = 0 /\ settled = FALSE /\ leftover = FALSE
-----------------------------------------------------------------------------
(* An align adds claims to the served run, or an activation serves another. *)

Change ==
  /\ changes < MaxChanges /\ changes' = changes + 1
  /\ \E v \in Views \ {view} : view' = v
  /\ settled' = FALSE
  /\ UNCHANGED <<groupings, artifacts, job, started, faults, leftover>>
-----------------------------------------------------------------------------
(* The commands. *)

Start(p, only, size, cutoff) ==
  /\ job[p] = Idle /\ started < MaxSummaries /\ started' = started + 1
  /\ LET others == {q \in Commands \ {p} : job[q] # Idle}
     IN job' = [q \in Commands |->
                  IF q = p THEN [Idle EXCEPT !.step = "group", !.only = only, !.size = size,
                                             !.cutoff = cutoff, !.alone = (others = {})]
                  ELSE [job[q] EXCEPT !.alone = (q \notin others)]]
  /\ settled' = FALSE
  /\ UNCHANGED <<store, changes, faults, leftover>>

Go(p, next) == job' = [job EXCEPT ![p] = next]

\* After group(): group-volumes is done, summarize goes on with the volumes.
Grouped(p, version, vols) ==
  IF job[p].only THEN Idle
  ELSE [job[p] EXCEPT !.step = "read", !.version = version, !.todo = vols]

\* group(): the current grouping is read; nothing is written if it fits.
Group(p) ==
  /\ job[p].step = "group"
  /\ \/ \E n \in Current :
          /\ groupings[n].size = job[p].size
          /\ Go(p, Grouped(p, groupings[n].version, CurrentVolumes))
     \/ /\ Len(groupings) < MaxGroupings
        /\ Current = {} \/ \E n \in Current : groupings[n].size # job[p].size
        /\ \E v \in {groupings[n].version : n \in Current} \cup (IF Current = {} THEN {0} ELSE {}) :
              Go(p, [job[p] EXCEPT !.step = "write", !.version = v + 1])
  /\ UNCHANGED <<store, changes, started, faults, settled, leftover>>

\* The new volumes in one transaction ...
WriteGroups(p) ==
  /\ job[p].step = "write"
  /\ groupings' = Append(groupings, [version |-> job[p].version, size |-> job[p].size])
  /\ Go(p, [job[p] EXCEPT !.step = "stale",
                          !.todo = {<<Len(groupings) + 1, k>> : k \in Ordinals(job[p].size)}])
  /\ UNCHANGED <<view, artifacts, changes, started, faults, settled, leftover>>

\* The grouping a command works on is current: its own, or one of the same version.
Timely(p) == \E n \in Current : groupings[n].version = job[p].version

\* With a mistake: the comparison of the versions is the wrong way round.
StaleNew(p) ==
  /\ job[p].step = "stale"
  /\ artifacts' = {IF a.level = "volume" /\ a.version = job[p].version
                   THEN [a EXCEPT !.status = "stale"] ELSE a : a \in artifacts}
  /\ Go(p, Grouped(p, job[p].version, job[p].todo))
  /\ leftover' = ~Timely(p)
  /\ UNCHANGED <<view, groupings, changes, started, faults, settled>>

\* ... and in another one the end of the summaries of other versions, those of a
\* grouping that another command has written since included.
StaleOld(p) ==
  /\ job[p].step = "stale"
  /\ artifacts' = {IF a.level = "volume" /\ a.version # job[p].version
                   THEN [a EXCEPT !.status = "stale"] ELSE a : a \in artifacts}
  /\ Go(p, Grouped(p, job[p].version, job[p].todo))
  /\ leftover' = ~Timely(p)
  /\ UNCHANGED <<view, groupings, changes, started, faults, settled>>

Known(p) == {c \in Chapters : job[p].mem[c] # None}
Inputs(p, C) == [c \in C \cap Known(p) |-> job[p].mem[c]]

\* The memories of the active run up to the cutoff.
ReadMemories(p) ==
  /\ job[p].step = "read"
  /\ LET seen == [c \in Chapters |-> IF job[p].cutoff # None /\ c > job[p].cutoff
                                     THEN None ELSE view.memory[c]]
     IN Go(p, [job[p] EXCEPT !.step = "volume", !.mem = seen,
                 !.todo = {v \in @ : \E c \in ChaptersOf(v) : seen[c] # None}])
  /\ UNCHANGED <<store, changes, started, faults, settled, leftover>>

First(vols) == CHOOSE v \in vols : \A u \in vols : v[2] < u[2] \/ (v[2] = u[2] /\ v[1] <= u[1])

Made(p, a, next) == [job[p] EXCEPT !.step = next, !.made = @ \cup {a}, !.todo = @ \ {a.volume}]

\* _upsert_summary: a valid summary of the same inputs is kept ...
Reusable(level, v, inputs, deps) ==
  {a \in Of(Valid, level, v) : a.inputs = inputs /\ a.deps = deps}

\* With a mistake: the row with the same id is brought back as it is ...
Restore(new) ==
  {IF a.level = new.level /\ a.volume = new.volume THEN [a EXCEPT !.status = "stale"] ELSE a :
     a \in {b \in artifacts : Id(b) # Id(new)}} \cup
  (IF \E b \in artifacts : Id(b) = Id(new)
   THEN {[b EXCEPT !.status = "valid"] : b \in {c \in artifacts : Id(c) = Id(new)}} ELSE {new})

\* ... or the other summaries of the scope stay valid.
Add(new) == {b \in artifacts : Id(b) # Id(new)} \cup {new}

\* ... otherwise the text is made and stored, the row with the same id being
\* brought back if there is one; other valid summaries of the scope end.
Upsert(new) ==
  {IF a.level = new.level /\ a.volume = new.volume THEN [a EXCEPT !.status = "stale"] ELSE a :
     a \in {b \in artifacts : Id(b) # Id(new)}} \cup {new}

LookVolume(p) ==
  /\ job[p].step = "volume" /\ job[p].todo # {}
  /\ LET v    == First(job[p].todo)
         kept == Reusable("volume", v, Inputs(p, ChaptersOf(v)), {})
     IN Go(p, IF kept = {} THEN [job[p] EXCEPT !.step = "save"]
              ELSE Made(p, CHOOSE a \in kept : TRUE, "volume"))
  /\ UNCHANGED <<store, changes, started, faults, settled, leftover>>

SaveVolume(p) ==
  /\ job[p].step = "save"
  /\ LET v   == First(job[p].todo)
         in  == Inputs(p, ChaptersOf(v))
         new == [level |-> "volume", volume |-> v, gist |-> [c \in DOMAIN in |-> GistOf[in[c]]],
                 inputs |-> in, deps |-> {}, version |-> job[p].version, status |-> "valid"]
     IN /\ artifacts' = Upsert(new)
        /\ Go(p, Made(p, new, "volume"))
        /\ leftover' = (leftover \/ ~Timely(p))
  /\ UNCHANGED <<view, groupings, changes, started, faults, settled>>

\* The summary of the book is made of those of the volumes, if there are any.
BookOf(p) ==
  [level |-> "book", volume |-> None, gist |-> {<<a.volume[2], a.gist>> : a \in job[p].made},
   inputs |-> Inputs(p, Chapters), deps |-> {Id(a) : a \in job[p].made}, version |-> 0,
   status |-> "valid"]

\* At the end of a summarize of the whole book: no other command ran meanwhile,
\* and the claims are still those that it read.
Settles(p) == /\ job[p].alone /\ job[p].cutoff = None /\ job[p].made # {} /\ ~leftover
              /\ job[p].mem = view.memory

LookBook(p) ==
  /\ job[p].step = "volume" /\ job[p].todo = {}
  /\ LET b == BookOf(p)
     IN IF job[p].made = {} \/ Reusable("book", None, b.inputs, b.deps) # {}
        THEN Go(p, Idle) /\ settled' = Settles(p)
        ELSE Go(p, [job[p] EXCEPT !.step = "saveBook"]) /\ UNCHANGED settled
  /\ UNCHANGED <<store, changes, started, faults, leftover>>

SaveBook(p) ==
  /\ job[p].step = "saveBook"
  /\ artifacts' = Upsert(BookOf(p))
  /\ Go(p, Idle)
  /\ settled' = Settles(p)
  /\ UNCHANGED <<view, groupings, changes, started, faults, leftover>>

\* The process dies, the model call fails, or a row with the same id was inserted
\* by another command after this one had looked for it.
Fail(p) ==
  /\ job[p] # Idle /\ faults < MaxFaults /\ faults' = faults + 1
  /\ Go(p, Idle)
  /\ leftover' = (leftover \/ job[p].step = "stale")
  /\ UNCHANGED <<store, changes, started, settled>>
-----------------------------------------------------------------------------
Command(p) == \/ \E n \in Sizes : Start(p, TRUE, n, None)
              \/ \E n \in Sizes, k \in Cutoffs : Start(p, FALSE, n, k)
              \/ Group(p) \/ WriteGroups(p) \/ StaleOld(p) \/ ReadMemories(p)
              \/ LookVolume(p) \/ SaveVolume(p) \/ LookBook(p) \/ SaveBook(p) \/ Fail(p)

Next == Change \/ \E p \in Commands : Command(p)

Spec == Init /\ [][Next]_vars
=============================================================================
