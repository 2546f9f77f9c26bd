-------------------------- MODULE RetrievalIndexProofs --------------------------
(* Proofs of what RetrievalIndexProps promises, for any book, any number of    *)
(* commands, chunkings and profiles.                                           *)
EXTENDS RetrievalIndexProps, WellFoundedInduction, TLAPS

Busy(w) == job[w] # Idle
Builds(w) == Busy(w) /\ ~job[w].rebuild

\* A command works on a version that exists; a build has one of its own that is
\* not served yet, and a rebuild that writes has marked its version as touched.
Jobs ==
  /\ \A w \in Commands :
       /\ job[w].step = "idle" => ~Busy(w)
       /\ Busy(w) => /\ job[w].version \in Versions
                     /\ status[job[w].version] # "none"
                     /\ job[w].step = "embed" => job[w].todo # {}
       /\ Builds(w) => status[job[w].version] = "building" /\ job[w].step # "delete"
       /\ Busy(w) /\ job[w].rebuild /\ job[w].step # "delete" => job[w].version \in touched
  /\ \A u, w \in Commands : Builds(u) /\ Builds(w) /\ job[u].version = job[w].version => u = w
  /\ \A v \in Versions : status[v] # "none" => config[v] \in Configs

\* A row has an owner; record ids are not shared, and some number bounds them.
Rows ==
  /\ \A c \in Chunks : IF row[c].owner = 0 THEN row[c] = NoRow
                       ELSE status[row[c].owner] # "none"
  /\ \A c, d \in Stored : row[c].record = row[d].record => c = d
  /\ \E B \in Nat : \A c \in Chunks : row[c].record <= B

\* The record whose text is being embedded is still the one the command wrote.
Holds(w) == row[Ahead(w)].owner = job[w].version /\ row[Ahead(w)].record = job[w].record

\* What a build has behind it is whole as long as nobody touched its version.
Built ==
  \A w \in Commands : Builds(w) /\ job[w].version \notin touched =>
    /\ \A i \in Places \ job[w].todo : /\ row[ChunkOf(job[w].version, i)].owner = job[w].version
                                       /\ row[ChunkOf(job[w].version, i)].vector # None
    /\ job[w].step = "embed" => Holds(w)

\* What a build has behind it, and all of a served version, can be found.
Found ==
  /\ \A w \in Commands : Builds(w) =>
       /\ \A i \in Places \ job[w].todo : ChunkOf(job[w].version, i) \in shown \cup gaps
       /\ job[w].step = "embed" => Ahead(w) \in shown \cup gaps
  /\ \A v \in Active : \A i \in Places : ChunkOf(v, i) \in shown \cup gaps

\* Commands that never overlapped: at most one runs, and it holds its record.
Alone ==
  ~overlapped => /\ \A u, w \in Commands : Busy(u) /\ Busy(w) => u = w
                 /\ \A w \in Commands : job[w].step = "embed" => Holds(w)

\* What a search knows of the served version, as long as it did not change.
Reading ==
  /\ reader.step = "index" => reader.reported = 0
  /\ ~reader.moved =>
    /\ reader.step \in {"index", "fts", "vector"} =>
         reader.profile = IF Active = {} THEN None ELSE config[CHOOSE v \in Active : TRUE].profile
    /\ reader.step \in {"fts", "vector"} => Active # {}
    /\ reader.step = "count" => reader.used \in Active

IInv == /\ TypeOK /\ Jobs /\ Rows /\ Built /\ ServedIsWhole /\ Found
        /\ Alone /\ VectorsMatchProfile /\ Reading /\ RefusalExplained
-----------------------------------------------------------------------------
\* A set of numbers has a least element.
LEMMA Least == ASSUME NEW T \in SUBSET Nat, T # {} PROVE \E x \in T : \A y \in T : x <= y
<1> DEFINE R == {ss \in Nat \X Nat : ss[1] < ss[2]}
<1>1. IsWellFoundedOn(R, Nat)
  BY NatLessThanWellFounded, Zenon DEF OpToRel
<1>2. PICK x \in T : \A y \in T : <<y, x>> \notin R
  BY <1>1, WFMin, Zenon
<1>3. ASSUME NEW y \in T PROVE x <= y
  <2>1. x \in Nat /\ y \in Nat /\ ~(y < x)
    BY <1>2
  <2> QED
    BY <2>1
<1> QED
  BY <1>3

\* A set of numbers with an upper bound has a greatest element.
LEMMA Greatest ==
  ASSUME NEW T \in SUBSET Nat, T # {}, NEW B \in Nat, \A x \in T : x <= B
  PROVE  Max(T) \in T /\ \A x \in T : x <= Max(T)
<1> DEFINE U == {b \in Nat : \A x \in T : x <= b}
<1>1. PICK b \in U : \A y \in U : b <= y
  BY Least
<1>2. b \in T
  <2> SUFFICES ASSUME b \notin T PROVE FALSE
    OBVIOUS
  <2>1. \A x \in T : x <= b - 1 /\ b - 1 \in Nat
    BY <1>1
  <2>2. b - 1 \in U
    BY <2>1
  <2> QED
    BY <1>1, <2>2
<1> QED
  BY <1>1, <1>2 DEF Max
\* The next chunk of a command, where it has one, is a place of its list.
LEMMA AheadOf ==
  ASSUME NEW w \in Commands, TypeOK, job[w].todo # {}
  PROVE  /\ Min(job[w].todo) \in job[w].todo /\ Min(job[w].todo) \in Places
         /\ Ahead(w) = ChunkOf(job[w].version, Min(job[w].todo))
<1>1. job[w].todo \subseteq Places
  BY DEF TypeOK, JobType
<1>2. job[w].todo \in SUBSET Nat
  BY <1>1 DEF Places
<1>3. PICK i \in job[w].todo : \A j \in job[w].todo : i <= j
  BY <1>2, Least
<1> QED
  BY <1>1, <1>3 DEF Min, Ahead

\* What is left of a job when its step changes, with other fields or without.
Step(w, step, todo, record) == [step |-> step, rebuild |-> job[w].rebuild,
                                version |-> job[w].version, todo |-> todo, record |-> record]

\* The record of a command after an update.
LEMMA JobFields ==
  ASSUME NEW j \in JobType, NEW s \in {"write", "embed"}, NEW t \in SUBSET Places, NEW r \in Nat
  PROVE  /\ [j EXCEPT !.step = s]
              = [step |-> s, rebuild |-> j.rebuild, version |-> j.version,
                 todo |-> j.todo, record |-> j.record]
         /\ [j EXCEPT !.step = s, !.record = r]
              = [step |-> s, rebuild |-> j.rebuild, version |-> j.version,
                 todo |-> j.todo, record |-> r]
         /\ [j EXCEPT !.step = s, !.todo = t, !.record = r]
              = [step |-> s, rebuild |-> j.rebuild, version |-> j.version,
                 todo |-> t, record |-> r]
<1> DEFINE k == [j EXCEPT !.step = s]
           l == [k EXCEPT !.todo = t]
<1>1. k = [step |-> s, rebuild |-> j.rebuild, version |-> j.version,
           todo |-> j.todo, record |-> j.record]
  BY DEF JobType
<1>2. k \in JobType
  BY <1>1 DEF JobType
<1> HIDE DEF k
<1>3. [k EXCEPT !.record = r] = [step |-> s, rebuild |-> j.rebuild, version |-> j.version,
                                 todo |-> j.todo, record |-> r]
  BY <1>1, <1>2 DEF JobType
<1>4. l = [step |-> s, rebuild |-> j.rebuild, version |-> j.version,
           todo |-> t, record |-> j.record]
  BY <1>1, <1>2 DEF JobType
<1>5. l \in JobType
  BY <1>1, <1>2 DEF JobType
<1> HIDE DEF l
<1>6. [l EXCEPT !.record = r] = [step |-> s, rebuild |-> j.rebuild, version |-> j.version,
                                 todo |-> t, record |-> r]
  BY <1>4, <1>5 DEF JobType
<1> QED
  BY <1>1, <1>3, <1>6, Zenon DEF k, l

\* The chunks of a version that exists are chunks of the book.
LEMMA ChunkOfType ==
  ASSUME NEW v \in Versions, config[v] \in Configs, NEW i \in Places
  PROVE  ChunkOf(v, i) \in Chunks
BY DEF ChunkOf, Chunks, Schemes

\* A new record gets an id that no other stored chunk has.
LEMMA NewRecord ==
  ASSUME TypeOK, Rows, NEW c \in Chunks
  PROVE  NextRecord(c) \in Nat /\ \A d \in Stored \ {c} : row[d].record < NextRecord(c)
<1> DEFINE T == {0} \cup {row[d].record : d \in Stored \ {c}}
<1>1. \A d \in Chunks : row[d].record \in Nat
  BY DEF TypeOK, RowType
<1>2. T \in SUBSET Nat /\ T # {}
  BY <1>1 DEF Stored
<1>3. PICK B \in Nat : \A d \in Chunks : row[d].record <= B
  BY DEF Rows
<1>4. \A x \in T : x <= B
  BY <1>1, <1>3 DEF Stored
<1> HIDE DEF T
<1>5. Max(T) \in Nat /\ \A x \in T : x <= Max(T)
  BY <1>2, <1>4, Greatest
<1>6. NextRecord(c) = 1 + Max(T)
  BY DEF NextRecord, T
<1>7. \A d \in Stored \ {c} : row[d].record \in T /\ row[d].record \in Nat
  BY <1>1 DEF T, Stored
<1> QED
  BY <1>5, <1>6, <1>7-----------------------------------------------------------------------------
\* A book without an index satisfies the invariant.
LEMMA InitHolds == Init => IInv
<1> SUFFICES ASSUME Init PROVE IInv
  OBVIOUS
<1>1. Chunks # {} => NoRow \in RowType
  BY IndexAssumption DEF NoRow, RowType
<1>2. Idle \in JobType
  BY IndexAssumption DEF Idle, JobType
<1>3. Still \in ReaderType
  BY IndexAssumption DEF Still, ReaderType
<1>4. TypeOK
  BY <1>1, <1>2, <1>3 DEF Init, TypeOK
<1>5. Stored = {} /\ Active = {}
  BY DEF Init, Stored, Active
<1>6. \A w \in Commands : ~Busy(w) /\ job[w].step = "idle"
  BY DEF Init, Busy, Idle
<1>7. \A c \in Chunks : row[c] = NoRow /\ row[c].owner = 0 /\ row[c].record = 0
  BY DEF Init, NoRow
<1>8. Jobs /\ Built /\ Found /\ Alone
  BY <1>5, <1>6 DEF Init, Jobs, Builds, Built, Found, Alone
<1>9. Rows
  BY <1>5, <1>7 DEF Rows
<1>10. Reading /\ RefusalExplained
  BY DEF Init, Still, Reading, RefusalExplained
<1> QED
  BY <1>4, <1>5, <1>8, <1>9, <1>10 DEF IInv, ServedIsWhole, VectorsMatchProfile


\* What a step makes of the job of its command.
LEMMA JobSteps ==
  ASSUME NEW w \in Commands, TypeOK, Rows, Jobs
  PROVE  /\ Delete(w) => job' = [job EXCEPT ![w] = Step(w, "write", job[w].todo, job[w].record)]
         /\ Write(w)  => job' = [job EXCEPT ![w] = Step(w, "embed", job[w].todo, NextRecord(Ahead(w)))]
         /\ Store(w)  => job' = [job EXCEPT ![w] = Step(w, "write", job[w].todo \ {Min(job[w].todo)}, 0)]
         /\ Write(w) => NextRecord(Ahead(w)) \in Nat /\ Ahead(w) \in Chunks
<1>1. job[w] \in JobType /\ job[w].todo \in SUBSET Places
  BY DEF TypeOK, JobType
<1>2. ASSUME Write(w) PROVE NextRecord(Ahead(w)) \in Nat /\ Ahead(w) \in Chunks
  <2>1. Ahead(w) \in Chunks
    BY <1>2, AheadOf, ChunkOfType DEF Write, Jobs, Busy, Idle
  <2> QED
    BY <2>1, NewRecord
<1>3. ASSUME Delete(w)
      PROVE  job' = [job EXCEPT ![w] = Step(w, "write", job[w].todo, job[w].record)]
  <2>1. [job[w] EXCEPT !.step = "write"] = Step(w, "write", job[w].todo, job[w].record)
    BY <1>1, JobFields, IndexAssumption DEF Step
  <2>2. job' = [job EXCEPT ![w] = [job[w] EXCEPT !.step = "write"]]
    BY <1>3 DEF Delete, TypeOK
  <2> QED
    BY <2>1, <2>2
<1>4. ASSUME Write(w)
      PROVE  job' = [job EXCEPT ![w] = Step(w, "embed", job[w].todo, NextRecord(Ahead(w)))]
  <2> DEFINE r == NextRecord(Ahead(w))
  <2>1. r \in Nat
    BY <1>2, <1>4
  <2>2. job' = [job EXCEPT ![w] = [job[w] EXCEPT !.step = "embed", !.record = r]]
    BY <1>4 DEF Write, TypeOK
  <2> HIDE DEF r
  <2>3. [job[w] EXCEPT !.step = "embed", !.record = r] = Step(w, "embed", job[w].todo, r)
    BY <1>1, <2>1, JobFields DEF Step
  <2> QED
    BY <2>2, <2>3 DEF r
<1>5. ASSUME Store(w)
      PROVE  job' = [job EXCEPT ![w] = Step(w, "write", job[w].todo \ {Min(job[w].todo)}, 0)]
  <2> DEFINE t == job[w].todo \ {Min(job[w].todo)}
  <2>1. t \in SUBSET Places /\ 0 \in Nat
    BY <1>1, IndexAssumption
  <2>2. job' = [job EXCEPT ![w] = [job[w] EXCEPT !.step = "write", !.todo = t, !.record = 0]]
    BY <1>5 DEF Store, TypeOK
  <2> HIDE DEF t
  <2>3. [job[w] EXCEPT !.step = "write", !.todo = t, !.record = 0] = Step(w, "write", t, 0)
    BY <1>1, <2>1, JobFields DEF Step
  <2> QED
    BY <2>2, <2>3 DEF t
<1> QED
  BY <1>2, <1>3, <1>4, <1>5
-----------------------------------------------------------------------------
(* One lemma per action: it keeps the inductive invariant. *)

\* A new command takes an idle process; nothing else is known to change.
LEMMA Begun ==
  ASSUME IInv, NEW w \in Commands, NEW v \in Versions, NEW rebuild \in BOOLEAN,
         NEW step \in {"delete", "write"}, NEW todo \in SUBSET Places,
         Begin(w, v, rebuild, step, todo)
  PROVE  /\ job' \in [Commands -> JobType] /\ overlapped' \in BOOLEAN
         /\ \A u \in Commands : Busy(u)' <=> u = w \/ Busy(u)
         /\ \A u \in Commands : u # w => job'[u] = job[u]
         /\ job[w] = Idle /\ job[w].step = "idle"
         /\ job'[w] = [step |-> step, rebuild |-> rebuild, version |-> v, todo |-> todo, record |-> 0]
         /\ ~overlapped' => ~overlapped /\ \A u \in Commands \ {w} : ~Busy(u)
<1>1. [step |-> step, rebuild |-> rebuild, version |-> v, todo |-> todo, record |-> 0] \in JobType
  BY IndexAssumption DEF JobType, Versions
<1>2. /\ job' \in [Commands -> JobType] /\ overlapped' \in BOOLEAN
      /\ \A u \in Commands : u # w => job'[u] = job[u]
      /\ job'[w] = [step |-> step, rebuild |-> rebuild, version |-> v, todo |-> todo, record |-> 0]
  BY <1>1 DEF Begin, IInv, TypeOK
<1>3. job[w] = Idle /\ job[w].step = "idle" /\ job'[w] # Idle
  BY <1>2 DEF Begin, Idle
<1>4. \A u \in Commands : Busy(u)' <=> u = w \/ Busy(u)
  BY <1>2, <1>3 DEF Busy, Idle
<1> QED
  BY <1>2, <1>3, <1>4 DEF Begin, Busy

\* A build that begins keeps it.
LEMMA StartKeeps == ASSUME IInv, NEW w \in Commands, NEW c \in Configs, Start(w, c) PROVE IInv'
<1>1. PICK v \in Versions : /\ status[v] = "none"
                            /\ Begin(w, v, FALSE, "write", Places)
                            /\ status' = [status EXCEPT ![v] = "building"]
                            /\ config' = [config EXCEPT ![v] = c]
                            /\ UNCHANGED <<row, shown, reader, bounds, touched, gaps>>
  BY DEF Start
<1>2. /\ job' \in [Commands -> JobType] /\ overlapped' \in BOOLEAN
      /\ \A u \in Commands : Busy(u)' <=> u = w \/ Busy(u)
      /\ \A u \in Commands : u # w => job'[u] = job[u]
      /\ job[w] = Idle /\ job[w].step = "idle"
      /\ job'[w] = [step |-> "write", rebuild |-> FALSE, version |-> v, todo |-> Places, record |-> 0]
      /\ ~overlapped' => ~overlapped /\ \A u \in Commands \ {w} : ~Busy(u)
  BY <1>1, Begun
<1>3. TypeOK'
  BY <1>1, <1>2 DEF IInv, TypeOK, bounds
<1>4. /\ status'[v] = "building" /\ config'[v] = c /\ Active' = Active
      /\ \A x \in Versions : x # v => status'[x] = status[x] /\ config'[x] = config[x]
      /\ \A x \in Versions : status[x] # "none" => x # v /\ status'[x] # "none"
  BY <1>1 DEF IInv, TypeOK, Active
<1>5. \A u \in Commands : Busy(u) => job[u].version \in Versions \ {v} /\ u # w
  BY <1>1, <1>2 DEF IInv, Jobs, Busy
<1>6. \A u \in Commands : Builds(u)' <=> u = w \/ Builds(u)
  BY <1>2 DEF Builds
<1>7. Jobs'
  BY <1>1, <1>2, <1>4, <1>5, <1>6 DEF IInv, Jobs, Builds
<1>8. Rows'
  <2>1. \A d \in Chunks : row[d].owner # 0 => row[d].owner \in Versions
    BY IndexAssumption DEF IInv, TypeOK, RowType, Versions
  <2> QED
    BY <1>1, <1>4, <2>1 DEF IInv, Rows, Stored
<1>9. \A u \in Commands : Busy(u) =>
         /\ Ahead(u)' = Ahead(u) /\ Holds(u)' = Holds(u)
         /\ \A i \in Places : ChunkOf(job[u].version, i)' = ChunkOf(job[u].version, i)
  BY <1>1, <1>2, <1>4, <1>5 DEF Ahead, Holds, ChunkOf
<1>10. Built'
  BY <1>1, <1>2, <1>5, <1>6, <1>9 DEF IInv, Built, Builds, ChunkOf
<1>11. \A x \in Active : \A i \in Places : ChunkOf(x, i)' = ChunkOf(x, i)
  BY <1>4 DEF Active, ChunkOf
<1>12. ServedIsWhole'
  BY <1>1, <1>4, <1>11 DEF IInv, ServedIsWhole, ChunkOf
<1>13. Found'
  BY <1>1, <1>2, <1>4, <1>5, <1>6, <1>9, <1>11 DEF IInv, Found, Builds, ChunkOf
<1>14. Alone'
  BY <1>2, <1>9 DEF IInv, Alone, Busy, Jobs
<1>15. VectorsMatchProfile'
  <2>1. \A d \in Stored : row[d].owner \in Versions /\ status[row[d].owner] # "none"
    BY IndexAssumption DEF IInv, TypeOK, RowType, Versions, Rows, Stored
  <2> QED
    BY <1>1, <1>2, <1>4, <2>1 DEF IInv, VectorsMatchProfile, Stored
<1>16. Reading' /\ RefusalExplained'
  <2>1. Active # {} => config'[CHOOSE x \in Active : TRUE] = config[CHOOSE x \in Active : TRUE]
    BY <1>4 DEF Active
  <2> QED
    BY <1>1, <1>4, <2>1 DEF IInv, Reading, RefusalExplained
<1> QED
  BY <1>3, <1>7, <1>8, <1>10, <1>12, <1>13, <1>14, <1>15, <1>16 DEF IInv

\* A rebuild that begins keeps it.
LEMMA StartRebuildKeeps == ASSUME IInv, NEW w \in Commands, NEW h, StartRebuild(w, h) PROVE IInv'
<1>1. PICK v \in Active : Begin(w, v, TRUE, "delete", {i \in Places : ChapterOf[i] = h})
  BY DEF StartRebuild
<1>2. v \in Versions /\ status[v] = "active"
  BY DEF Active
<1>3. /\ job' \in [Commands -> JobType] /\ overlapped' \in BOOLEAN
      /\ \A u \in Commands : Busy(u)' <=> u = w \/ Busy(u)
      /\ \A u \in Commands : u # w => job'[u] = job[u]
      /\ job[w] = Idle /\ job[w].step = "idle"
      /\ job'[w].step = "delete" /\ job'[w].rebuild /\ job'[w].version = v
      /\ ~overlapped' => ~overlapped /\ \A u \in Commands \ {w} : ~Busy(u)
  <2> DEFINE todo == {i \in Places : ChapterOf[i] = h}
  <2>1. todo \in SUBSET Places
    OBVIOUS
  <2>2. Begin(w, v, TRUE, "delete", todo)
    BY <1>1
  <2> HIDE DEF todo
  <2>3. job'[w] = [step |-> "delete", rebuild |-> TRUE, version |-> v, todo |-> todo, record |-> 0]
    BY <1>2, <2>1, <2>2, Begun
  <2>4. job'[w].step = "delete" /\ job'[w].rebuild /\ job'[w].version = v
    BY <2>3
  <2> QED
    BY <1>2, <2>1, <2>2, <2>4, Begun
<1>4. /\ UNCHANGED <<status, config, row, shown, reader, faults, searches, touched, gaps>>
      /\ rebuilds' \in Nat /\ Active' = Active
  BY DEF StartRebuild, tables, IInv, TypeOK, Active
<1>5. TypeOK'
  BY <1>3, <1>4 DEF IInv, TypeOK
<1>6. \A u \in Commands : Builds(u)' <=> Builds(u)
  BY <1>3 DEF Builds, Idle, Busy
<1>7. Jobs'
  BY <1>2, <1>3, <1>4, <1>6 DEF IInv, Jobs, Builds
<1>8. Rows' /\ ServedIsWhole' /\ VectorsMatchProfile' /\ Reading' /\ RefusalExplained'
  BY <1>3, <1>4 DEF IInv, Rows, Stored, ServedIsWhole, ChunkOf, VectorsMatchProfile, Reading,
                    RefusalExplained
<1>9. \A u \in Commands : u # w =>
         /\ Ahead(u)' = Ahead(u) /\ Holds(u)' = Holds(u)
         /\ \A i \in Places : ChunkOf(job[u].version, i)' = ChunkOf(job[u].version, i)
  BY <1>3, <1>4 DEF Ahead, Holds, ChunkOf
<1>10. \A u \in Commands : Builds(u)' => u # w
  BY <1>3 DEF Builds
<1>11. Built' /\ Found'
  BY <1>3, <1>4, <1>6, <1>9, <1>10 DEF IInv, Built, Found, ChunkOf
<1>12. Alone'
  BY <1>3, <1>9 DEF IInv, Alone, Busy, Jobs
<1> QED
  BY <1>5, <1>7, <1>8, <1>11, <1>12 DEF IInv

\* A rebuild that takes the chunks of its chapter away keeps it.
LEMMA DeleteKeeps == ASSUME IInv, NEW w \in Commands, Delete(w) PROVE IInv'
<1> DEFINE v == job[w].version
           gone == {c \in Stored : row[c].owner = v /\ c[2] \in job[w].todo}
<1>1. /\ job[w].step = "delete" /\ Busy(w) /\ ~Builds(w) /\ v \in Versions
      /\ job[w].rebuild /\ job[w].version \in Versions
  BY DEF Delete, Busy, Idle, Builds, IInv, Jobs
<1>2. job' = [job EXCEPT ![w] = Step(w, "write", job[w].todo, job[w].record)]
  BY JobSteps DEF IInv
<1>3. /\ row' = [c \in Chunks |-> IF c \in gone THEN NoRow ELSE row[c]]
      /\ shown' = shown \ gone /\ touched' = touched \cup {v} /\ gaps' = gaps \cup gone
      /\ UNCHANGED <<status, config, reader, rebuilds, faults, searches, overlapped>>
      /\ Active' = Active
  BY DEF Delete, bounds, Active
<1>4. Step(w, "write", job[w].todo, job[w].record) \in JobType
  BY DEF Step, IInv, TypeOK, JobType
<1>5. /\ job' \in [Commands -> JobType]
      /\ \A u \in Commands : u # w => job'[u] = job[u]
      /\ job'[w].step = "write" /\ job'[w].rebuild /\ job'[w].version = v
  BY <1>1, <1>2, <1>4 DEF IInv, TypeOK, Step
<1>6. NoRow \in RowType /\ NoRow.owner = 0 /\ NoRow.record = 0
  BY IndexAssumption DEF NoRow, RowType
<1> HIDE DEF v
<1>7. TypeOK'
  BY <1>1, <1>3, <1>5, <1>6 DEF IInv, TypeOK, Stored
<1>8. \A u \in Commands : /\ Busy(u)' <=> Busy(u)
                          /\ Builds(u)' <=> Builds(u)
                          /\ Builds(u) => u # w
  <2>1. job'[w] # Idle
    BY <1>5 DEF Idle
  <2>2. ~Builds(w)'
    BY <1>5 DEF Builds
  <2> QED
    BY <1>1, <1>5, <2>1, <2>2 DEF Busy, Builds
<1>9. Jobs'
  <2>1. \A u \in Commands :
          /\ job'[u].step = "idle" => ~Busy(u)'
          /\ Busy(u)' => /\ job'[u].version \in Versions
                         /\ status[job'[u].version] # "none"
                         /\ job'[u].step = "embed" => job'[u].todo # {}
          /\ Builds(u)' => status[job'[u].version] = "building" /\ job'[u].step # "delete"
          /\ Busy(u)' /\ job'[u].rebuild /\ job'[u].step # "delete" => job'[u].version \in touched'
    <3> SUFFICES ASSUME NEW u \in Commands
                 PROVE  /\ job'[u].step = "idle" => ~Busy(u)'
                        /\ Busy(u)' => /\ job'[u].version \in Versions
                                       /\ status[job'[u].version] # "none"
                                       /\ job'[u].step = "embed" => job'[u].todo # {}
                        /\ Builds(u)' => status[job'[u].version] = "building" /\ job'[u].step # "delete"
                        /\ Busy(u)' /\ job'[u].rebuild /\ job'[u].step # "delete"
                             => job'[u].version \in touched'
      OBVIOUS
    <3>1. CASE u = w
      BY <1>1, <1>3, <1>5, <1>8, <3>1 DEF IInv, Jobs, v
    <3>2. CASE u # w
      BY <1>3, <1>5, <1>8, <3>2 DEF IInv, Jobs
    <3> QED
      BY <3>1, <3>2
  <2> QED
    BY <1>3, <1>5, <1>8, <2>1 DEF IInv, Jobs
<1>10. /\ Stored' \subseteq Stored
       /\ \A c \in Stored' : row'[c] = row[c]
       /\ \A c \in Chunks : row'[c] = row[c] \/ (c \in gone /\ row'[c] = NoRow)
  <2> HIDE DEF gone
  <2>1. \A c \in Chunks : row'[c] = IF c \in gone THEN NoRow ELSE row[c]
    BY <1>3
  <2>2. \A c \in Chunks : row'[c] # NoRow => c \notin gone /\ row'[c] = row[c]
    BY <2>1
  <2>3. \A c \in Chunks : row'[c] = row[c] \/ (c \in gone /\ row'[c] = NoRow)
    BY <2>1
  <2> QED
    BY <2>2, <2>3 DEF Stored
<1> HIDE DEF gone
<1>11. Rows'
  <2>1. PICK B \in Nat : \A c \in Chunks : row[c].record <= B
    BY DEF IInv, Rows
  <2>2. \A c \in Chunks : row'[c].record <= B
    BY <1>6, <1>10, <2>1
  <2>3. \A c \in Chunks : IF row'[c].owner = 0 THEN row'[c] = NoRow ELSE status'[row'[c].owner] # "none"
    BY <1>3, <1>6, <1>10 DEF IInv, Rows
  <2>4. \A c, d \in Stored' : row'[c].record = row'[d].record => c = d
    BY <1>10 DEF IInv, Rows
  <2> QED
    BY <2>2, <2>3, <2>4 DEF Rows
<1>12. \A c \in Chunks : row[c].owner # v => row'[c] = row[c]
  BY <1>10 DEF gone
<1>13. \A u \in Commands : u # w =>
         /\ Ahead(u)' = Ahead(u)
         /\ \A i \in Places : ChunkOf(job[u].version, i)' = ChunkOf(job[u].version, i)
  BY <1>3, <1>5 DEF Ahead, ChunkOf
<1>14. \A x \in Versions : status[x] # "none" => \A i \in Places : ChunkOf(x, i) \in Chunks
  BY ChunkOfType DEF IInv, Jobs
<1>15. ServedIsWhole'
  BY <1>3, <1>12, <1>14 DEF IInv, ServedIsWhole, ChunkOf, Active
<1>16. ASSUME NEW u \in Commands, Builds(u)', job'[u].version \notin touched'
       PROVE  /\ \A i \in Places \ job'[u].todo :
                    /\ row'[ChunkOf(job[u].version, i)'].owner = job'[u].version
                    /\ row'[ChunkOf(job[u].version, i)'].vector # None
              /\ job'[u].step = "embed" => Holds(u)'
  <2>1. u # w /\ Builds(u) /\ job'[u] = job[u] /\ job[u].version \notin touched /\ job[u].version # v
    BY <1>3, <1>5, <1>8, <1>16
  <2>2. Busy(u) /\ job[u].version \in Versions /\ status[job[u].version] # "none"
    BY <2>1 DEF Builds, IInv, Jobs
  <2>3. \A i \in Places : ChunkOf(job[u].version, i)' = ChunkOf(job[u].version, i)
                          /\ ChunkOf(job[u].version, i) \in Chunks
    BY <1>13, <1>14, <2>1, <2>2
  <2>4. \A i \in Places \ job'[u].todo :
                    /\ row'[ChunkOf(job[u].version, i)'].owner = job'[u].version
                    /\ row'[ChunkOf(job[u].version, i)'].vector # None
    BY <1>12, <2>1, <2>3 DEF IInv, Built
  <2>5. ASSUME job[u].step = "embed" PROVE Holds(u)'
    <3>1. Ahead(u) \in Chunks
      BY <2>2, <2>3, <2>5, AheadOf DEF IInv, Jobs
    <3>2. row[Ahead(u)].owner = job[u].version /\ row[Ahead(u)].record = job[u].record
      BY <2>1, <2>5 DEF IInv, Built, Holds
    <3> QED
      BY <1>12, <1>13, <2>1, <3>1, <3>2 DEF Holds
  <2> QED
    BY <2>1, <2>4, <2>5
<1>17. Built'
  BY <1>16 DEF Built
<1>18. shown \cup gaps \subseteq shown' \cup gaps'
  BY <1>3
<1>19. Found'
  <2>1. \A x \in Active : \A i \in Places : ChunkOf(x, i)' = ChunkOf(x, i)
    BY <1>3 DEF ChunkOf
  <2> QED
    BY <1>3, <1>5, <1>8, <1>13, <1>18, <2>1 DEF IInv, Found
<1>20. Alone'
  BY <1>1, <1>3, <1>5, <1>8 DEF IInv, Alone, Busy, Idle
<1>21. VectorsMatchProfile'
  BY <1>3, <1>10 DEF IInv, VectorsMatchProfile
<1>22. Reading' /\ RefusalExplained'
  BY <1>3 DEF IInv, Reading, RefusalExplained
<1> QED
  BY <1>7, <1>9, <1>11, <1>15, <1>17, <1>19, <1>20, <1>21, <1>22 DEF IInv

\* Chunks written, over those of another version or not, keep it.
LEMMA WriteKeeps == ASSUME IInv, NEW w \in Commands, Write(w) PROVE IInv'
<1> DEFINE v == job[w].version
           c == Ahead(w)
           r == NextRecord(c)
           new == [owner |-> v, record |-> r, vector |-> None]
<1>1. /\ job[w].step = "write" /\ job[w].todo # {} /\ Busy(w) /\ v \in Versions
      /\ ~Builds(w) => v \in touched
  BY DEF Write, Busy, Idle, Builds, IInv, Jobs
<1>2. /\ job' = [job EXCEPT ![w] = Step(w, "embed", job[w].todo, r)]
      /\ r \in Nat /\ c \in Chunks
  BY JobSteps DEF IInv, Write
<1>3. /\ row' = [row EXCEPT ![c] = new]
      /\ shown' = shown \cup {c} /\ touched' = touched \cup ({row[c].owner} \ {0, v})
      /\ gaps' = gaps \ {c}
      /\ UNCHANGED <<status, config, reader, rebuilds, faults, searches, overlapped>>
      /\ Active' = Active
  BY DEF Write, bounds, Active
<1>4. /\ c = ChunkOf(v, Min(job[w].todo)) /\ Min(job[w].todo) \in job[w].todo
      /\ Min(job[w].todo) \in Places
  BY <1>1, AheadOf DEF IInv
<1>5. \A d \in Stored \ {c} : row[d].record < r
  BY <1>2, NewRecord DEF IInv
<1>6. Step(w, "embed", job[w].todo, r) \in JobType
  BY <1>2 DEF Step, IInv, TypeOK, JobType
<1> HIDE DEF r
<1>7. new \in RowType /\ new.owner = v /\ new.record = r /\ new.vector = None /\ v # 0
  BY <1>1, <1>2, IndexAssumption DEF RowType, Versions
<1>8. /\ job' \in [Commands -> JobType]
      /\ \A u \in Commands : u # w => job'[u] = job[u]
      /\ job'[w].step = "embed" /\ job'[w].version = v /\ job'[w].todo = job[w].todo
      /\ job'[w].record = r /\ job'[w].rebuild = job[w].rebuild
  BY <1>2, <1>6 DEF IInv, TypeOK, Step
<1>9. /\ row'[c] = new /\ row' \in [Chunks -> RowType]
      /\ \A d \in Chunks : d # c => row'[d] = row[d]
  BY <1>2, <1>3, <1>7 DEF IInv, TypeOK
<1> HIDE DEF v, c, new
<1>10. TypeOK'
  <2>1. touched' \subseteq Versions
    BY <1>2, <1>3, IndexAssumption DEF IInv, TypeOK, RowType, Versions
  <2> QED
    BY <1>2, <1>3, <1>8, <1>9, <2>1 DEF IInv, TypeOK
<1>11. \A u \in Commands : (Busy(u)' <=> Busy(u)) /\ (Builds(u)' <=> Builds(u))
  <2>1. job'[w] # Idle
    BY <1>8 DEF Idle
  <2> QED
    BY <1>1, <1>8, <2>1 DEF Busy, Builds
<1>12. Jobs'
  <2> SUFFICES ASSUME NEW u \in Commands
               PROVE  /\ job'[u].step = "idle" => ~Busy(u)'
                      /\ Busy(u)' => /\ job'[u].version \in Versions
                                     /\ status[job'[u].version] # "none"
                                     /\ job'[u].step = "embed" => job'[u].todo # {}
                      /\ Builds(u)' => status[job'[u].version] = "building" /\ job'[u].step # "delete"
                      /\ Busy(u)' /\ job'[u].rebuild /\ job'[u].step # "delete"
                           => job'[u].version \in touched'
    <3>1. \A u, x \in Commands : Builds(u)' /\ Builds(x)' /\ job'[u].version = job'[x].version => u = x
      BY <1>8, <1>11 DEF IInv, Jobs, v
    <3> QED
      BY <1>3, <3>1 DEF IInv, Jobs
  <2>1. CASE u = w
    BY <1>1, <1>3, <1>8, <1>11, <2>1 DEF IInv, Jobs, v
  <2>2. CASE u # w
    BY <1>3, <1>8, <1>11, <2>2 DEF IInv, Jobs
  <2> QED
    BY <2>1, <2>2
<1>13. Rows'
  <2>1. PICK B \in Nat : \A d \in Chunks : row[d].record <= B
    BY DEF IInv, Rows
  <2>2. B + r \in Nat /\ \A d \in Chunks : row'[d].record <= B + r
    BY <1>2, <1>7, <1>9, <2>1 DEF IInv, TypeOK, RowType
  <2>3. \A d \in Chunks : IF row'[d].owner = 0 THEN row'[d] = NoRow ELSE status'[row'[d].owner] # "none"
    BY <1>1, <1>3, <1>7, <1>9 DEF IInv, Rows, Jobs, v
  <2>4. \A d \in Stored' : d # c => d \in Stored /\ row'[d] = row[d] /\ row[d].record # r
    BY <1>2, <1>5, <1>9 DEF Stored, IInv, TypeOK, RowType
  <2>5. \A d, e \in Stored' : row'[d].record = row'[e].record => d = e
    BY <1>7, <1>9, <2>4 DEF IInv, Rows
  <2> QED
    BY <2>2, <2>3, <2>5 DEF Rows
<1>14. \A x \in Versions \ touched' : \A d \in Chunks : x # v /\ row[d].owner = x => row'[d] = row[d]
  BY <1>3, <1>9, IndexAssumption DEF Versions
<1>15. \A x \in Versions : status[x] # "none" => \A i \in Places : ChunkOf(x, i) \in Chunks
  BY ChunkOfType DEF IInv, Jobs
<1>16. \A x \in Versions, i \in Places : ChunkOf(x, i)' = ChunkOf(x, i)
  BY <1>3 DEF ChunkOf
<1>17. v \in Active => v \in touched
  BY <1>1 DEF Active, IInv, Jobs, v
<1>18. ServedIsWhole'
  <2> SUFFICES ASSUME NEW x \in Active \ touched', NEW i \in Places
               PROVE  row'[ChunkOf(x, i)].owner = x /\ row'[ChunkOf(x, i)].vector # None
    BY <1>3, <1>16 DEF ServedIsWhole, Active
  <2>1. x \in Versions \ touched' /\ x \notin touched /\ x # v /\ status[x] # "none"
    BY <1>3, <1>17 DEF Active
  <2> QED
    BY <1>14, <1>15, <2>1 DEF IInv, ServedIsWhole
<1>19. \A u \in Commands : Ahead(u)' = Ahead(u)
  BY <1>3, <1>8 DEF Ahead, ChunkOf, v
<1>20. Holds(w)'
  BY <1>7, <1>8, <1>9, <1>19 DEF Holds, c
<1>21. ASSUME NEW u \in Commands, Builds(u)', job'[u].version \notin touched'
       PROVE  /\ \A i \in Places \ job'[u].todo :
                    /\ row'[ChunkOf(job[u].version, i)'].owner = job'[u].version
                    /\ row'[ChunkOf(job[u].version, i)'].vector # None
              /\ job'[u].step = "embed" => Holds(u)'
  <2>1. /\ Builds(u) /\ Busy(u) /\ job'[u].version = job[u].version /\ job'[u].todo = job[u].todo
        /\ job[u].version \notin touched
    BY <1>3, <1>8, <1>11, <1>21 DEF v, Builds
  <2>2. job[u].version \in Versions /\ status[job[u].version] # "none"
    BY <2>1 DEF IInv, Jobs
  <2>3. \A i \in Places : /\ ChunkOf(job[u].version, i)' = ChunkOf(job[u].version, i)
                          /\ ChunkOf(job[u].version, i) \in Chunks
    BY <1>3, <1>8, <1>15, <2>1, <2>2 DEF ChunkOf
  <2>4. \A i \in Places \ job[u].todo : /\ row[ChunkOf(job[u].version, i)].owner = job[u].version
                                        /\ row[ChunkOf(job[u].version, i)].vector # None
    BY <2>1 DEF IInv, Built
  <2>5. CASE u = w
    <3>1. \A i \in Places \ job[w].todo : ChunkOf(v, i) # c
      BY <1>4 DEF ChunkOf
    <3> QED
      BY <1>9, <1>20, <2>1, <2>3, <2>4, <2>5, <3>1 DEF v
  <2>6. CASE u # w
    <3>1. job[u].version # v
      BY <1>1, <2>1, <2>6 DEF IInv, Jobs, v
    <3>2. \A d \in Chunks : row[d].owner = job[u].version => row'[d] = row[d]
      BY <1>14, <1>21, <2>1, <2>2, <3>1
    <3>3. ASSUME job[u].step = "embed" PROVE Holds(u)'
      <4>1. Ahead(u) \in Chunks
        BY <2>1, <2>3, <3>3, AheadOf DEF IInv, Jobs
      <4> QED
        BY <1>8, <1>19, <2>1, <2>6, <3>2, <3>3, <4>1 DEF Holds, IInv, Built
    <3> QED
      BY <1>8, <2>1, <2>3, <2>4, <2>6, <3>2, <3>3
  <2> QED
    BY <2>5, <2>6
<1>22. Built'
  BY <1>21 DEF Built
<1>23. shown \cup gaps \subseteq shown' \cup gaps' /\ c \in shown'
  BY <1>3
<1>24. Found'
  <2>1. \A x \in Active : \A i \in Places : ChunkOf(x, i)' = ChunkOf(x, i)
    BY <1>16 DEF Active
  <2>2. \A u \in Commands : /\ job'[u].version = job[u].version /\ job'[u].todo = job[u].todo
                            /\ u # w => job'[u] = job[u]
                            /\ \A i \in Places : ChunkOf(job[u].version, i)' = ChunkOf(job[u].version, i)
    BY <1>3, <1>8 DEF v, ChunkOf
  <2>3. Ahead(w) \in shown' \cup gaps'
    BY <1>23 DEF c
  <2> QED
    BY <1>3, <1>11, <1>19, <1>23, <2>1, <2>2, <2>3 DEF IInv, Found
<1>25. Alone'
  <2>1. \A u \in Commands : job[u].step = "embed" => Busy(u)
    BY DEF Busy, Idle
  <2> QED
    BY <1>1, <1>3, <1>8, <1>11, <1>20, <2>1 DEF IInv, Alone
<1>26. VectorsMatchProfile'
  <2>1. \A d \in Stored' : row'[d].vector # None => d # c /\ d \in Stored /\ row'[d] = row[d]
    BY <1>7, <1>9 DEF Stored
  <2> QED
    BY <1>3, <2>1 DEF IInv, VectorsMatchProfile
<1>27. Reading' /\ RefusalExplained'
  BY <1>3 DEF IInv, Reading, RefusalExplained
<1> QED
  BY <1>10, <1>12, <1>13, <1>18, <1>22, <1>24, <1>25, <1>26, <1>27 DEF IInv

\* Vectors that arrive, late or not, keep it.
LEMMA StoreKeeps == ASSUME IInv, NEW w \in Commands, Store(w) PROVE IInv'
<1> DEFINE v == job[w].version
           c == Ahead(w)
           profile == config[v].profile
<1>1. /\ job[w].step = "embed" /\ Busy(w) /\ v \in Versions /\ job[w].todo # {}
      /\ config[v] \in Configs
  BY DEF Store, Busy, Idle, IInv, Jobs
<1>2. job' = [job EXCEPT ![w] = Step(w, "write", job[w].todo \ {Min(job[w].todo)}, 0)]
  BY JobSteps DEF IInv
<1>3. /\ row' = [d \in Chunks |-> IF d \in Stored /\ row[d].record = job[w].record
                                  THEN [row[d] EXCEPT !.vector = profile] ELSE row[d]]
      /\ UNCHANGED <<status, config, shown, reader, rebuilds, faults, searches,
                     touched, overlapped, gaps>>
      /\ Active' = Active
  BY DEF Store, bounds, history, Active
<1>4. profile \in Profiles /\ profile # None
  BY <1>1, IndexAssumption DEF Profiles
<1>5. Step(w, "write", job[w].todo \ {Min(job[w].todo)}, 0) \in JobType
  BY IndexAssumption DEF Step, IInv, TypeOK, JobType
<1>6. /\ job' \in [Commands -> JobType]
      /\ \A u \in Commands : u # w => job'[u] = job[u]
      /\ job'[w].step = "write" /\ job'[w].version = v /\ job'[w].rebuild = job[w].rebuild
      /\ job'[w].todo = job[w].todo \ {Min(job[w].todo)}
  BY <1>2, <1>5 DEF IInv, TypeOK, Step
<1> HIDE DEF profile
<1>7. /\ row' \in [Chunks -> RowType]
      /\ \A d \in Chunks : /\ row'[d].owner = row[d].owner /\ row'[d].record = row[d].record
                           /\ \/ row'[d] = row[d]
                              \/ /\ d \in Stored /\ row[d].record = job[w].record
                                 /\ row'[d].vector = profile
      /\ \A d \in Stored : row[d].record = job[w].record => row'[d].vector = profile
  <2>1. \A d \in Chunks : LET e == [row[d] EXCEPT !.vector = profile]
                          IN e \in RowType /\ e.owner = row[d].owner /\ e.record = row[d].record
                             /\ e.vector = profile
    BY <1>4 DEF IInv, TypeOK, RowType
  <2>2. \A d \in Chunks : row[d] \in RowType
    BY DEF IInv, TypeOK
  <2>3. Stored \subseteq Chunks
    BY DEF Stored
  <2> HIDE DEF RowType
  <2> QED
    BY <1>3, <2>1, <2>2, <2>3
<1> HIDE DEF v, c
<1>8. TypeOK'
  BY <1>3, <1>6, <1>7 DEF IInv, TypeOK
<1>9. \A u \in Commands : (Busy(u)' <=> Busy(u)) /\ (Builds(u)' <=> Builds(u))
  <2>1. job'[w] # Idle
    BY <1>6 DEF Idle
  <2> QED
    BY <1>1, <1>6, <2>1 DEF Busy, Builds
<1>10. Jobs'
  <2>1. \A u, x \in Commands : Builds(u)' /\ Builds(x)' /\ job'[u].version = job'[x].version => u = x
    BY <1>6, <1>9 DEF IInv, Jobs, v
  <2>2. ASSUME NEW u \in Commands
        PROVE  /\ job'[u].step = "idle" => ~Busy(u)'
               /\ Busy(u)' => /\ job'[u].version \in Versions
                              /\ status[job'[u].version] # "none"
                              /\ job'[u].step = "embed" => job'[u].todo # {}
               /\ Builds(u)' => status[job'[u].version] = "building" /\ job'[u].step # "delete"
               /\ Busy(u)' /\ job'[u].rebuild /\ job'[u].step # "delete" => job'[u].version \in touched
    <3>1. CASE u = w
      BY <1>1, <1>6, <1>9, <3>1 DEF IInv, Jobs, v
    <3>2. CASE u # w
      BY <1>6, <1>9, <3>2 DEF IInv, Jobs
    <3> QED
      BY <3>1, <3>2
  <2> QED
    BY <1>3, <2>1, <2>2 DEF IInv, Jobs
<1>11. NoRow.owner = 0
  BY DEF NoRow
<1>12. Rows'
  <2>1. \A d \in Chunks : row[d].owner = 0 => d \notin Stored
    BY DEF IInv, Rows, Stored
  <2>2. \A d \in Chunks : row'[d].owner = 0 => row'[d] = NoRow
    BY <1>7, <2>1 DEF IInv, Rows
  <2>3. Stored' \subseteq Stored
    BY <1>7 DEF Stored
  <2>4. \A d \in Chunks : row'[d].owner # 0 => status'[row'[d].owner] # "none"
    BY <1>3, <1>7 DEF IInv, Rows
  <2>5. \A d, e \in Stored' : row'[d].record = row'[e].record => d = e
    BY <1>7, <2>3 DEF IInv, Rows, Stored
  <2>6. \E B \in Nat : \A d \in Chunks : row'[d].record <= B
    BY <1>7 DEF IInv, Rows
  <2> QED
    BY <2>2, <2>4, <2>5, <2>6 DEF Rows
<1>13. \A x \in Versions, i \in Places : ChunkOf(x, i)' = ChunkOf(x, i)
  BY <1>3 DEF ChunkOf
<1>14. \A d \in Chunks : row[d].vector # None => row'[d].vector # None
  BY <1>4, <1>7
<1>15. \A x \in Versions : status[x] # "none" => \A i \in Places : ChunkOf(x, i) \in Chunks
  BY ChunkOfType DEF IInv, Jobs
<1>16. ServedIsWhole'
  BY <1>3, <1>7, <1>13, <1>14, <1>15 DEF IInv, ServedIsWhole, Active
<1>17. \A u \in Commands : u # w => Ahead(u)' = Ahead(u)
  BY <1>3, <1>6 DEF Ahead, ChunkOf
<1>18. c = ChunkOf(v, Min(job[w].todo)) /\ Min(job[w].todo) \in Places /\ c \in Chunks
  BY <1>1, <1>15, AheadOf DEF IInv, c, v, Jobs
<1>19. \A u \in Commands : u # w /\ Busy(u) /\ job[u].step = "embed" => (Holds(u) => Holds(u)')
  <2> SUFFICES ASSUME NEW u \in Commands, u # w, Busy(u), job[u].step = "embed", Holds(u)
               PROVE  Holds(u)'
    OBVIOUS
  <2>1. Ahead(u) \in Chunks
    BY <1>15, AheadOf DEF IInv, Jobs
  <2> QED
    BY <1>6, <1>7, <1>17, <2>1 DEF Holds
<1>20. Builds(w) /\ v \notin touched => row'[c].owner = v /\ row'[c].vector # None
  <2> SUFFICES ASSUME Builds(w), v \notin touched PROVE row'[c].owner = v /\ row'[c].vector # None
    OBVIOUS
  <2>1. row[c].owner = v /\ row[c].record = job[w].record
    BY <1>1 DEF IInv, Built, Holds, c, v
  <2>2. c \in Stored
    BY <1>1, <1>11, <1>18, <2>1, IndexAssumption DEF Stored, Versions
  <2> QED
    BY <1>4, <1>7, <1>18, <2>1, <2>2
<1>21. ASSUME NEW u \in Commands, Builds(u)', job'[u].version \notin touched'
       PROVE  /\ \A i \in Places \ job'[u].todo :
                    /\ row'[ChunkOf(job[u].version, i)'].owner = job'[u].version
                    /\ row'[ChunkOf(job[u].version, i)'].vector # None
              /\ job'[u].step = "embed" => Holds(u)'
  <2>1. /\ Builds(u) /\ Busy(u) /\ job'[u].version = job[u].version /\ job[u].version \notin touched
    BY <1>3, <1>6, <1>9, <1>21 DEF v, Builds
  <2>2. job[u].version \in Versions /\ status[job[u].version] # "none"
    BY <2>1 DEF IInv, Jobs
  <2>3. \A i \in Places : /\ ChunkOf(job[u].version, i)' = ChunkOf(job[u].version, i)
                          /\ ChunkOf(job[u].version, i) \in Chunks
    BY <1>3, <1>15, <2>1, <2>2, <1>6 DEF ChunkOf
  <2>4. \A i \in Places \ job[u].todo : /\ row'[ChunkOf(job[u].version, i)].owner = job[u].version
                                        /\ row'[ChunkOf(job[u].version, i)].vector # None
    BY <1>7, <1>14, <2>1, <2>3 DEF IInv, Built
  <2>5. CASE u = w
    BY <1>6, <1>18, <1>20, <2>1, <2>3, <2>4, <2>5 DEF v
  <2>6. CASE u # w
    BY <1>6, <1>19, <2>1, <2>3, <2>4, <2>6 DEF IInv, Built
  <2> QED
    BY <2>5, <2>6
<1>22. Built'
  BY <1>21 DEF Built
<1>23. Found'
  <2>1. \A x \in Active : \A i \in Places : ChunkOf(x, i)' = ChunkOf(x, i)
    BY <1>13 DEF Active
  <2>2. \A u \in Commands : /\ job'[u].version = job[u].version
                            /\ \A i \in Places : ChunkOf(job[u].version, i)' = ChunkOf(job[u].version, i)
    BY <1>3, <1>6 DEF v, ChunkOf
  <2>3. \A u \in Commands : Builds(u) =>
          /\ \A i \in Places \ job'[u].todo : ChunkOf(job[u].version, i) \in shown \cup gaps
          /\ job'[u].step = "embed" => Ahead(u)' \in shown \cup gaps
    <3> SUFFICES ASSUME NEW u \in Commands, Builds(u)
                 PROVE  /\ \A i \in Places \ job'[u].todo : ChunkOf(job[u].version, i) \in shown \cup gaps
                        /\ job'[u].step = "embed" => Ahead(u)' \in shown \cup gaps
      OBVIOUS
    <3>1. CASE u = w
      BY <1>1, <1>6, <1>18, <3>1 DEF IInv, Found, c, v
    <3>2. CASE u # w
      BY <1>6, <1>17, <3>2 DEF IInv, Found
    <3> QED
      BY <3>1, <3>2
  <2> QED
    BY <1>3, <1>9, <2>1, <2>2, <2>3 DEF IInv, Found
<1>24. Alone'
  <2>1. \A u \in Commands : job[u].step = "embed" => Busy(u)
    BY DEF Busy, Idle
  <2> QED
    BY <1>1, <1>3, <1>6, <1>9, <1>19, <2>1 DEF IInv, Alone
<1>25. VectorsMatchProfile'
  <2> SUFFICES ASSUME ~overlapped, NEW d \in Stored'
               PROVE  row'[d].vector \in {None, config[row'[d].owner].profile}
    BY <1>3 DEF VectorsMatchProfile
  <2>1. d \in Chunks /\ d \in Stored
    BY <1>7 DEF Stored
  <2>2. CASE row'[d] = row[d]
    BY <2>1, <2>2 DEF IInv, VectorsMatchProfile
  <2>3. CASE row[d].record = job[w].record /\ row'[d].vector = profile
    <3>1. row[c].owner = v /\ row[c].record = job[w].record
      BY <1>1 DEF IInv, Alone, Holds, c, v
    <3>2. c \in Stored
      BY <1>1, <1>11, <1>18, <3>1, IndexAssumption DEF Stored, Versions
    <3>3. d = c
      BY <2>1, <2>3, <3>1, <3>2 DEF IInv, Rows
    <3> QED
      BY <1>7, <2>1, <2>3, <3>1, <3>3 DEF profile
  <2> QED
    BY <1>7, <2>1, <2>2, <2>3
<1>26. Reading' /\ RefusalExplained'
  BY <1>3 DEF IInv, Reading, RefusalExplained
<1> QED
  BY <1>8, <1>10, <1>12, <1>16, <1>22, <1>23, <1>24, <1>25, <1>26 DEF IInv

\* A command that ends leaves the others as they were.
LEMMA Ended ==
  ASSUME IInv, NEW w \in Commands, Busy(w), job' = [job EXCEPT ![w] = Idle]
  PROVE  /\ job' \in [Commands -> JobType]
         /\ \A u \in Commands : /\ u # w => job'[u] = job[u]
                                /\ Busy(u)' <=> u # w /\ Busy(u)
                                /\ Builds(u)' <=> u # w /\ Builds(u)
                                /\ job'[u].step = "embed" => u # w
         /\ job'[w].step = "idle"
<1>1. Idle \in JobType /\ Idle.step = "idle"
  BY IndexAssumption DEF Idle, JobType
<1>2. /\ job' \in [Commands -> JobType] /\ job'[w] = Idle
      /\ \A u \in Commands : u # w => job'[u] = job[u]
  BY <1>1 DEF IInv, TypeOK
<1> QED
  BY <1>1, <1>2 DEF Busy, Builds

\* A build that takes over from the served version keeps it.
LEMMA ActivateKeeps == ASSUME IInv, NEW w \in Commands, Activate(w) PROVE IInv'
<1> DEFINE v == job[w].version
<1>1. Busy(w) /\ Builds(w) /\ job[w].todo = {} /\ job[w].step = "write"
  BY DEF Activate, Busy, Idle, Builds
<1>2. v \in Versions /\ status[v] = "building"
  BY <1>1 DEF IInv, Jobs
<1>3. job' = [job EXCEPT ![w] = Idle]
  BY DEF Activate
<1>4. /\ job' \in [Commands -> JobType]
      /\ \A u \in Commands : /\ u # w => job'[u] = job[u]
                             /\ Busy(u)' <=> u # w /\ Busy(u)
                             /\ Builds(u)' <=> u # w /\ Builds(u)
                             /\ job'[u].step = "embed" => u # w
      /\ job'[w].step = "idle"
  BY <1>1, <1>3, Ended
<1>5. /\ status' = [x \in Versions |-> IF x = v THEN "active"
                                       ELSE IF x \in Active THEN "retired" ELSE status[x]]
      /\ reader' = [reader EXCEPT !.moved = TRUE]
      /\ UNCHANGED <<config, row, shown, rebuilds, faults, searches, touched, overlapped, gaps>>
  BY DEF Activate, bounds, history
<1>6. /\ reader' \in ReaderType /\ reader'.moved
      /\ reader'.step = reader.step /\ reader'.reported = reader.reported
  BY <1>5 DEF IInv, TypeOK, ReaderType
<1>7. /\ status' \in [Versions -> {"none", "building", "active", "retired"}] /\ Active' = {v}
      /\ \A x \in Versions : /\ (status'[x] = "none") <=> (status[x] = "none")
                             /\ status[x] = "building" /\ x # v => status'[x] = "building"
  BY <1>2, <1>5 DEF IInv, TypeOK, Active
<1> HIDE DEF v
<1>8. TypeOK'
  BY <1>4, <1>5, <1>6, <1>7 DEF IInv, TypeOK
<1>9. Jobs'
  <2>1. \A u, x \in Commands : Builds(u)' /\ Builds(x)' /\ job'[u].version = job'[x].version => u = x
    BY <1>4 DEF IInv, Jobs
  <2>2. ASSUME NEW u \in Commands
        PROVE  /\ job'[u].step = "idle" => ~Busy(u)'
               /\ Busy(u)' => /\ job'[u].version \in Versions
                              /\ status'[job'[u].version] # "none"
                              /\ job'[u].step = "embed" => job'[u].todo # {}
               /\ Builds(u)' => status'[job'[u].version] = "building" /\ job'[u].step # "delete"
               /\ Busy(u)' /\ job'[u].rebuild /\ job'[u].step # "delete" => job'[u].version \in touched
    <3>1. CASE u = w
      BY <1>4, <3>1
    <3>2. CASE u # w
      <4>1. Builds(u) => job[u].version # v
        BY <1>1, <3>2 DEF IInv, Jobs, v
      <4> QED
        BY <1>4, <1>7, <3>2, <4>1 DEF IInv, Jobs, Builds
    <3> QED
      BY <3>1, <3>2
  <2> QED
    BY <1>5, <1>7, <2>1, <2>2 DEF IInv, Jobs
<1>10. Rows'
  <2>1. \A d \in Chunks : row[d].owner # 0 => row[d].owner \in Versions
    BY IndexAssumption DEF IInv, TypeOK, RowType, Versions
  <2> QED
    BY <1>5, <1>7, <2>1 DEF IInv, Rows, Stored
<1>11. \A x, i : ChunkOf(x, i)' = ChunkOf(x, i)
  BY <1>5 DEF ChunkOf
<1>12. ServedIsWhole'
  BY <1>1, <1>5, <1>7, <1>11 DEF IInv, Built, ServedIsWhole, v
<1>13. \A u \in Commands : u # w => (Ahead(u)' = Ahead(u)) /\ (Holds(u)' <=> Holds(u))
  BY <1>4, <1>5 DEF Ahead, Holds, ChunkOf
<1>14. \A u \in Commands : u # w => \A i : ChunkOf(job[u].version, i)' = ChunkOf(job[u].version, i)
  BY <1>4, <1>5 DEF ChunkOf
<1>15. Built'
  <2>1. ASSUME NEW u \in Commands, Builds(u)', job'[u].version \notin touched'
        PROVE  /\ \A i \in Places \ job'[u].todo :
                     /\ row'[ChunkOf(job[u].version, i)'].owner = job'[u].version
                     /\ row'[ChunkOf(job[u].version, i)'].vector # None
               /\ job'[u].step = "embed" => Holds(u)'
    <3>1. u # w /\ job'[u] = job[u] /\ Builds(u)
      BY <1>4, <2>1
    <3> QED
      BY <1>5, <1>13, <1>14, <2>1, <3>1 DEF IInv, Built
  <2> QED
    BY <2>1 DEF Built
<1>16. Found'
  BY <1>1, <1>4, <1>5, <1>7, <1>11, <1>13, <1>14 DEF IInv, Found, v
<1>17. Alone'
  BY <1>4, <1>5, <1>13 DEF IInv, Alone
<1>18. VectorsMatchProfile'
  BY <1>5 DEF IInv, VectorsMatchProfile, Stored
<1>19. Reading' /\ RefusalExplained'
  BY <1>6 DEF IInv, Reading, RefusalExplained
<1> QED
  BY <1>8, <1>9, <1>10, <1>12, <1>15, <1>16, <1>17, <1>18, <1>19 DEF IInv

\* The end of a rebuild, and a command that fails or dies.
LEMMA EndKeeps ==
  ASSUME IInv, NEW w \in Commands, Busy(w), job' = [job EXCEPT ![w] = Idle],
         UNCHANGED <<tables, reader, history>>, rebuilds' \in Nat, faults' \in Nat, searches' \in Nat
  PROVE  IInv'
<1>1. /\ job' \in [Commands -> JobType]
      /\ \A u \in Commands : /\ u # w => job'[u] = job[u]
                             /\ Busy(u)' <=> u # w /\ Busy(u)
                             /\ Builds(u)' <=> u # w /\ Builds(u)
                             /\ job'[u].step = "embed" => u # w
      /\ job'[w].step = "idle"
  BY Ended
<1>2. UNCHANGED <<status, config, row, shown, reader, touched, overlapped, gaps>> /\ Active' = Active
  BY DEF tables, history, Active
<1>3. TypeOK'
  BY <1>1, <1>2 DEF IInv, TypeOK
<1>4. Jobs'
  <2>1. \A u, x \in Commands : Builds(u)' /\ Builds(x)' /\ job'[u].version = job'[x].version => u = x
    BY <1>1 DEF IInv, Jobs
  <2>2. ASSUME NEW u \in Commands
        PROVE  /\ job'[u].step = "idle" => ~Busy(u)'
               /\ Busy(u)' => /\ job'[u].version \in Versions
                              /\ status[job'[u].version] # "none"
                              /\ job'[u].step = "embed" => job'[u].todo # {}
               /\ Builds(u)' => status[job'[u].version] = "building" /\ job'[u].step # "delete"
               /\ Busy(u)' /\ job'[u].rebuild /\ job'[u].step # "delete" => job'[u].version \in touched
    BY <1>1 DEF IInv, Jobs
  <2> QED
    BY <1>2, <2>1, <2>2 DEF IInv, Jobs
<1>5. \A u \in Commands : u # w => /\ Ahead(u)' = Ahead(u) /\ (Holds(u)' <=> Holds(u))
                                   /\ \A i : ChunkOf(job[u].version, i)' = ChunkOf(job[u].version, i)
  BY <1>1, <1>2 DEF Ahead, Holds, ChunkOf
<1>6. \A x, i : ChunkOf(x, i)' = ChunkOf(x, i)
  BY <1>2 DEF ChunkOf
<1>7. Built' /\ Found' /\ Alone'
  BY <1>1, <1>2, <1>5, <1>6 DEF IInv, Built, Found, Alone
<1>8. Rows' /\ ServedIsWhole' /\ VectorsMatchProfile' /\ Reading' /\ RefusalExplained'
  BY <1>2, <1>6 DEF IInv, Rows, Stored, ServedIsWhole, VectorsMatchProfile, Reading, RefusalExplained
<1> QED
  BY <1>3, <1>4, <1>7, <1>8 DEF IInv

\* What a search has seen after a step that keeps its profile.
Seen(step, reported, used, fts, vec) ==
  [step |-> step, profile |-> reader.profile, reported |-> reported, used |-> used,
   fts |-> fts, vec |-> vec, moved |-> reader.moved]

\* The record of a search after an update.
LEMMA ReaderFields ==
  ASSUME reader \in ReaderType, NEW n \in 0..MaxBuilds, NEW f \in SUBSET Chunks,
         NEW g \in SUBSET Chunks,
         NEW s \in {"fts", "vector", "count", "search", "hydrate", "answered", "refused"}
  PROVE  /\ [reader EXCEPT !.step = s]
              = Seen(s, reader.reported, reader.used, reader.fts, reader.vec)
         /\ [reader EXCEPT !.step = s, !.reported = n]
              = Seen(s, n, reader.used, reader.fts, reader.vec)
         /\ [reader EXCEPT !.step = s, !.used = n]
              = Seen(s, reader.reported, n, reader.fts, reader.vec)
         /\ [reader EXCEPT !.step = s, !.fts = f]
              = Seen(s, reader.reported, reader.used, f, reader.vec)
         /\ [reader EXCEPT !.step = s, !.vec = g]
              = Seen(s, reader.reported, reader.used, reader.fts, g)
<1> DEFINE k == [reader EXCEPT !.step = s]
<1>1. k = Seen(s, reader.reported, reader.used, reader.fts, reader.vec) /\ k \in ReaderType
  BY DEF ReaderType, Seen
<1> HIDE DEF k
<1>2. /\ k.step = s /\ k.profile = reader.profile /\ k.reported = reader.reported
      /\ k.used = reader.used /\ k.fts = reader.fts /\ k.vec = reader.vec /\ k.moved = reader.moved
  BY <1>1 DEF Seen
<1>3. [k EXCEPT !.reported = n] = Seen(s, n, reader.used, reader.fts, reader.vec)
  BY <1>1, <1>2 DEF ReaderType, Seen
<1>4. [k EXCEPT !.used = n] = Seen(s, reader.reported, n, reader.fts, reader.vec)
  BY <1>1, <1>2 DEF ReaderType, Seen
<1>5. [k EXCEPT !.vec = g] = Seen(s, reader.reported, reader.used, reader.fts, g)
  BY <1>1, <1>2 DEF ReaderType, Seen
<1>6. [k EXCEPT !.fts = f] = Seen(s, reader.reported, reader.used, f, reader.vec)
  BY <1>1, <1>2 DEF ReaderType, Seen
<1> QED
  BY <1>1, <1>3, <1>4, <1>5, <1>6, Zenon DEF k

\* A search only moves its reader, and what it saw explains how it ends.
LEMMA SearchKeeps == ASSUME IInv, Search PROVE IInv'
<1> DEFINE a == CHOOSE v \in Active : TRUE
           hits == {c \in Owned(reader.used) : row[c].vector # None}
<1>1. UNCHANGED <<tables, job, rebuilds, faults, history>> /\ searches' \in Nat
  BY DEF Search, Backend, ReadIndex, ReadFts, ReadAgain, CountRecords, SearchVectors, Hydrate,
         Respond, Read, bounds, IInv, TypeOK
<1>2. /\ UNCHANGED <<status, config, row, shown, job, rebuilds, faults, touched, overlapped, gaps>>
      /\ Active' = Active
  BY <1>1 DEF tables, history, Active
<1>3. Active # {} => /\ a \in Active /\ a \in 0..MaxBuilds /\ config[a].profile \in Profiles
                     /\ a # 0 /\ config[a].profile # None
  <2> SUFFICES ASSUME Active # {}
               PROVE  /\ a \in Active /\ a \in 0..MaxBuilds /\ config[a].profile \in Profiles
                      /\ a # 0 /\ config[a].profile # None
    OBVIOUS
  <2>1. a \in Active
    OBVIOUS
  <2> HIDE DEF a
  <2>2. a \in Versions /\ config[a] \in Configs
    BY <2>1 DEF Active, IInv, Jobs
  <2> QED
    BY <2>1, <2>2, IndexAssumption DEF Versions, Profiles
<1>4. /\ None \in Profiles \cup {None} /\ {} \in SUBSET Chunks /\ 0 \in 0..MaxBuilds
      /\ shown \in SUBSET Chunks /\ Stored \in SUBSET Chunks /\ hits \in SUBSET Chunks
  BY IndexAssumption DEF IInv, TypeOK, Owned, Stored
<1>5. reader \in ReaderType /\ Still \in ReaderType /\ Still.step = "idle"
  BY <1>4 DEF IInv, TypeOK, Still, ReaderType
<1>6. /\ reader.reported \in 0..MaxBuilds /\ reader.used \in 0..MaxBuilds
      /\ reader.fts \in SUBSET Chunks /\ reader.vec \in SUBSET Chunks
  BY <1>5 DEF ReaderType
<1>7. \A s \in {"fts", "vector", "count", "search", "hydrate", "answered", "refused"},
         m, n \in 0..MaxBuilds, f, g \in SUBSET Chunks :
        LET e == Seen(s, m, n, f, g)
        IN /\ e \in ReaderType /\ e.step = s /\ e.reported = m /\ e.used = n
           /\ e.profile = reader.profile /\ e.moved = reader.moved
  BY <1>5 DEF Seen, ReaderType
<1>8. ASSUME Backend PROVE reader' \in ReaderType /\ Reading' /\ RefusalExplained'
  <2> DEFINE p == IF Active = {} THEN None ELSE config[a].profile
             k == [Still EXCEPT !.step = "index"]
  <2>1. p \in Profiles \cup {None}
    BY <1>3
  <2>2. reader' = [k EXCEPT !.profile = p]
    BY <1>8 DEF Backend
  <2>3. /\ Still.profile = None /\ Still.reported = 0 /\ Still.used = 0
        /\ Still.fts = {} /\ Still.vec = {} /\ Still.moved = FALSE
    BY DEF Still
  <2>4. k = [step |-> "index", profile |-> None, reported |-> 0, used |-> 0,
             fts |-> {}, vec |-> {}, moved |-> FALSE]
    <3>1. \A j \in ReaderType :
            [j EXCEPT !.step = "index"] = [step |-> "index", profile |-> j.profile,
               reported |-> j.reported, used |-> j.used, fts |-> j.fts, vec |-> j.vec, moved |-> j.moved]
      BY DEF ReaderType
    <3> QED
      BY <1>5, <2>3, <3>1
  <2> HIDE DEF p, k
  <2>5. reader' = [step |-> "index", profile |-> p, reported |-> 0, used |-> 0,
                   fts |-> {}, vec |-> {}, moved |-> FALSE]
    BY <2>2, <2>4
  <2>6. /\ reader' \in ReaderType /\ reader'.step = "index" /\ reader'.profile = p
        /\ reader'.reported = 0
    BY <1>4, <2>1, <2>5 DEF ReaderType
  <2>7. p = IF Active' = {} THEN None ELSE config'[CHOOSE v \in Active' : TRUE].profile
    BY <1>2 DEF p
  <2>8. Reading'
    BY <2>6, <2>7 DEF Reading
  <2> QED
    BY <2>6, <2>8 DEF RefusalExplained
<1>9. ASSUME ReadIndex PROVE reader' \in ReaderType /\ Reading' /\ RefusalExplained'
  <2>1. CASE Active = {}
    <3>1. reader' = Seen("refused", reader.reported, reader.used, reader.fts, reader.vec)
      BY <1>5, <1>6, <1>9, <2>1, ReaderFields DEF ReadIndex, Read, Refused
    <3>2. /\ reader' \in ReaderType /\ reader'.step = "refused" /\ reader'.reported = reader.reported
      BY <1>6, <1>7, <3>1
    <3>3. reader.reported = 0
      BY <1>9 DEF ReadIndex, Read, IInv, Reading
    <3> QED
      BY <3>2, <3>3 DEF Reading, RefusalExplained
  <2>2. CASE Active # {}
    <3>1. reader' = Seen("fts", a, reader.used, reader.fts, reader.vec)
      <4>1. reader' = [reader EXCEPT !.step = "fts", !.reported = a]
        BY <1>9, <2>2 DEF ReadIndex, Read
      <4>2. a \in 0..MaxBuilds
        BY <1>3, <2>2
      <4> HIDE DEF a
      <4> QED
        BY <1>5, <1>6, <4>1, <4>2, ReaderFields
    <3>2. /\ reader' \in ReaderType /\ reader'.step = "fts" /\ reader'.profile = reader.profile
          /\ reader'.moved = reader.moved
      BY <1>3, <1>6, <1>7, <2>2, <3>1
    <3>3. ~reader.moved => reader.profile = IF Active = {} THEN None ELSE config[a].profile
      BY <1>9 DEF ReadIndex, Read, IInv, Reading
    <3>4. Reading'
      BY <1>2, <2>2, <3>2, <3>3 DEF Reading
    <3> QED
      BY <3>2, <3>4 DEF RefusalExplained
  <2> QED
    BY <2>1, <2>2
<1>10. ASSUME ReadFts PROVE reader' \in ReaderType /\ Reading' /\ RefusalExplained'
  <2>1. reader' = Seen("vector", reader.reported, reader.used, shown, reader.vec)
    BY <1>4, <1>5, <1>6, <1>10, ReaderFields DEF ReadFts, Read
  <2>2. /\ reader' \in ReaderType /\ reader'.step = "vector" /\ reader'.profile = reader.profile
        /\ reader'.moved = reader.moved
    BY <1>4, <1>6, <1>7, <2>1
  <2>3. ~reader.moved => reader.profile = (IF Active = {} THEN None ELSE config[a].profile) /\ Active # {}
    BY <1>10 DEF ReadFts, Read, IInv, Reading
  <2>4. Reading'
    BY <1>2, <2>2, <2>3 DEF Reading
  <2> QED
    BY <2>2, <2>4 DEF RefusalExplained
<1>11. ASSUME ReadAgain PROVE reader' \in ReaderType /\ Reading' /\ RefusalExplained'
  <2>1. ~reader.moved => Active # {} /\ config[a].profile = reader.profile
    BY <1>11 DEF ReadAgain, Read, IInv, Reading
  <2>2. CASE Active # {} /\ config[a].profile = reader.profile
    <3>1. reader' = [reader EXCEPT !.step = "count", !.used = a]
      BY <1>11, <2>2 DEF ReadAgain, Read
    <3>2. a \in Active /\ a \in 0..MaxBuilds
      BY <1>3, <2>2
    <3> HIDE DEF a
    <3>3. reader' = Seen("count", reader.reported, a, reader.fts, reader.vec)
      BY <1>5, <1>6, <3>1, <3>2, ReaderFields
    <3>4. reader' \in ReaderType /\ reader'.step = "count" /\ reader'.used = a
      BY <1>6, <1>7, <3>2, <3>3
    <3> QED
      BY <1>2, <3>2, <3>4 DEF Reading, RefusalExplained
  <2>3. CASE ~(Active # {} /\ config[a].profile = reader.profile)
    <3>1. reader' = [reader EXCEPT !.step = "refused"]
      BY <1>11, <2>3 DEF ReadAgain, Read, Refused
    <3>2. reader' = Seen("refused", reader.reported, reader.used, reader.fts, reader.vec)
      BY <1>5, <1>6, <3>1, ReaderFields
    <3>3. reader' \in ReaderType /\ reader'.step = "refused" /\ reader'.moved = reader.moved
      BY <1>6, <1>7, <3>2
    <3>4. reader.moved
      BY <2>1, <2>3
    <3> QED
      BY <3>3, <3>4 DEF Reading, RefusalExplained
  <2> QED
    BY <2>2, <2>3
<1>12. ASSUME CountRecords PROVE reader' \in ReaderType /\ Reading' /\ RefusalExplained'
  <2>1. CASE Owned(reader.used) = {}
    <3>1. reader' = [reader EXCEPT !.step = "refused"]
      BY <1>12, <2>1 DEF CountRecords, Read, Refused
    <3>2. reader' = Seen("refused", reader.reported, reader.used, reader.fts, reader.vec)
      BY <1>5, <1>6, <3>1, ReaderFields
    <3>3. /\ reader' \in ReaderType /\ reader'.step = "refused" /\ reader'.moved = reader.moved
          /\ reader'.used = reader.used
      BY <1>6, <1>7, <3>2
    <3>4. reader.moved \/ reader.used \in Active
      BY <1>12 DEF CountRecords, Read, IInv, Reading
    <3>5. ASSUME reader.used \in Active, reader.used \notin touched PROVE FALSE
      <4> DEFINE c == ChunkOf(reader.used, 1)
      <4>1. 1 \in Places /\ reader.used \in Versions /\ status[reader.used] = "active"
        BY <3>5, IndexAssumption DEF Places, Active
      <4>2. row[c].owner = reader.used /\ row[c].vector # None
        BY <3>5, <4>1 DEF IInv, ServedIsWhole
      <4>3. c \in Chunks
        BY <4>1, ChunkOfType DEF IInv, Jobs
      <4> HIDE DEF c
      <4>4. c \in Owned(reader.used)
        BY <4>2, <4>3 DEF Owned, Stored, NoRow
      <4> QED
        BY <2>1, <4>4
    <3> QED
      BY <1>2, <3>3, <3>4, <3>5 DEF Reading, RefusalExplained
  <2>2. CASE Owned(reader.used) # {}
    <3>1. reader' = [reader EXCEPT !.step = "search"]
      BY <1>12, <2>2 DEF CountRecords, Read
    <3>2. reader' = Seen("search", reader.reported, reader.used, reader.fts, reader.vec)
      BY <1>5, <1>6, <3>1, ReaderFields
    <3>3. reader' \in ReaderType /\ reader'.step = "search"
      BY <1>6, <1>7, <3>2
    <3> QED
      BY <3>3 DEF Reading, RefusalExplained
  <2> QED
    BY <2>1, <2>2
<1>13. ASSUME SearchVectors PROVE reader' \in ReaderType /\ Reading' /\ RefusalExplained'
  <2>1. reader' = [reader EXCEPT !.step = "hydrate", !.vec = hits]
    BY <1>13 DEF SearchVectors, Read
  <2> HIDE DEF hits
  <2>2. reader' = Seen("hydrate", reader.reported, reader.used, reader.fts, hits)
    BY <1>4, <1>5, <1>6, <2>1, ReaderFields
  <2>3. reader' \in ReaderType /\ reader'.step = "hydrate"
    BY <1>4, <1>6, <1>7, <2>2
  <2> QED
    BY <2>3 DEF Reading, RefusalExplained
<1>14. ASSUME Hydrate PROVE reader' \in ReaderType /\ Reading' /\ RefusalExplained'
  <2> DEFINE f == reader.fts \cap Stored
             g == reader.vec \cap Stored
  <2>1. reader' = [reader EXCEPT !.step = "answered", !.fts = f, !.vec = g]
    BY <1>14 DEF Hydrate, Read
  <2>2. f \in SUBSET Chunks /\ g \in SUBSET Chunks
    BY <1>4
  <2> HIDE DEF f, g
  <2>3. reader' = Seen("answered", reader.reported, reader.used, f, g)
    <3> DEFINE k == [reader EXCEPT !.step = "answered"]
               l == [k EXCEPT !.fts = f]
    <3>1. /\ k = Seen("answered", reader.reported, reader.used, reader.fts, reader.vec)
          /\ l = Seen("answered", reader.reported, reader.used, f, reader.vec)
      BY <1>5, <1>6, <2>2, ReaderFields
    <3>2. l \in ReaderType
      BY <1>6, <1>7, <2>2, <3>1
    <3> HIDE DEF l
    <3>3. [l EXCEPT !.vec = g] = Seen("answered", reader.reported, reader.used, f, g)
      BY <3>1, <3>2 DEF ReaderType, Seen
    <3> QED
      BY <2>1, <3>3, Zenon DEF l
  <2>4. reader' \in ReaderType /\ reader'.step = "answered"
    BY <1>6, <1>7, <2>2, <2>3
  <2> QED
    BY <2>4 DEF Reading, RefusalExplained
<1>15. ASSUME Respond PROVE reader' \in ReaderType /\ Reading' /\ RefusalExplained'
  <2>1. reader' = Still
    BY <1>15 DEF Respond, Read
  <2> QED
    BY <1>5, <2>1 DEF Reading, RefusalExplained
<1>16. reader' \in ReaderType /\ Reading' /\ RefusalExplained'
  BY <1>8, <1>9, <1>10, <1>11, <1>12, <1>13, <1>14, <1>15 DEF Search
<1>17. TypeOK'
  BY <1>1, <1>2, <1>16 DEF IInv, TypeOK
<1>18. \A w \in Commands : /\ Ahead(w)' = Ahead(w) /\ (Holds(w)' <=> Holds(w))
                           /\ (Busy(w)' <=> Busy(w)) /\ (Builds(w)' <=> Builds(w))
                           /\ \A i : ChunkOf(job[w].version, i)' = ChunkOf(job[w].version, i)
  BY <1>2 DEF Ahead, Holds, ChunkOf, Busy, Builds
<1>19. \A x, i : ChunkOf(x, i)' = ChunkOf(x, i)
  BY <1>2 DEF ChunkOf
<1>20. Jobs' /\ Rows' /\ ServedIsWhole' /\ VectorsMatchProfile'
  BY <1>2, <1>18, <1>19 DEF IInv, Jobs, Rows, Stored, ServedIsWhole, VectorsMatchProfile
<1>21. Built' /\ Found' /\ Alone'
  BY <1>2, <1>18, <1>19 DEF IInv, Built, Found, Alone
<1> QED
  BY <1>16, <1>17, <1>20, <1>21 DEF IInv
-----------------------------------------------------------------------------
\* The inductive invariant holds in every state the commands and searches reach.
THEOREM Invariance == Spec => []IInv
<1>1. IInv /\ [Next]_vars => IInv'
  <2> SUFFICES ASSUME IInv, [Next]_vars PROVE IInv'
    OBVIOUS
  <2>1. ASSUME NEW w \in Commands, Command(w) PROVE IInv'
    <3>1. CASE EndRebuild(w)
      <4>1. Busy(w) /\ job' = [job EXCEPT ![w] = Idle] /\ UNCHANGED <<tables, reader, bounds, history>>
        BY <3>1 DEF EndRebuild, Busy, Idle
      <4>2. rebuilds' \in Nat /\ faults' \in Nat /\ searches' \in Nat
        BY <4>1 DEF bounds, IInv, TypeOK
      <4> QED
        BY <4>1, <4>2, EndKeeps
    <3>2. CASE Fail(w)
      <4>1. /\ Busy(w) /\ job' = [job EXCEPT ![w] = Idle] /\ faults' = faults + 1
            /\ UNCHANGED <<tables, reader, rebuilds, searches, history>>
        BY <3>2 DEF Fail, Busy
      <4>2. rebuilds' \in Nat /\ faults' \in Nat /\ searches' \in Nat
        BY <4>1 DEF IInv, TypeOK
      <4> QED
        BY <4>1, <4>2, EndKeeps
    <3> QED
      BY <2>1, <3>1, <3>2, StartKeeps, StartRebuildKeeps, DeleteKeeps, WriteKeeps, StoreKeeps,
         ActivateKeeps DEF Command
  <2>2. CASE UNCHANGED vars
    BY <2>2 DEF vars, tables, bounds, history, IInv, TypeOK, Jobs, Rows, Built, ServedIsWhole, Found,
                Alone, VectorsMatchProfile, Reading, RefusalExplained, Busy, Builds, Stored, Holds,
                Ahead, ChunkOf, Active
  <2> QED
    BY <2>1, <2>2, SearchKeeps DEF Next
<1> QED
  BY <1>1, InitHolds, PTL DEF Spec

\* The tables, the commands and the search keep their types.
THEOREM Types == Spec => []TypeOK
BY Invariance, PTL DEF IInv

\* For any book and any commands, failed or not, a served version that nobody
\* wrote over has all its chunks, each with a vector.
THEOREM WholeServed == Spec => []ServedIsWhole
BY Invariance, PTL DEF IInv

\* Record ids are given out again, and yet, as long as commands run one after the
\* other, no vector comes from another embedder than its version names.
THEOREM ProfilesMatch == Spec => []VectorsMatchProfile
BY Invariance, PTL DEF IInv

\* A book that was once searchable stays so, whatever builds and failures follow;
\* only a chapter rebuild takes text away.
THEOREM AlwaysFindable == Spec => []TextStaysFindable
<1>1. IInv => TextStaysFindable
  BY DEF IInv, Found, Jobs, TextStaysFindable, ChunkOf, Active, Schemes
<1> QED
  BY <1>1, Invariance, PTL

\* Every refused search has one of three reasons: there was no index, another was
\* activated during the search, or a command wrote over the chunks it used.
THEOREM RefusalsExplained == Spec => []RefusalExplained
BY Invariance, PTL DEF IInv
================================================================================
