------------------------------ MODULE ClaimStore ------------------------------
(***************************************************************************)
(* The append-only claim store that all runs of a book share: the align    *)
(* command (evidence/service.py, extraction/materialize.py) writes through *)
(* Repository.write_claim and its siblings (storage/repository.py), the    *)
(* activation gate reads what it left (pipeline/validation.py), and        *)
(* queries read the view of the active run (query/service.py).             *)
(*                                                                         *)
(* A claim's version id is a hash of its fact, operation and payload, so   *)
(* runs that read the same thing share one row, whose status and primary   *)
(* evidence the last writer sets.  What a run owns is its observations and *)
(* its evidence rows.                                                      *)
(*                                                                         *)
(* One action is one transaction.  write_claim is two: the sqlite3 driver  *)
(* issues BEGIN in front of the INSERT only, after the SELECTs.  Those two *)
(* are one step here: had another process inserted the version between     *)
(* them, the INSERT would fail all the same.                               *)
(***************************************************************************)
EXTENDS Naturals, Sequences

CONSTANTS Runs,
          Versions,   \* claim_version_ids
          FactOf,     \* the fact a version is of
          Operation,  \* the operation hashed into it
          Chapters,   \* ordinals
          Drafts,     \* what extraction and anchor matching may leave a run
          None

\* A claim of a draft for which a span was found in its chapter.
Claims == [version : Versions, chapter : Chapters]

ASSUME ClaimAssumption ==
  /\ None \notin Versions \cup Runs
  /\ Operation \in [Versions -> {"assert", "update", "retract"}]
  /\ Chapters \subseteq Nat
  /\ Drafts \subseteq Seq(Claims)

VARIABLES draft,      \* a run's claims with evidence, in reading order
          rowid,      \* claims.rowid; 0 without a row
          last,       \* the largest rowid
          supersedes, \* claims.supersedes_version_id
          disclosed,  \* claims.observed_ordinal
          status,     \* claims.claim_status
          primary,    \* the evidence claims.primary_evidence_id names
          observed,   \* claim_observations: <<run, version>>
          evidence,   \* claim_evidence
          stage,      \* extraction_runs.status, as far as it matters here
          pc,         \* the next step of the align command of a run
          pos,        \* the claim it is at
          found,      \* the version its SELECT found to supersede
          aligned,    \* history: runs an align command went through
          overlapped  \* history: a command began during an align command

claims  == <<rowid, last, supersedes, disclosed>>
shared  == <<status, primary>>
own     == <<observed, evidence>>
command == <<pc, pos, found>>
history == <<aligned, overlapped>>
vars    == <<draft, claims, shared, own, stage, command, history>>

Evidence == [version : Versions, chapter : Chapters, run : Runs]

Pc == {"idle", "select", "insert", "primary", "evidence", "status"}

TypeOK == /\ draft \in [Runs -> Seq(Claims)]
          /\ rowid \in [Versions -> Nat]
          /\ last \in Nat
          /\ supersedes \in [Versions -> Versions \cup {None}]
          /\ disclosed \in [Versions -> Chapters \cup {None}]
          /\ status \in [Versions -> {"unverified", "supported"}]
          /\ primary \in [Versions -> Evidence \cup {None}]
          /\ observed \subseteq Runs \X Versions
          /\ evidence \subseteq Evidence
          /\ stage \in [Runs -> {"open", "ready", "active", "superseded"}]
          /\ pc \in [Runs -> Pc]
          /\ pos \in [Runs -> Nat \ {0}]
          /\ found \in [Runs -> Versions \cup {None}]
          /\ aligned \subseteq Runs
          /\ overlapped \in BOOLEAN
          /\ \A r \in Runs : pos[r] <= Len(draft[r]) + 1

Init == /\ draft \in [Runs -> Drafts]
        /\ rowid = [v \in Versions |-> 0]
        /\ last = 0
        /\ supersedes = [v \in Versions |-> None]
        /\ disclosed = [v \in Versions |-> None]
        /\ status = [v \in Versions |-> "unverified"]
        /\ primary = [v \in Versions |-> None]
        /\ observed = {}
        /\ evidence = {}
        /\ stage = [r \in Runs |-> "open"]
        /\ pc = [r \in Runs |-> "idle"]
        /\ pos = [r \in Runs |-> 1]
        /\ found = [r \in Runs |-> None]
        /\ aligned = {}
        /\ overlapped = FALSE
-------------------------------------------------------------------------------
Stored(v) == rowid[v] > 0

Busy(r) == pc[r] # "idle"

Goto(r, label) == pc' = [pc EXCEPT ![r] = label]

\* The command is over, by returning, by an exception or by dying.
Stop(r) == /\ Goto(r, "idle")
           /\ pos' = [pos EXCEPT ![r] = 1]
           /\ found' = [found EXCEPT ![r] = None]

\* A command that begins while an align command is alive overlaps it.
Accompany == overlapped' = (overlapped \/ \E q \in Runs : Busy(q))

\* The step that is next, and the claim it is for.
AtClaim(r, label) == pc[r] = label /\ pos[r] <= Len(draft[r])

Claim(r)   == draft[r][pos[r]]
Version(r) == Claim(r).version
-------------------------------------------------------------------------------
(* The align command *)

\* align does not insist on the run's status, nor on being the first for it.
Start(r) == /\ ~Busy(r)
            /\ Goto(r, "select")
            /\ Accompany
            /\ UNCHANGED <<draft, claims, shared, own, stage, pos, found, aligned>>

Observe(r, v) == observed' = observed \cup {<<r, v>>}

\* With a mistake: the sort order is lost.
IsOldest(u, v) ==
  LET others == {w \in Versions : /\ Stored(w)
                                  /\ w # v
                                  /\ FactOf[w] = FactOf[v]}
  IN  IF others = {} THEN u = None
      ELSE u \in others /\ \A w \in others : rowid[w] >= rowid[u]

\* Repository._latest_version_of_fact: ORDER BY rowid DESC LIMIT 1.
IsLatest(u, v) ==
  LET others == {w \in Versions : /\ Stored(w)
                                  /\ w # v
                                  /\ FactOf[w] = FactOf[v]}
  IN  IF others = {} THEN u = None
      ELSE u \in others /\ \A w \in others : rowid[w] <= rowid[u]

\* With a mistake: the row's chapter becomes that of its last reader.
Redisclose(r) == /\ AtClaim(r, "select")
                 /\ Stored(Version(r))
                 /\ Observe(r, Version(r))
                 /\ disclosed' = [disclosed EXCEPT ![Version(r)] = Claim(r).chapter]
                 /\ Goto(r, "primary")
                 /\ UNCHANGED <<draft, rowid, last, supersedes, shared, evidence,
                                stage, pos, found, history>>

\* The version exists: write_claim adds the observation and nothing else.
Reobserve(r) == /\ AtClaim(r, "select")
                /\ Stored(Version(r))
                /\ Observe(r, Version(r))
                /\ Goto(r, "primary")
                /\ UNCHANGED <<draft, claims, shared, evidence, stage, pos, found,
                               history>>

\* With a mistake: only retractions are refused.
MayBeginUpdate(v, u) == Operation[v] # "retract" \/ u # None

\* A revision needs something to revise.
MayBegin(v, u) == Operation[v] = "assert" \/ u # None

\* It does not: look for the version to supersede.
Select(r) == /\ AtClaim(r, "select")
             /\ ~Stored(Version(r))
             /\ \E u \in Versions \cup {None} :
                  /\ IsLatest(u, Version(r))
                  /\ MayBegin(Version(r), u)
                  /\ found' = [found EXCEPT ![r] = u]
             /\ Goto(r, "insert")
             /\ UNCHANGED <<draft, claims, shared, own, stage, pos, history>>

\* ValueError, which nothing catches: the command ends in mid-draft.
RefuseRevision(r) == /\ AtClaim(r, "select")
                     /\ ~Stored(Version(r))
                     /\ \E u \in Versions \cup {None} :
                          /\ IsLatest(u, Version(r))
                          /\ ~MayBegin(Version(r), u)
                     /\ Stop(r)
                     /\ UNCHANGED <<draft, claims, shared, own, stage, history>>

\* The row, its payload row and the observation: one transaction.
Insert(r) == LET v == Version(r) IN
  /\ AtClaim(r, "insert")
  /\ ~Stored(v)
  /\ rowid' = [rowid EXCEPT ![v] = last + 1]
  /\ last' = last + 1
  /\ supersedes' = [supersedes EXCEPT ![v] = found[r]]
  /\ disclosed' = [disclosed EXCEPT ![v] = Claim(r).chapter]
  /\ status' = [status EXCEPT ![v] = "unverified"]
  /\ primary' = [primary EXCEPT ![v] = None]
  /\ Observe(r, v)
  /\ Goto(r, "primary")
  /\ UNCHANGED <<draft, evidence, stage, pos, found, history>>

\* Another process was faster: the primary key is violated.
InsertFails(r) == /\ AtClaim(r, "insert")
                  /\ Stored(Version(r))
                  /\ Stop(r)
                  /\ UNCHANGED <<draft, claims, shared, own, stage, history>>

\* evidence_id: version, span and verification run.
EvidenceFor(r) == [version |-> Version(r), chapter |-> Claim(r).chapter, run |-> r]

\* set_primary_evidence, whose row is not yet there.
SetPrimary(r) == /\ AtClaim(r, "primary")
                 /\ primary' = [primary EXCEPT ![Version(r)] = EvidenceFor(r)]
                 /\ Goto(r, "evidence")
                 /\ UNCHANGED <<draft, claims, status, own, stage, pos, found,
                                history>>

\* With a mistake: unique by claim and span, as before migration 0017.
NewSpan(r) == {e \in {EvidenceFor(r)} :
                 ~\E f \in evidence : /\ f.version = e.version
                                      /\ f.chapter = e.chapter}

\* write_evidence: INSERT OR IGNORE, unique by evidence_id.
NewEvidence(r) == {EvidenceFor(r)}

WriteEvidence(r) == /\ AtClaim(r, "evidence")
                    /\ evidence' = evidence \cup NewEvidence(r)
                    /\ Goto(r, "status")
                    /\ UNCHANGED <<draft, claims, shared, observed, stage, pos,
                                   found, history>>

\* set_claim_status: the one stance the literal verifier yields is "supports".
SetStatus(r) == /\ AtClaim(r, "status")
                /\ status' = [status EXCEPT ![Version(r)] = "supported"]
                /\ Goto(r, "select")
                /\ pos' = [pos EXCEPT ![r] = @ + 1]
                /\ UNCHANGED <<draft, claims, primary, own, stage, found, history>>

Finish(r) == /\ pc[r] = "select"
             /\ pos[r] > Len(draft[r])
             /\ Stop(r)
             /\ aligned' = aligned \cup {r}
             /\ UNCHANGED <<draft, claims, shared, own, stage, overlapped>>

Crash(r) == /\ Busy(r)
            /\ Stop(r)
            /\ UNCHANGED <<draft, claims, shared, own, stage, history>>

Align(r) == \/ Start(r)
            \/ Reobserve(r)
            \/ Select(r)
            \/ RefuseRevision(r)
            \/ Insert(r)
            \/ InsertFails(r)
            \/ SetPrimary(r)
            \/ WriteEvidence(r)
            \/ SetStatus(r)
            \/ Finish(r)
            \/ Crash(r)
-------------------------------------------------------------------------------
(* Gate and activation, whose own races RunLifecycle models *)

\* Validator.issues: a supported claim of the run whose primary evidence is
\* not a row of this run.  (A primary that is one is also "some evidence".)
Orphans(r) == {v \in Versions : /\ <<r, v>> \in observed
                                /\ status[v] = "supported"
                                /\ ~ /\ primary[v] \in evidence
                                     /\ primary[v].run = r}

Gate(r) == /\ stage[r] = "open"
           /\ Orphans(r) = {}
           /\ stage' = [stage EXCEPT ![r] = "ready"]
           /\ Accompany
           /\ UNCHANGED <<draft, claims, shared, own, command, aligned>>

\* _run_activate: the status walks on without the validator.
SkipGate(r) == /\ stage[r] = "open"
               /\ stage' = [stage EXCEPT ![r] = "ready"]
               /\ Accompany
               /\ UNCHANGED <<draft, claims, shared, own, command, aligned>>

Activate(r) == /\ stage[r] = "ready"
               /\ stage' = [q \in Runs |-> IF q = r THEN "active"
                                           ELSE IF stage[q] = "active"
                                                THEN "superseded" ELSE stage[q]]
               /\ Accompany
               /\ UNCHANGED <<draft, claims, shared, own, command, aligned>>

Publish(r) == Gate(r) \/ SkipGate(r) \/ Activate(r)

Next == \E r \in Runs : Align(r) \/ Publish(r)

Spec == Init /\ [][Next]_vars
-------------------------------------------------------------------------------
(* What a query reads when the run is active *)

\* v_active_claims with _cutoff_sql.
Visible(r, cutoff) == {v \in Versions : /\ <<r, v>> \in observed
                                        /\ disclosed[v] <= cutoff}

\* ROW_NUMBER() OVER (PARTITION BY fact_id ORDER BY _rowid DESC) = 1.
Current(r, cutoff) ==
  {v \in Visible(r, cutoff) :
     \A u \in Visible(r, cutoff) : FactOf[u] = FactOf[v] => rowid[u] <= rowid[v]}

\* _current_filter.
Answers(r, cutoff) == {v \in Current(r, cutoff) : /\ Operation[v] # "retract"
                                                  /\ status[v] = "supported"}

\* _evidence_for.
EvidenceOf(r, v) == {e \in evidence : e.version = v /\ e.run = r}

Answered(r, cutoff) == {<<v, EvidenceOf(r, v)>> : v \in Answers(r, cutoff)}
===============================================================================
