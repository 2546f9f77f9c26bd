--------------------------- MODULE ClaimStoreProofs ---------------------------
(***************************************************************************)
(* Proofs for ClaimStore, for any runs, versions, chapters and drafts.     *)
(***************************************************************************)
EXTENDS ClaimStoreProps, TLAPS

\* Types: every variable stays in its range, and no command runs past the end
\* of its draft.
THEOREM ClaimTyping == Spec => []TypeOK
<1> USE ClaimAssumption
<1>1. ASSUME Init PROVE TypeOK
  <2>1. \A r \in Runs : pos[r] = 1 /\ draft[r] \in Drafts
    BY <1>1 DEF Init
  <2>2. Drafts \subseteq Seq(Claims)
    OBVIOUS
  <2>3. \A r \in Runs : pos[r] <= Len(draft[r]) + 1
    <3> TAKE r \in Runs
    <3>1. Len(draft[r]) \in Nat
      BY <2>1, <2>2
    <3> QED
      BY <2>1, <3>1
  <2>4. draft \in [Runs -> Seq(Claims)]
    BY <1>1, <2>2 DEF Init
  <2>5. /\ rowid \in [Versions -> Nat]
        /\ last \in Nat
        /\ pos \in [Runs -> Nat \ {0}]
    BY <1>1 DEF Init
  <2>6. /\ supersedes \in [Versions -> Versions \cup {None}]
        /\ disclosed \in [Versions -> Chapters \cup {None}]
        /\ primary \in [Versions -> Evidence \cup {None}]
        /\ found \in [Runs -> Versions \cup {None}]
    BY <1>1 DEF Init
  <2>7. /\ status \in [Versions -> {"unverified", "supported"}]
        /\ stage \in [Runs -> {"open", "ready", "active", "superseded"}]
        /\ pc \in [Runs -> Pc]
    BY <1>1 DEF Init, Pc
  <2>8. /\ observed \subseteq Runs \X Versions
        /\ evidence \subseteq Evidence
        /\ aligned \subseteq Runs
        /\ overlapped \in BOOLEAN
    BY <1>1 DEF Init
  <2> QED
    BY <2>3, <2>4, <2>5, <2>6, <2>7, <2>8 DEF TypeOK
<1>2. TypeOK /\ [Next]_vars => TypeOK'
  <2> SUFFICES ASSUME TypeOK, [Next]_vars
               PROVE  TypeOK'
    OBVIOUS
  <2>1. ASSUME NEW r \in Runs, pos[r] <= Len(draft[r])
        PROVE  /\ Claim(r) \in Claims
               /\ Version(r) \in Versions
               /\ Claim(r).chapter \in Chapters
               /\ EvidenceFor(r) \in Evidence
    <3>1. pos[r] \in 1..Len(draft[r]) /\ draft[r] \in Seq(Claims)
      BY <2>1 DEF TypeOK
    <3>2. Claim(r) \in Claims
      BY <3>1 DEF Claim
    <3> QED
      BY <3>2 DEF Version, Claims, EvidenceFor, Evidence
  <2> USE DEF claims, shared, own, command, history, Goto, Stop, AtClaim,
              Busy, Observe, Pc, Accompany
  <2>2. ASSUME NEW r \in Runs, Start(r) PROVE TypeOK'
    BY <2>2 DEF Start, TypeOK
  <2>3. ASSUME NEW r \in Runs, Reobserve(r) PROVE TypeOK'
    BY <2>1, <2>3 DEF Reobserve, TypeOK
  <2>4. ASSUME NEW r \in Runs, Select(r) PROVE TypeOK'
    BY <2>4 DEF Select, TypeOK
  <2>5. ASSUME NEW r \in Runs, RefuseRevision(r) PROVE TypeOK'
    BY <2>5 DEF RefuseRevision, TypeOK
  <2>6. ASSUME NEW r \in Runs, Insert(r) PROVE TypeOK'
    BY <2>1, <2>6 DEF Insert, TypeOK
  <2>7. ASSUME NEW r \in Runs, InsertFails(r) PROVE TypeOK'
    BY <2>7 DEF InsertFails, TypeOK
  <2>8. ASSUME NEW r \in Runs, SetPrimary(r) PROVE TypeOK'
    BY <2>1, <2>8 DEF SetPrimary, TypeOK
  <2>9. ASSUME NEW r \in Runs, WriteEvidence(r) PROVE TypeOK'
    BY <2>1, <2>9 DEF WriteEvidence, NewEvidence, TypeOK
  <2>10. ASSUME NEW r \in Runs, SetStatus(r) PROVE TypeOK'
    BY <2>1, <2>10 DEF SetStatus, TypeOK
  <2>11. ASSUME NEW r \in Runs, Finish(r) PROVE TypeOK'
    BY <2>11 DEF Finish, TypeOK
  <2>12. ASSUME NEW r \in Runs, Crash(r) PROVE TypeOK'
    BY <2>12 DEF Crash, TypeOK
  <2>13. ASSUME NEW r \in Runs, Gate(r) PROVE TypeOK'
    BY <2>13 DEF Gate, TypeOK
  <2>14. ASSUME NEW r \in Runs, Activate(r) PROVE TypeOK'
    BY <2>14 DEF Activate, TypeOK
  <2>15. ASSUME NEW r \in Runs, SkipGate(r) PROVE TypeOK'
    BY <2>15 DEF SkipGate, TypeOK
  <2>16. CASE UNCHANGED vars
    BY <2>16 DEF vars, TypeOK
  <2> QED
    BY <2>2, <2>3, <2>4, <2>5, <2>6, <2>7, <2>8, <2>9, <2>10, <2>11, <2>12,
       <2>13, <2>14, <2>15, <2>16 DEF Next, Align, Publish
<1> QED
  BY <1>1, <1>2, PTL DEF Spec
-------------------------------------------------------------------------------
\* The parts of the claim a command is at.
LEMMA ClaimParts ==
  ASSUME TypeOK, NEW r \in Runs, pos[r] <= Len(draft[r])
  PROVE  /\ Claim(r) \in Claims
         /\ Version(r) \in Versions
         /\ Claim(r).version = Version(r)
         /\ pos[r] \in 1..Len(draft[r])
         /\ EvidenceFor(r) = [version |-> Version(r),
                              chapter |-> Claim(r).chapter, run |-> r]
<1>1. pos[r] \in 1..Len(draft[r]) /\ draft[r] \in Seq(Claims)
  BY DEF TypeOK
<1>2. Claim(r) \in Claims
  BY <1>1 DEF Claim
<1> QED
  BY <1>1, <1>2 DEF Version, Claims, EvidenceFor

\* The store is append-only: no step takes away an observation, an evidence
\* row, a claim row or a claim's support, or changes what a row was given when
\* it was inserted.
LEMMA AppendOnly ==
  ASSUME TypeOK, StoreInv, [Next]_vars
  PROVE  /\ draft' = draft
         /\ observed \subseteq observed'
         /\ evidence \subseteq evidence'
         /\ \A v \in Versions : Stored(v) =>
              /\ rowid'[v] = rowid[v]
              /\ disclosed'[v] = disclosed[v]
              /\ supersedes'[v] = supersedes[v]
         /\ \A v \in Versions : status[v] = "supported" =>
              status'[v] = "supported"
<1> DEFINE Kept == /\ draft' = draft
                   /\ observed \subseteq observed'
                   /\ evidence \subseteq evidence'
                   /\ \A v \in Versions : Stored(v) =>
                        /\ rowid'[v] = rowid[v]
                        /\ disclosed'[v] = disclosed[v]
                        /\ supersedes'[v] = supersedes[v]
                   /\ \A v \in Versions : status[v] = "supported" =>
                        status'[v] = "supported"
<1> USE DEF claims, shared, own, Observe, Stored
<1>1. ASSUME NEW r \in Runs, Insert(r) PROVE Kept
  BY <1>1, ClaimParts DEF Insert, AtClaim, TypeOK, StoreInv
<1>2. ASSUME NEW r \in Runs, SetStatus(r) PROVE Kept
  BY <1>2, ClaimParts DEF SetStatus, AtClaim, TypeOK
<1>3. ASSUME NEW r \in Runs, Reobserve(r) PROVE Kept
  BY <1>3 DEF Reobserve
<1>4. ASSUME NEW r \in Runs, WriteEvidence(r) PROVE Kept
  BY <1>4 DEF WriteEvidence
<1>5. ASSUME NEW r \in Runs, SetPrimary(r) PROVE Kept
  BY <1>5 DEF SetPrimary
<1>6. ASSUME NEW r \in Runs,
             \/ Start(r) \/ Select(r) \/ RefuseRevision(r) \/ InsertFails(r)
             \/ Finish(r) \/ Crash(r) \/ Publish(r)
      PROVE  Kept
  BY <1>6 DEF Start, Select, RefuseRevision, InsertFails, Finish, Crash,
              Publish, Gate, SkipGate, Activate
<1>7. CASE UNCHANGED vars
  BY <1>7 DEF vars
<1> QED
  BY <1>1, <1>2, <1>3, <1>4, <1>5, <1>6, <1>7 DEF Next, Align, Publish

\* So a claim that is traced stays traced.
LEMMA TracedStays ==
  ASSUME TypeOK, StoreInv, [Next]_vars, NEW r \in Runs, NEW c \in Claims,
         Traced(r, c)
  PROVE  Traced(r, c)'
<1>1. c.version \in Versions
  BY DEF Claims
<1> QED
  BY <1>1, AppendOnly DEF Traced

\* Every step of an align keeps what is known of the rows.
LEMMA StoreStep ==
  ASSUME TypeOK, StoreInv, ProgressInv, [Next]_vars
  PROVE  StoreInv'
<1> USE DEF claims, shared, own
<1>1. ASSUME NEW r \in Runs, Insert(r) PROVE StoreInv'
  <2> DEFINE v == Version(r)
  <2>1. /\ v \in Versions
        /\ pos[r] \in 1..Len(draft[r])
        /\ draft[r][pos[r]].version = v
    BY <1>1, ClaimParts DEF Insert, AtClaim, Claim, Version
  <2>2. /\ rowid' = [rowid EXCEPT ![v] = last + 1]
        /\ last' = last + 1
        /\ status' = [status EXCEPT ![v] = "unverified"]
        /\ observed' = observed \cup {<<r, v>>}
        /\ draft' = draft
    BY <1>1 DEF Insert, Observe
  <2> HIDE DEF v
  <2>3. \A u \in Versions : rowid'[u] = IF u = v THEN last + 1 ELSE rowid[u]
    BY <2>1, <2>2 DEF TypeOK
  <2>4. \A u \in Versions : /\ rowid'[u] <= last'
                            /\ Stored(u) \/ u = v => Stored(u)'
    BY <2>1, <2>2, <2>3 DEF TypeOK, StoreInv, Stored
  <2>5. \A u \in Versions : status'[u] = "supported" => Stored(u)'
    BY <2>1, <2>2, <2>4 DEF TypeOK, StoreInv
  <2>6. ASSUME NEW q \in Runs, NEW u \in Versions, <<q, u>> \in observed'
        PROVE  Stored(u)' /\ \E i \in 1..Len(draft'[q]) : draft'[q][i].version = u
    <3>1. CASE <<q, u>> \in observed
      BY <2>2, <2>4, <3>1 DEF StoreInv
    <3>2. CASE q = r /\ u = v
      BY <2>1, <2>2, <2>4, <3>2
    <3> QED
      BY <2>2, <2>6, <3>1, <3>2
  <2> QED
    BY <2>4, <2>5, <2>6 DEF StoreInv
<1>2. ASSUME NEW r \in Runs, Reobserve(r) PROVE StoreInv'
  <2> DEFINE v == Version(r)
  <2>1. /\ v \in Versions
        /\ pos[r] \in 1..Len(draft[r])
        /\ draft[r][pos[r]].version = v
    BY <1>2, ClaimParts DEF Reobserve, AtClaim, Claim, Version
  <2>2. /\ observed' = observed \cup {<<r, v>>}
        /\ Stored(v)
        /\ UNCHANGED <<draft, rowid, last, status>>
    BY <1>2 DEF Reobserve, Observe
  <2> HIDE DEF v
  <2>3. ASSUME NEW q \in Runs, NEW u \in Versions, <<q, u>> \in observed'
        PROVE  Stored(u)' /\ \E i \in 1..Len(draft'[q]) : draft'[q][i].version = u
    <3>1. CASE <<q, u>> \in observed
      BY <2>2, <3>1 DEF StoreInv, Stored
    <3>2. CASE q = r /\ u = v
      BY <2>1, <2>2, <3>2 DEF Stored
    <3> QED
      BY <2>2, <2>3, <3>1, <3>2
  <2> QED
    BY <2>2, <2>3 DEF StoreInv, Stored
<1>3. ASSUME NEW r \in Runs, SetStatus(r) PROVE StoreInv'
  <2>1. /\ Version(r) \in Versions
        /\ Stored(Version(r))
    BY <1>3, ClaimParts DEF SetStatus, AtClaim, ProgressInv, Progress,
                         StoreInv
  <2>2. /\ status' = [status EXCEPT ![Version(r)] = "supported"]
        /\ UNCHANGED <<draft, rowid, last, observed>>
    BY <1>3 DEF SetStatus
  <2>3. \A v \in Versions : status'[v] = "supported" => Stored(v)
    BY <2>1, <2>2 DEF TypeOK, StoreInv
  <2> QED
    BY <2>2, <2>3 DEF StoreInv, Stored
<1>4. ASSUME UNCHANGED <<draft, rowid, last, status, observed>> PROVE StoreInv'
  BY <1>4 DEF StoreInv, Stored
<1>5. ASSUME NEW r \in Runs,
             \/ Start(r) \/ Select(r) \/ RefuseRevision(r) \/ InsertFails(r)
             \/ SetPrimary(r) \/ WriteEvidence(r) \/ Finish(r) \/ Crash(r)
             \/ Publish(r)
      PROVE  StoreInv'
  BY <1>4, <1>5 DEF Start, Select, RefuseRevision, InsertFails, SetPrimary,
     WriteEvidence, Finish, Crash, Publish, Gate, SkipGate, Activate
<1>6. CASE UNCHANGED vars
  BY <1>4, <1>6 DEF vars
<1> QED
  BY <1>1, <1>2, <1>3, <1>5, <1>6 DEF Next, Align, Publish

\* Only its own align command moves a run's command on.
LEMMA OthersStandStill ==
  ASSUME TypeOK, NEW r \in Runs, NEW q \in Runs, q # r,
         Align(r) \/ Publish(r)
  PROVE  pc'[q] = pc[q] /\ pos'[q] = pos[q] /\ found'[q] = found[q]
<1> USE DEF TypeOK, Goto, Stop, command
<1>1. CASE Start(r) \/ Reobserve(r) \/ Select(r) \/ RefuseRevision(r)
  BY <1>1 DEF Start, Reobserve, Select, RefuseRevision
<1>2. CASE Insert(r) \/ InsertFails(r) \/ SetPrimary(r) \/ WriteEvidence(r)
  BY <1>2 DEF Insert, InsertFails, SetPrimary, WriteEvidence
<1>3. CASE SetStatus(r) \/ Finish(r) \/ Crash(r) \/ Publish(r)
  BY <1>3 DEF SetStatus, Finish, Crash, Publish, Gate, SkipGate, Activate
<1> QED
  BY <1>1, <1>2, <1>3 DEF Align

\* A run's claims up to a position are among its claims.
LEMMA DraftClaims ==
  ASSUME TypeOK, NEW r \in Runs
  PROVE  \A i \in 1..Len(draft[r]) : draft[r][i] \in Claims
<1>1. draft[r] \in Seq(Claims)
  BY DEF TypeOK
<1> QED
  BY <1>1

\* What a command has dealt with stays dealt with when it takes a step that
\* leaves its position alone.
LEMMA EarlierStaysTraced ==
  ASSUME TypeOK, StoreInv, ProgressInv, [Next]_vars, NEW r \in Runs, Busy(r)
  PROVE  \A i \in 1..(pos[r] - 1) : Traced(r, draft[r][i])'
<1> TAKE i \in 1..(pos[r] - 1)
<1>1. /\ pos[r] \in Nat \ {0}
      /\ pos[r] <= Len(draft[r]) + 1
      /\ Len(draft[r]) \in Nat
  BY DEF TypeOK
<1>2. i \in 1..Len(draft[r])
  BY <1>1
<1>3. draft[r][i] \in Claims /\ Traced(r, draft[r][i])
  BY <1>2, DraftClaims DEF ProgressInv, Progress
<1> QED
  BY <1>3, TracedStays, AppendOnly

\* A command that stays where it is keeps what it has achieved.
LEMMA ProgressKept ==
  ASSUME TypeOK, StoreInv, ProgressInv, [Next]_vars, NEW q \in Runs,
         pc'[q] = pc[q], pos'[q] = pos[q]
  PROVE  Progress(q)'
<1>1. /\ draft' = draft
      /\ observed \subseteq observed'
      /\ evidence \subseteq evidence'
  BY AppendOnly
<1>2. Progress(q)
  BY DEF ProgressInv
<1>3. ASSUME Busy(q)', NEW i \in 1..(pos'[q] - 1)
      PROVE  Traced(q, draft[q][i])'
  BY <1>3, EarlierStaysTraced DEF Busy
<1>4. /\ Version(q)' = Version(q)
      /\ EvidenceFor(q)' = EvidenceFor(q)
  BY <1>1 DEF Version, Claim, EvidenceFor
<1>5. /\ ~Busy(q)' => pos'[q] = 1
      /\ pc'[q] \in {"insert", "primary", "evidence", "status"} =>
           pos'[q] <= Len(draft'[q])
      /\ pc'[q] \in {"primary", "evidence", "status"} =>
           <<q, Version(q)'>> \in observed'
      /\ pc'[q] = "status" => EvidenceFor(q)' \in evidence'
  BY <1>1, <1>2, <1>4 DEF Progress, Busy
<1> QED
  BY <1>3, <1>5 DEF Progress

\* So does a run that was aligned.
LEMMA AlignedKept ==
  ASSUME TypeOK, StoreInv, AlignedIsTraceable, [Next]_vars, NEW q \in aligned
  PROVE  \A i \in 1..Len(draft[q]) : Traced(q, draft[q][i])'
<1> TAKE i \in 1..Len(draft[q])
<1>1. q \in Runs
  BY DEF TypeOK
<1>2. draft[q][i] \in Claims /\ Traced(q, draft[q][i])
  BY <1>1, DraftClaims DEF AlignedIsTraceable
<1> QED
  BY <1>1, <1>2, TracedStays, AppendOnly

\* Every step keeps what an align under way has done and what aligned runs promise.
LEMMA ProgressStep ==
  ASSUME TypeOK, StoreInv, ProgressInv, AlignedIsTraceable, [Next]_vars
  PROVE  ProgressInv' /\ AlignedIsTraceable'
<1> DEFINE Safe == /\ \A q \in Runs : Progress(q)'
                  /\ \A q \in aligned' : \A i \in 1..Len(draft'[q]) :
                       Traced(q, draft[q][i])'
<1>1. /\ draft' = draft
      /\ observed \subseteq observed'
      /\ evidence \subseteq evidence'
  BY AppendOnly
<1>2. ASSUME aligned' = aligned
      PROVE  \A q \in aligned' : \A i \in 1..Len(draft'[q]) :
               Traced(q, draft[q][i])'
  BY <1>1, <1>2, AlignedKept
<1>3. ASSUME NEW r \in Runs, Align(r) \/ Publish(r),
             Progress(r)', aligned' = aligned
      PROVE  Safe
  <2>1. ASSUME NEW q \in Runs, q # r PROVE Progress(q)'
    BY <1>3, <2>1, OthersStandStill, ProgressKept
  <2> QED
    BY <1>2, <1>3, <2>1
<1>4. ASSUME NEW r \in Runs, pc'[r] \in {"idle", "select"}, pos'[r] = 1
      PROVE  Progress(r)'
  BY <1>4 DEF Progress, Busy
<1>5. ASSUME NEW r \in Runs, Busy(r), pos'[r] = pos[r],
             pc'[r] \in {"insert", "primary", "evidence", "status"},
             pos[r] <= Len(draft[r]),
             pc'[r] \in {"primary", "evidence", "status"} =>
               <<r, Version(r)>> \in observed',
             pc'[r] = "status" => EvidenceFor(r) \in evidence'
      PROVE  Progress(r)'
  <2>1. ASSUME NEW i \in 1..(pos'[r] - 1)
        PROVE  Traced(r, draft[r][i])'
    BY <1>5, <2>1, EarlierStaysTraced
  <2>2. /\ Version(r)' = Version(r)
        /\ EvidenceFor(r)' = EvidenceFor(r)
    BY <1>1, <1>5 DEF Version, Claim, EvidenceFor
  <2>3. /\ Busy(r)'
        /\ pos'[r] <= Len(draft'[r])
        /\ pc'[r] \in {"primary", "evidence", "status"} =>
             <<r, Version(r)'>> \in observed'
        /\ pc'[r] = "status" => EvidenceFor(r)' \in evidence'
    BY <1>1, <1>5, <2>2 DEF Busy
  <2> QED
    BY <2>1, <2>3 DEF Progress
<1> USE DEF Goto, Stop, AtClaim, command
<1>6. ASSUME NEW r \in Runs, Start(r) PROVE Safe
  <2>1. /\ pos[r] = 1
        /\ pos'[r] = pos[r] /\ pc'[r] = "select"
        /\ aligned' = aligned
    BY <1>6 DEF Start, ProgressInv, Progress, TypeOK
  <2> QED
    BY <1>3, <1>4, <1>6, <2>1 DEF Align
<1>7. ASSUME NEW r \in Runs,
             RefuseRevision(r) \/ InsertFails(r) \/ Crash(r)
      PROVE  Safe
  <2>1. pos'[r] = 1 /\ pc'[r] = "idle" /\ aligned' = aligned
    BY <1>7 DEF RefuseRevision, InsertFails, Crash, TypeOK, history
  <2> QED
    BY <1>3, <1>4, <1>7, <2>1 DEF Align
<1>8. ASSUME NEW r \in Runs, Reobserve(r) PROVE Safe
  <2>1. /\ Busy(r) /\ pos[r] <= Len(draft[r])
        /\ pos'[r] = pos[r] /\ pc'[r] = "primary"
        /\ <<r, Version(r)>> \in observed'
        /\ aligned' = aligned
    BY <1>8 DEF Reobserve, Observe, TypeOK, Busy, history
  <2> QED
    BY <1>3, <1>5, <1>8, <2>1 DEF Align
<1>9. ASSUME NEW r \in Runs, Select(r) PROVE Safe
  <2>1. /\ Busy(r) /\ pos[r] <= Len(draft[r])
        /\ pos'[r] = pos[r] /\ pc'[r] = "insert"
        /\ aligned' = aligned
    BY <1>9 DEF Select, TypeOK, Busy, history
  <2> QED
    BY <1>3, <1>5, <1>9, <2>1 DEF Align
<1>10. ASSUME NEW r \in Runs, Insert(r) PROVE Safe
  <2>1. /\ Busy(r) /\ pos[r] <= Len(draft[r])
        /\ pos'[r] = pos[r] /\ pc'[r] = "primary"
        /\ <<r, Version(r)>> \in observed'
        /\ aligned' = aligned
    BY <1>10 DEF Insert, Observe, TypeOK, Busy, history
  <2> QED
    BY <1>3, <1>5, <1>10, <2>1 DEF Align
<1>11. ASSUME NEW r \in Runs, SetPrimary(r) PROVE Safe
  <2>1. /\ Busy(r) /\ pos[r] <= Len(draft[r])
        /\ pos'[r] = pos[r] /\ pc'[r] = "evidence"
        /\ <<r, Version(r)>> \in observed'
        /\ aligned' = aligned
    BY <1>1, <1>11 DEF SetPrimary, TypeOK, Busy, history, ProgressInv, Progress
  <2> QED
    BY <1>3, <1>5, <1>11, <2>1 DEF Align
<1>12. ASSUME NEW r \in Runs, WriteEvidence(r) PROVE Safe
  <2>1. /\ Busy(r) /\ pos[r] <= Len(draft[r])
        /\ pos'[r] = pos[r] /\ pc'[r] = "status"
        /\ <<r, Version(r)>> \in observed'
        /\ EvidenceFor(r) \in evidence'
        /\ aligned' = aligned
    BY <1>1, <1>12 DEF WriteEvidence, NewEvidence, TypeOK, Busy, history,
       ProgressInv, Progress
  <2> QED
    BY <1>3, <1>5, <1>12, <2>1 DEF Align
<1>13. ASSUME NEW r \in Runs, SetStatus(r) PROVE Safe
  <2>1. /\ Busy(r) /\ pos[r] <= Len(draft[r])
        /\ <<r, Version(r)>> \in observed
        /\ EvidenceFor(r) \in evidence
        /\ status' = [status EXCEPT ![Version(r)] = "supported"]
    BY <1>13 DEF SetStatus, Busy, ProgressInv, Progress
  <2>2. /\ pos'[r] = pos[r] + 1 /\ pc'[r] = "select"
        /\ aligned' = aligned
    BY <1>13 DEF SetStatus, TypeOK, history
  <2>3. ASSUME NEW i \in 1..Len(draft[r]), i = pos[r]
        PROVE  Traced(r, draft[r][i])'
    <3>1. /\ Version(r) \in Versions
          /\ draft[r][i].version = Version(r)
          /\ EvidenceFor(r) = [version |-> draft[r][i].version,
                               chapter |-> draft[r][i].chapter, run |-> r]
      BY <2>1, <2>3, ClaimParts DEF Claim
    <3>2. status'[Version(r)] = "supported"
      BY <2>1, <3>1 DEF TypeOK
    <3> QED
      BY <1>1, <2>1, <3>1, <3>2 DEF Traced
  <2>4. ASSUME NEW i \in 1..(pos'[r] - 1) PROVE Traced(r, draft[r][i])'
    <3>1. /\ pos[r] \in Nat \ {0}
          /\ Len(draft[r]) \in Nat
      BY DraftClaims DEF TypeOK
    <3>2. CASE i = pos[r]
      <4>1. i \in 1..Len(draft[r])
        BY <2>1, <3>1, <3>2
      <4> QED
        BY <2>3, <3>2, <4>1
    <3>3. CASE i # pos[r]
      <4>1. i \in 1..(pos[r] - 1)
        BY <2>2, <3>1, <3>3
      <4> QED
        BY <2>1, <4>1, EarlierStaysTraced
    <3> QED
      BY <3>2, <3>3
  <2>5. Progress(r)'
    BY <2>2, <2>4 DEF Progress, Busy
  <2> QED
    BY <1>3, <1>13, <2>2, <2>5 DEF Align
<1>14. ASSUME NEW r \in Runs, Finish(r) PROVE Safe
  <2>1. /\ Busy(r) /\ pos[r] > Len(draft[r])
        /\ pos'[r] = 1 /\ pc'[r] = "idle"
        /\ aligned' = aligned \cup {r}
    BY <1>14 DEF Finish, TypeOK, Busy
  <2>2. \A i \in 1..Len(draft[r]) : Traced(r, draft[r][i])'
    <3>1. pos[r] \in Nat /\ Len(draft[r]) \in Nat
      BY DraftClaims DEF TypeOK
    <3>2. \A i \in 1..Len(draft[r]) : i \in 1..(pos[r] - 1)
      BY <2>1, <3>1
    <3> QED
      BY <2>1, <3>2, EarlierStaysTraced
  <2>3. \A q \in aligned' : \A i \in 1..Len(draft'[q]) : Traced(q, draft[q][i])'
    BY <1>1, <2>1, <2>2, AlignedKept
  <2>4. ASSUME NEW q \in Runs, q # r PROVE Progress(q)'
    BY <1>14, <2>4, OthersStandStill, ProgressKept DEF Align
  <2> QED
    BY <1>4, <2>1, <2>3, <2>4
<1>15. ASSUME NEW r \in Runs, Publish(r) PROVE Safe
  <2>1. pc' = pc /\ pos' = pos /\ aligned' = aligned
    BY <1>15 DEF Publish, Gate, SkipGate, Activate
  <2> QED
    BY <1>3, <1>15, <2>1, ProgressKept
<1>16. ASSUME UNCHANGED vars PROVE Safe
  <2>1. pc' = pc /\ pos' = pos /\ aligned' = aligned
    BY <1>16 DEF vars, history
  <2> QED
    BY <1>2, <2>1, ProgressKept
<1> HIDE DEF Safe
<1>17. ASSUME NEW r \in Runs, Align(r) \/ Publish(r) PROVE Safe
  BY <1>6, <1>7, <1>8, <1>9, <1>10, <1>11, <1>12, <1>13, <1>14, <1>15, <1>17
     DEF Align
<1>18. Safe
  BY <1>16, <1>17 DEF Next
<1> QED
  BY <1>18 DEF Safe, ProgressInv, AlignedIsTraceable
-------------------------------------------------------------------------------
\* A step of one run while another run's command is alive makes them overlap.
LEMMA OverlapSeen ==
  ASSUME TypeOK, FoundInv, NEW r \in Runs, Align(r) \/ Publish(r)
  PROVE  /\ overlapped => overlapped'
         /\ \A q \in Runs : q # r /\ Busy(q) => overlapped'
<1>1. CASE Start(r) \/ Publish(r)
  BY <1>1 DEF Start, Publish, Gate, SkipGate, Activate, Accompany
<1>2. CASE ~(Start(r) \/ Publish(r))
  <2>1. overlapped' = overlapped /\ Busy(r)
    BY <1>2 DEF Align, Reobserve, Select, RefuseRevision, Insert, InsertFails,
       SetPrimary, WriteEvidence, SetStatus, Finish, Crash, AtClaim, Busy, history
  <2> QED
    BY <2>1 DEF FoundInv
<1> QED
  BY <1>1, <1>2

\* Every step keeps what a command is about to supersede.
LEMMA FoundStep ==
  ASSUME TypeOK, StoreInv, FoundInv, [Next]_vars
  PROVE  FoundInv'
<1>1. ASSUME UNCHANGED vars PROVE FoundInv'
  BY <1>1 DEF FoundInv, Found, vars, claims, command, history, Busy, Stored,
     Version, Claim, IsLatest, MayBegin
<1>2. ASSUME NEW r \in Runs, Align(r) \/ Publish(r)
      PROVE  FoundInv'
  <2>1. ASSUME NEW q \in Runs, q # r
        PROVE  /\ Busy(q)' => Busy(q) /\ overlapped'
               /\ Found(q)'
    <3>1. pc'[q] = pc[q] /\ pos'[q] = pos[q] /\ found'[q] = found[q]
      BY <1>2, <2>1, OthersStandStill
    <3>2. Busy(q)' => Busy(q) /\ overlapped'
      BY <1>2, <2>1, <3>1, OverlapSeen DEF Busy
    <3>3. Version(q)' = Version(q)
      BY <3>1, AppendOnly DEF Version, Claim
    <3>4. ASSUME pc[q] = "insert", found[q] # None
          PROVE  Stored(found[q])' /\ found[q] \in Versions
      <4>1. found[q] \in Versions
        BY <3>4 DEF TypeOK
      <4>2. Stored(found[q])
        BY <3>4 DEF FoundInv, Found
      <4>3. rowid'[found[q]] = rowid[found[q]]
        BY <4>1, <4>2, AppendOnly
      <4> QED
        BY <3>1, <4>1, <4>2, <4>3 DEF Stored
    <3>5. pc[q] = "insert" =>
            /\ found[q] # None => FactOf[found[q]] = FactOf[Version(q)]
            /\ MayBegin(Version(q), found[q])
      BY DEF FoundInv, Found
    <3>6. Found(q)'
      BY <3>1, <3>2, <3>3, <3>4, <3>5 DEF Found, Busy, MayBegin, Stored
    <3> QED
      BY <3>2, <3>6
  <2>2. ~overlapped' => \A p, q \in Runs : Busy(p)' /\ Busy(q)' => p = q
    BY <2>1
  <2>3. Found(r)'
    <3>1. CASE Select(r)
      <4>1. PICK u \in Versions \cup {None} :
              /\ IsLatest(u, Version(r))
              /\ MayBegin(Version(r), u)
              /\ found' = [found EXCEPT ![r] = u]
        BY <3>1 DEF Select
      <4>2. /\ found'[r] = u
            /\ UNCHANGED <<draft, rowid, pos>>
        BY <3>1, <4>1 DEF Select, TypeOK, claims
      <4>3. Version(r)' = Version(r)
        BY <4>2 DEF Version, Claim
      <4>4. u # None => Stored(u) /\ FactOf[u] = FactOf[Version(r)]
        BY <4>1 DEF IsLatest
      <4>5. MayBegin(Version(r)', found'[r])
        BY <4>1, <4>2, <4>3 DEF MayBegin
      <4>6. IsLatest(u, Version(r))'
        BY <4>1, <4>2, <4>3 DEF IsLatest, Stored
      <4> QED
        BY <4>2, <4>3, <4>4, <4>5, <4>6 DEF Found, Stored, IsLatest, MayBegin
    <3>2. CASE Publish(r)
      <4>1. /\ UNCHANGED <<draft, rowid, pc, pos, found>>
            /\ Busy(r) => overlapped'
        BY <3>2 DEF Publish, Gate, SkipGate, Activate, Accompany, claims, command
      <4>2. Version(r)' = Version(r)
        BY <4>1 DEF Version, Claim
      <4>3. Found(r)
        BY DEF FoundInv
      <4> QED
        BY <4>1, <4>2, <4>3 DEF Found, Busy, Stored, MayBegin
    <3>3. CASE Align(r) /\ ~Select(r)
      <4>1. pc'[r] # "insert"
        BY <3>3 DEF Align, Start, Reobserve, RefuseRevision, Insert, InsertFails,
           SetPrimary, WriteEvidence, SetStatus, Finish, Crash, Goto, Stop, TypeOK
      <4> QED
        BY <4>1 DEF Found
    <3> QED
      BY <1>2, <3>1, <3>2, <3>3
  <2> QED
    BY <2>1, <2>2, <2>3 DEF FoundInv
<1> QED
  BY <1>1, <1>2 DEF Next

\* Only Insert changes what the chains are made of.
LEMMA ChainsKept ==
  ASSUME ChainsPointBack, ChainIsLinear, UNCHANGED <<rowid, supersedes>>,
         overlapped => overlapped'
  PROVE  ChainsPointBack' /\ ChainIsLinear'
BY DEF ChainsPointBack, ChainIsLinear, Elders, Stored

\* Every step keeps the chains.
LEMMA ChainStep ==
  ASSUME TypeOK, StoreInv, FoundInv, ChainsPointBack, ChainIsLinear, [Next]_vars
  PROVE  ChainsPointBack' /\ ChainIsLinear'
<1>1. ASSUME UNCHANGED vars PROVE ChainsPointBack' /\ ChainIsLinear'
  BY <1>1, ChainsKept DEF vars, claims, history
<1>2. ASSUME NEW r \in Runs, Align(r) \/ Publish(r), ~Insert(r)
      PROVE  ChainsPointBack' /\ ChainIsLinear'
  <2>1. UNCHANGED <<rowid, supersedes>>
    BY <1>2 DEF Align, Start, Reobserve, Select, RefuseRevision, InsertFails,
       SetPrimary, WriteEvidence, SetStatus, Finish, Crash, Publish, Gate,
       SkipGate, Activate, claims
  <2> QED
    BY <1>2, <2>1, OverlapSeen, ChainsKept
<1>3. ASSUME NEW r \in Runs, Insert(r)
      PROVE  ChainsPointBack' /\ ChainIsLinear'
  <2>1. PICK v \in Versions : v = Version(r)
    BY <1>3, ClaimParts DEF Insert, AtClaim
  <2>2. /\ rowid' = [rowid EXCEPT ![v] = last + 1]
        /\ supersedes' = [supersedes EXCEPT ![v] = found[r]]
        /\ overlapped' = overlapped
        /\ ~Stored(v)
        /\ pc[r] = "insert"
    BY <1>3, <2>1 DEF Insert, AtClaim, history
  <2>3. /\ found[r] \in Versions \cup {None}
        /\ found[r] # None => Stored(found[r]) /\ FactOf[found[r]] = FactOf[v]
        /\ Operation[v] = "assert" \/ found[r] # None
        /\ ~overlapped => IsLatest(found[r], v)
    BY <2>1, <2>2 DEF TypeOK, FoundInv, Found, MayBegin
  <2>4. \A u \in Versions :
          /\ rowid[u] \in Nat /\ rowid[u] <= last
          /\ rowid'[u] = IF u = v THEN last + 1 ELSE rowid[u]
          /\ supersedes'[u] = IF u = v THEN found[r] ELSE supersedes[u]
    BY <2>1, <2>2 DEF TypeOK, StoreInv
  <2>5. last \in Nat
    BY DEF TypeOK
  <2>6. ASSUME NEW u \in Versions, u # v
        PROVE  /\ Stored(u)' <=> Stored(u)
               /\ supersedes[u] # None => /\ supersedes[u] \in Versions
                                          /\ supersedes[u] # v
    BY <2>2, <2>4, <2>6 DEF Stored, ChainsPointBack, TypeOK
  <2>7. Stored(v)'
    BY <2>1, <2>4, <2>5 DEF Stored
  <2>8. ChainsPointBack'
    <3> SUFFICES ASSUME NEW u \in Versions
                 PROVE  /\ supersedes'[u] # None =>
                             /\ rowid'[supersedes'[u]] > 0
                             /\ FactOf[supersedes'[u]] = FactOf[u]
                             /\ rowid'[supersedes'[u]] < rowid'[u]
                        /\ rowid'[u] > 0 /\ Operation[u] # "assert" =>
                             supersedes'[u] # None
      BY DEF ChainsPointBack, Stored
    <3>1. CASE u = v
      BY <2>1, <2>2, <2>3, <2>4, <2>5, <3>1 DEF Stored
    <3>2. CASE u # v
      BY <2>4, <2>6, <3>2 DEF ChainsPointBack, Stored
    <3> QED
      BY <3>1, <3>2
  <2>9. ChainIsLinear'
    <3> SUFFICES ASSUME ~overlapped, NEW u \in Versions, Stored(u)',
                        NEW w \in Versions, Stored(w)', FactOf[w] = FactOf[u],
                        rowid'[w] < rowid'[u]
                 PROVE  /\ supersedes'[u] # None
                        /\ rowid'[w] <= rowid'[supersedes'[u]]
      BY <2>2 DEF ChainIsLinear, Elders, Stored
    <3>1. w # v
      BY <2>4, <2>5
    <3>2. CASE u = v
      <4>1. Stored(w)
        BY <2>6, <3>1
      <4>2. found[r] # None /\ rowid[w] <= rowid[found[r]]
        BY <2>3, <3>1, <3>2, <4>1, ClaimAssumption DEF IsLatest
      <4> QED
        BY <2>2, <2>3, <2>4, <3>1, <3>2, <4>2
    <3>3. CASE u # v
      <4>1. Stored(u) /\ Stored(w) /\ rowid[w] < rowid[u]
        BY <2>4, <2>6, <3>1, <3>3
      <4>2. supersedes[u] # None /\ rowid[w] <= rowid[supersedes[u]]
        BY <4>1 DEF ChainIsLinear, Elders
      <4> QED
        BY <2>4, <2>6, <3>1, <3>3, <4>2
    <3> QED
      BY <3>2, <3>3
  <2> QED
    BY <2>8, <2>9
<1> QED
  BY <1>1, <1>2, <1>3 DEF Next, Align, Publish
-------------------------------------------------------------------------------
\* An empty store satisfies the invariants.
LEMMA InitialStore ==
  Init => ClaimInv /\ AlignedIsTraceable /\ ChainsPointBack /\ ChainIsLinear
BY ClaimAssumption DEF Init, ClaimInv, StoreInv, ProgressInv, Progress, FoundInv,
   Found, Busy, AlignedIsTraceable, ChainsPointBack, ChainIsLinear, Stored

\* A run whose align command went through stays traceable, whatever other
\* commands write to the rows it shares with them and wherever they die.
THEOREM AlignStaysTraceable == Spec => [](ClaimInv /\ AlignedIsTraceable)
<1>1. TypeOK /\ ClaimInv /\ AlignedIsTraceable /\ [Next]_vars
        => (ClaimInv /\ AlignedIsTraceable)'
  BY StoreStep, ProgressStep, FoundStep DEF ClaimInv
<1> QED
  BY <1>1, InitialStore, ClaimTyping, PTL DEF Spec

\* Version chains always point back to older rows of the fact and begin with
\* an assertion, and they are a line if commands run one at a time.
THEOREM ChainsAreSound == Spec => [](ChainsPointBack /\ ChainIsLinear)
<1>1. TypeOK /\ ClaimInv /\ ChainsPointBack /\ ChainIsLinear /\ [Next]_vars
        => (ChainsPointBack /\ ChainIsLinear)'
  BY ChainStep DEF ClaimInv
<1> QED
  BY <1>1, InitialStore, ClaimTyping, AlignStaysTraceable, PTL DEF Spec

\* Version chains point back, however many commands run at the same time.
THEOREM RevisionsPointBack == Spec => []ChainsPointBack
BY ChainsAreSound, PTL
-------------------------------------------------------------------------------
\* A run that was aligned gains nothing from another align command of its own,
\* and other runs write observations and evidence in their own name.
LEMMA OwnRowsStand ==
  ASSUME TypeOK, StoreInv, AlignedIsTraceable, [Next]_vars, NEW r \in aligned
  PROVE  /\ \A v \in Versions : <<r, v>> \in observed' => <<r, v>> \in observed
         /\ \A e \in evidence' : e.run = r => e \in evidence
<1> DEFINE Stand ==
      /\ \A v \in Versions : <<r, v>> \in observed' => <<r, v>> \in observed
      /\ \A e \in evidence' : e.run = r => e \in evidence
<1> USE DEF own
<1>1. ASSUME NEW q \in Runs, pos[q] <= Len(draft[q]), q = r
      PROVE  <<q, Version(q)>> \in observed /\ EvidenceFor(q) \in evidence
  <2>1. Traced(q, draft[q][pos[q]])
    BY <1>1, ClaimParts DEF AlignedIsTraceable
  <2> QED
    BY <1>1, <2>1, ClaimParts DEF Traced, Claim, Version, EvidenceFor
<1>2. ASSUME NEW q \in Runs, Reobserve(q) \/ Insert(q) PROVE Stand
  <2>1. /\ pos[q] <= Len(draft[q])
        /\ observed' = observed \cup {<<q, Version(q)>>}
        /\ evidence' = evidence
    BY <1>2 DEF Reobserve, Insert, AtClaim, Observe
  <2> QED
    BY <1>1, <2>1
<1>3. ASSUME NEW q \in Runs, WriteEvidence(q) PROVE Stand
  <2>1. /\ pos[q] <= Len(draft[q])
        /\ observed' = observed
        /\ evidence' = evidence \cup {EvidenceFor(q)}
    BY <1>3 DEF WriteEvidence, NewEvidence, AtClaim
  <2>2. EvidenceFor(q).run = q
    BY DEF EvidenceFor
  <2> QED
    BY <1>1, <2>1, <2>2
<1>4. ASSUME NEW q \in Runs, Align(q) \/ Publish(q),
             ~(Reobserve(q) \/ Insert(q) \/ WriteEvidence(q))
      PROVE  Stand
  BY <1>4 DEF Align, Start, Select, RefuseRevision, InsertFails, SetPrimary,
     SetStatus, Finish, Crash, Publish, Gate, SkipGate, Activate
<1>5. ASSUME UNCHANGED vars PROVE Stand
  BY <1>5 DEF vars
<1> HIDE DEF Stand
<1>6. Stand
  BY <1>2, <1>3, <1>4, <1>5 DEF Next, Align, Publish
<1> QED
  BY <1>6 DEF Stand

\* No step changes what an aligned run answers.
LEMMA AnswersStep ==
  ASSUME TypeOK, StoreInv, AlignedIsTraceable, [Next]_vars,
         NEW r \in aligned, NEW k \in Chapters
  PROVE  Answered(r, k)' = Answered(r, k)
<1>1. \A v \in Versions : <<r, v>> \in observed' <=> <<r, v>> \in observed
  BY OwnRowsStand, AppendOnly
<1>2. ASSUME NEW v \in Versions, <<r, v>> \in observed
      PROVE  /\ status[v] = "supported" /\ status'[v] = "supported"
             /\ rowid'[v] = rowid[v] /\ disclosed'[v] = disclosed[v]
  <2>1. r \in Runs
    BY DEF TypeOK
  <2>2. Stored(v) /\ \E i \in 1..Len(draft[r]) : draft[r][i].version = v
    BY <1>2, <2>1 DEF StoreInv
  <2>3. status[v] = "supported"
    BY <2>2 DEF AlignedIsTraceable, Traced
  <2> QED
    BY <2>2, <2>3, AppendOnly
<1>3. \A v \in Versions : EvidenceOf(r, v)' = EvidenceOf(r, v)
  BY OwnRowsStand, AppendOnly DEF EvidenceOf
<1>4. Visible(r, k)' = Visible(r, k)
  BY <1>1, <1>2 DEF Visible
<1>5. \A v \in Visible(r, k) : /\ v \in Versions
                               /\ rowid'[v] = rowid[v]
                               /\ status'[v] = status[v]
  BY <1>2 DEF Visible
<1>6. Current(r, k)' = Current(r, k) /\ Current(r, k) \subseteq Visible(r, k)
  BY <1>4, <1>5 DEF Current
<1>7. Answers(r, k)' = Answers(r, k) /\ Answers(r, k) \subseteq Versions
  BY <1>5, <1>6 DEF Answers
<1> QED
  BY <1>3, <1>7 DEF Answered

\* What a run answers once its align command went through stands, at every
\* cutoff and with the evidence it shows, whatever happens to other runs.
THEOREM AnswersAreSnapshots == Spec => AnswersStand
<1>1. TypeOK /\ ClaimInv /\ AlignedIsTraceable /\ [Next]_vars
        => [\A r \in aligned : \A k \in Chapters :
              Answered(r, k)' = Answered(r, k)]_vars
  BY AnswersStep DEF ClaimInv
<1> QED
  BY <1>1, ClaimTyping, AlignStaysTraceable, PTL DEF Spec, AnswersStand
===============================================================================
