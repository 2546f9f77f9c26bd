---------------------------- MODULE AnswersProofs ----------------------------
(* For any book, drafts, runs, commands and readers: merges are on record,   *)
(* the links of the served run stand, pages show nothing of what is after    *)
(* their cutoff, and answers are of their time.                              *)
EXTENDS AnswersProps, FiniteSetTheorems, SequenceTheorems, WellFoundedInduction, TLAPS

-----------------------------------------------------------------------------
(* Induction over the mentions of a draft *)

\* A set of numbers that has 0 and what follows its members is all of them.
LEMMA Induction ==
  ASSUME NEW G \in SUBSET Nat, 0 \in G, \A k \in G : k + 1 \in G
  PROVE  G = Nat
<1> DEFINE R == {ss \in Nat \X Nat : ss[1] < ss[2]}
           T == Nat \ G
<1>1. IsWellFoundedOn(R, Nat)
  BY NatLessThanWellFounded, Zenon DEF OpToRel
<1> SUFFICES ASSUME T # {} PROVE FALSE
  OBVIOUS
<1>2. T \subseteq Nat
  OBVIOUS
<1>3. PICK x \in T : \A y \in T : <<y, x>> \notin R
  BY <1>1, <1>2, WFMin, Zenon
<1>4. x \in Nat /\ x # 0 /\ x - 1 \in Nat /\ x = (x - 1) + 1
  BY <1>3
<1>5. x - 1 \in G
  <2>1. x - 1 \in T => <<x - 1, x>> \in R
    BY <1>4
  <2> QED
    BY <1>3, <1>4, <2>1
<1> QED
  BY <1>3, <1>4, <1>5

\* What a database knows of its mentions, and what it keeps when it grows.
Known(d) == /\ DOMAIN d = Tables
            /\ d.mentions \in Seq(MentionRow)
            /\ \A i \in DOMAIN d.mentions : d.mentions[i].m \in DOMAIN d.entities

Grown(d, e) == /\ Known(e)
               /\ e.active = d.active /\ e.claims = d.claims
               /\ e.links = d.links /\ e.linked = d.linked /\ e.verified = d.verified
               /\ e.resolved = d.resolved /\ e.audit = d.audit /\ e.evidence = d.evidence
               /\ DOMAIN d.entities \subseteq DOMAIN e.entities
               /\ Tidy(d) => Tidy(e)

\* A mention becomes a row, and an entity of its own with it.
LEMMA OneMention ==
  ASSUME NEW d, Known(d), NEW x \in MentionRow, NEW r
  PROVE  Grown(d, WithMention(d, x, r))
<1> DEFINE alias == [v |-> <<x.m, x.surface>>, of |-> x.m, surface |-> x.surface,
                     op |-> "assert", ord |-> x.ord]
           known == \E i \in DOMAIN d.aliases : d.aliases[i].v = alias.v
           named == [name |-> x.surface, importance |-> 0]
           ents == IF x.m \in DOMAIN d.entities THEN d.entities ELSE Put(d.entities, x.m, named)
           moved == [i \in DOMAIN d.mentions |->
                       IF d.mentions[i].m = x.m THEN [d.mentions[i] EXCEPT !.at = x.at]
                       ELSE d.mentions[i]]
           rows == IF Has(d, x.m) THEN moved ELSE Append(d.mentions, x)
           home == IF x.m \in DOMAIN d.home THEN d.home ELSE Put(d.home, x.m, x.m)
           met == d.met \cup {<<x.m, r>>}
           als == IF known THEN d.aliases ELSE Append(d.aliases, alias)
           nam == d.named \cup {<<alias.v, r>>}
           e == WithMention(d, x, r)
<1>1. e = [d EXCEPT !.entities = ents, !.mentions = rows, !.home = home, !.met = met,
                    !.aliases = als, !.named = nam]
  BY Zenon DEF WithMention
<1> HIDE DEF ents, rows, home, met, als, nam, e
<1>2. /\ DOMAIN e = Tables /\ e.active = d.active /\ e.claims = d.claims
      /\ e.links = d.links /\ e.linked = d.linked /\ e.verified = d.verified
      /\ e.resolved = d.resolved /\ e.audit = d.audit /\ e.evidence = d.evidence
      /\ e.entities = ents /\ e.mentions = rows /\ e.aliases = als
  BY <1>1, Zenon DEF Known, Tables
<1>3. DOMAIN d.entities \subseteq DOMAIN ents /\ x.m \in DOMAIN ents
  BY DEF ents, Put
<1>4. rows \in Seq(MentionRow) /\ \A i \in DOMAIN rows : rows[i].m \in DOMAIN ents
  <2>1. d.mentions \in Seq(MentionRow) /\ x.m \in {y.m : y \in Drafted} /\ x.at \in {y.at : y \in Drafted}
    BY DEF Known, MentionRow
  <2>2. CASE Has(d, x.m)
    <3>1. rows = moved
      BY <2>2 DEF rows
    <3>2. ASSUME NEW i \in DOMAIN d.mentions
          PROVE  moved[i] \in MentionRow /\ moved[i].m = d.mentions[i].m
      <4>1. d.mentions[i] \in MentionRow
        BY <2>1
      <4> QED
        BY <2>1, <4>1 DEF MentionRow
    <3>3. DOMAIN d.mentions = 1..Len(d.mentions) /\ Len(d.mentions) \in Nat
      BY <2>1
    <3>4. moved \in [1..Len(d.mentions) -> MentionRow]
      BY <3>2, <3>3
    <3> HIDE DEF moved
    <3>5. moved \in Seq(MentionRow) /\ DOMAIN moved = DOMAIN d.mentions
      BY <3>3, <3>4
    <3> QED
      BY <1>3, <3>1, <3>2, <3>5 DEF Known
  <2>3. CASE ~Has(d, x.m)
    <3>1. rows = Append(d.mentions, x)
      BY <2>3 DEF rows
    <3>2. rows \in Seq(MentionRow)
      BY <2>1, <3>1
    <3>3. \A i \in DOMAIN rows : (i \in DOMAIN d.mentions /\ rows[i] = d.mentions[i]) \/ rows[i] = x
      BY <2>1, <3>1
    <3> QED
      BY <1>3, <3>2, <3>3 DEF Known
  <2> QED
    BY <2>2, <2>3
<1>5. ASSUME Tidy(d) PROVE Tidy(e)
  <2>1. alias \in AliasRow
    BY DEF AliasRow, MentionRow
  <2>2. d.aliases \in Seq(AliasRow)
    BY <1>5 DEF Tidy
  <2> HIDE DEF alias, known
  <2>3. als \in Seq(AliasRow)
    BY <2>1, <2>2 DEF als
  <2>4. DOMAIN named = {"name", "importance"}
    OBVIOUS
  <2> HIDE DEF named
  <2>5. \A k \in DOMAIN ents : DOMAIN ents[k] = {"name", "importance"}
    BY <1>5, <2>4 DEF ents, Put, Tidy
  <2> QED
    BY <1>2, <1>5, <2>3, <2>5 DEF Tidy
<1> QED
  BY <1>2, <1>3, <1>4, <1>5 DEF Grown, Known, e

\* The mentions of a run become rows one after the other.
LEMMA AllMentions ==
  ASSUME NEW d, Known(d), NEW r \in Runs
  PROVE  Grown(d, WithMentions(d, r))
<1> DEFINE n == Len(Drafts[r])
           Is(g, k) == g = [i \in 0..k |-> IF i = 0 THEN d ELSE WithMention(g[i - 1], Drafts[r][i], r)]
           G == {k \in Nat : \E g : Is(g, k)}
           after == CHOOSE g : Is(g, n)
<1>1. Drafts[r] \in Seq(MentionRow) /\ n \in Nat
  BY ProjectionsAssumption
<1>2. 0 \in G
  <2> DEFINE g == [i \in 0..0 |-> d]
  <2>1. \A i \in 0..0 : i = 0
    OBVIOUS
  <2>2. Is(g, 0)
    BY <2>1
  <2> QED
    BY <2>2
<1>3. ASSUME NEW k \in G PROVE k + 1 \in G
  <2>1. PICK g : Is(g, k)
    OBVIOUS
  <2> DEFINE h == [i \in 0..(k + 1) |-> IF i <= k THEN g[i] ELSE WithMention(g[k], Drafts[r][i], r)]
  <2>2. k \in Nat
    OBVIOUS
  <2>3. ASSUME NEW i \in 0..(k + 1)
        PROVE  h[i] = IF i = 0 THEN d ELSE WithMention(h[i - 1], Drafts[r][i], r)
    <3>1. CASE i = 0
      BY <2>1, <2>2, <3>1
    <3>2. CASE i \in 1..k
      <4>1. h[i] = g[i] /\ i - 1 \in 0..(k + 1) /\ i - 1 <= k /\ h[i - 1] = g[i - 1]
        BY <2>2, <3>2
      <4>2. i \in 0..k /\ i # 0
        BY <2>2, <3>2
      <4>3. g[i] = WithMention(g[i - 1], Drafts[r][i], r)
        BY <2>1, <4>2, Zenon
      <4> QED
        BY <4>1, <4>2, <4>3
    <3>3. CASE i = k + 1
      <4>1. h[i] = WithMention(g[k], Drafts[r][i], r) /\ h[k] = g[k] /\ i - 1 = k /\ i # 0
        BY <2>2, <3>3
      <4> QED
        BY <4>1
    <3> QED
      BY <2>2, <3>1, <3>2, <3>3
  <2>4. h = [i \in 0..(k + 1) |-> IF i = 0 THEN d ELSE WithMention(h[i - 1], Drafts[r][i], r)]
    <3>1. h = [i \in 0..(k + 1) |-> h[i]]
      OBVIOUS
    <3> HIDE DEF h
    <3> QED
      BY <2>3, <3>1
  <2>5. Is(h, k + 1)
    BY <2>4
  <2> HIDE DEF Is, h
  <2>6. k + 1 \in Nat
    BY <2>2
  <2> QED
    BY <2>5, <2>6, Zenon
<1>4. n \in G
  <2> HIDE DEF G
  <2>1. G \in SUBSET Nat
    BY DEF G
  <2> QED
    BY <1>1, <1>2, <1>3, <2>1, Induction
<1>5. Is(after, n)
  BY <1>4, Zenon
<1>6. WithMentions(d, r) = after[n]
  BY Zenon DEF WithMentions
<1>7. \A i \in 0..n : after[i] = IF i = 0 THEN d ELSE WithMention(after[i - 1], Drafts[r][i], r)
  BY <1>5, Zenon
<1> HIDE DEF after
<1> DEFINE H == {k \in Nat : k <= n => Grown(d, after[k])}
<1>8. 0 \in H
  <2>1. after[0] = d
    BY <1>1, <1>7
  <2> QED
    BY <2>1 DEF Grown
<1>9. ASSUME NEW k \in H PROVE k + 1 \in H
  <2> SUFFICES ASSUME k + 1 <= n PROVE Grown(d, after[k + 1])
    OBVIOUS
  <2>1. k \in Nat /\ Grown(d, after[k])
    BY <1>1
  <2>2. k + 1 \in 0..n /\ k + 1 # 0 /\ (k + 1) - 1 = k /\ k + 1 \in 1..n
    BY <1>1, <2>1
  <2>3. after[k + 1] = WithMention(after[k], Drafts[r][k + 1], r)
    BY <1>7, <2>2
  <2>4. Drafts[r][k + 1] \in MentionRow
    BY <1>1, <2>2
  <2>5. Grown(after[k], after[k + 1])
    BY <2>1, <2>3, <2>4, OneMention DEF Grown
  <2> QED
    BY <2>1, <2>5 DEF Grown
<1>10. n \in H
  <2> HIDE DEF H
  <2>1. H \in SUBSET Nat
    BY DEF H
  <2> QED
    BY <1>1, <1>8, <1>9, <2>1, Induction
<1> QED
  BY <1>1, <1>6, <1>10

-----------------------------------------------------------------------------
(* What the steps do to the tables and to the commands *)

\* A command goes on with the same item.
LEMMA GoToSteps ==
  ASSUME CommandInv, NEW c \in Commands, NEW step, GoTo(c, step)
  PROVE  /\ CommandInv'
         /\ \A b \in Commands : b # c => cmd'[b] = cmd[b]
         /\ cmd'[c].op = cmd[c].op /\ cmd'[c].run = cmd[c].run
         /\ cmd'[c].plan = cmd[c].plan /\ cmd'[c].step = step
<1> DEFINE now == [cmd[c] EXCEPT !.step = step]
<1>1. cmd' = [cmd EXCEPT ![c] = now]
  BY Zenon DEF GoTo
<1>2. /\ DOMAIN now = {"op", "run", "plan", "step"} /\ now.op = cmd[c].op
      /\ now.run = cmd[c].run /\ now.plan = cmd[c].plan /\ now.step = step
  BY Zenon DEF CommandInv
<1> HIDE DEF now
<1> QED
  BY <1>1, <1>2 DEF CommandInv

\* A command goes on with the next item, or is done.
LEMMA PopSteps ==
  ASSUME CommandInv, NEW c \in Commands, Pop(c)
  PROVE  /\ CommandInv'
         /\ \A b \in Commands : b # c => cmd'[b] = cmd[b]
         /\ \/ cmd'[c] = Idle
            \/ /\ Len(cmd[c].plan) # 1
               /\ cmd'[c].op = cmd[c].op /\ cmd'[c].run = cmd[c].run
               /\ cmd'[c].plan = Tail(cmd[c].plan) /\ cmd'[c].step = "ensure"
<1> DEFINE next == [cmd[c] EXCEPT !.plan = Tail(@), !.step = "ensure"]
           now == IF Len(cmd[c].plan) = 1 THEN Idle ELSE next
<1>1. cmd' = [cmd EXCEPT ![c] = now]
  BY Zenon DEF Pop
<1>2. /\ DOMAIN next = {"op", "run", "plan", "step"} /\ next.op = cmd[c].op
      /\ next.run = cmd[c].run /\ next.plan = Tail(cmd[c].plan) /\ next.step = "ensure"
  BY Zenon DEF CommandInv
<1>3. DOMAIN Idle = {"op", "run", "plan", "step"}
  BY DEF Idle
<1> HIDE DEF next
<1> QED
  BY <1>1, <1>2, <1>3 DEF CommandInv

\* A command that starts, ends or is killed leaves the others alone.
LEMMA SetSteps ==
  ASSUME CommandInv, NEW c \in Commands, NEW now, DOMAIN now = {"op", "run", "plan", "step"},
         cmd' = [cmd EXCEPT ![c] = now]
  PROVE  CommandInv' /\ cmd'[c] = now /\ \A b \in Commands : b # c => cmd'[b] = cmd[b]
BY DEF CommandInv

\* The steps of a resolve, table by table.
LEMMA EnsureSteps ==
  ASSUME DOMAIN db = Tables, NEW c, Ensure(c)
  PROVE  /\ DOMAIN db' = Tables /\ db'.active = db.active /\ db'.claims = db.claims
         /\ db'.evidence = db.evidence /\ db'.aliases = db.aliases
         /\ db'.links = db.links /\ db'.linked = db.linked /\ db'.verified = db.verified
         /\ db'.resolved = db.resolved /\ db'.audit = db.audit /\ db'.mentions = db.mentions
         /\ DOMAIN db.entities \subseteq DOMAIN db'.entities
<1> DEFINE ents == IF Item(c).to \in DOMAIN db.entities THEN db.entities
                   ELSE Put(db.entities, Item(c).to, [name |-> Item(c).surface, importance |-> 0])
<1>1. db' = [db EXCEPT !.entities = ents]
  BY Zenon DEF Ensure
<1>2. DOMAIN db.entities \subseteq DOMAIN ents
  BY DEF Put
<1> HIDE DEF ents
<1> QED
  BY <1>1, <1>2, Zenon DEF Tables

\* What writing an audit row does.
LEMMA AuditSteps ==
  ASSUME DOMAIN db = Tables, NEW c, Audit(c)
  PROVE  /\ DOMAIN db' = Tables /\ db'.active = db.active /\ db'.claims = db.claims
         /\ db'.evidence = db.evidence /\ db'.aliases = db.aliases
         /\ db'.links = db.links /\ db'.linked = db.linked /\ db'.verified = db.verified
         /\ db'.resolved = db.resolved /\ db'.mentions = db.mentions
         /\ db'.entities = db.entities /\ db.audit \subseteq db'.audit
         /\ Item(c).m # Item(c).to /\ Item(c).m \in DOMAIN db.entities
              => <<Item(c).m, Item(c).to, cmd[c].run>> \in db'.audit
<1> DEFINE more == IF Item(c).m # Item(c).to /\ Item(c).m \in DOMAIN db.entities
                   THEN {<<Item(c).m, Item(c).to, cmd[c].run>>} ELSE {}
           aud == db.audit \cup more
<1>1. db' = [db EXCEPT !.audit = aud]
  BY Zenon DEF Audit
<1>2. /\ db.audit \subseteq aud
      /\ Item(c).m # Item(c).to /\ Item(c).m \in DOMAIN db.entities
           => <<Item(c).m, Item(c).to, cmd[c].run>> \in aud
  OBVIOUS
<1> HIDE DEF aud
<1> QED
  BY <1>1, <1>2, Zenon DEF Tables

\* What writing a projection does.
LEMMA ProjectSteps ==
  ASSUME DOMAIN db = Tables, NEW c, Project(c)
  PROVE  /\ DOMAIN db' = Tables /\ db'.active = db.active /\ db'.claims = db.claims
         /\ db'.evidence = db.evidence /\ db'.aliases = db.aliases
         /\ db'.links = db.links /\ db'.linked = db.linked /\ db'.verified = db.verified
         /\ db'.audit = db.audit /\ db'.mentions = db.mentions /\ db'.entities = db.entities
         /\ db'.resolved = Put(db.resolved, Item(c).m,
                               [canonical |-> Item(c).to, run |-> cmd[c].run])
<1> DEFINE new == Put(db.resolved, Item(c).m, [canonical |-> Item(c).to, run |-> cmd[c].run])
<1>1. db' = [db EXCEPT !.resolved = new]
  BY Zenon DEF Project
<1> HIDE DEF new
<1>2. /\ DOMAIN db' = Tables /\ db'.active = db.active /\ db'.claims = db.claims
      /\ db'.evidence = db.evidence /\ db'.aliases = db.aliases
      /\ db'.links = db.links /\ db'.linked = db.linked /\ db'.verified = db.verified
      /\ db'.audit = db.audit /\ db'.mentions = db.mentions /\ db'.entities = db.entities
      /\ db'.resolved = new
  BY <1>1, Zenon DEF Tables
<1> QED
  BY <1>2 DEF new

\* The tables that neither merges nor links are made of.
LEMMA OtherSteps ==
  ASSUME DOMAIN db = Tables, NEW c, Rewrite(c) \/ Unresolve(c)
  PROVE  /\ DOMAIN db' = Tables /\ db'.active = db.active /\ db'.claims = db.claims
         /\ db'.evidence = db.evidence /\ db'.aliases = db.aliases
         /\ db'.links = db.links /\ db'.linked = db.linked /\ db'.verified = db.verified
         /\ db'.audit = db.audit /\ db'.mentions = db.mentions /\ db'.entities = db.entities
         /\ db'.resolved = db.resolved
<1>1. ASSUME NEW h, db' = [db EXCEPT !.home = h]
      PROVE  /\ DOMAIN db' = Tables /\ db'.active = db.active /\ db'.claims = db.claims
             /\ db'.evidence = db.evidence /\ db'.aliases = db.aliases
             /\ db'.links = db.links /\ db'.linked = db.linked /\ db'.verified = db.verified
             /\ db'.audit = db.audit /\ db'.mentions = db.mentions
             /\ db'.entities = db.entities /\ db'.resolved = db.resolved
  BY <1>1, Zenon DEF Tables
<1>2. ASSUME NEW u, db' = [db EXCEPT !.unresolved = u]
      PROVE  /\ DOMAIN db' = Tables /\ db'.active = db.active /\ db'.claims = db.claims
             /\ db'.evidence = db.evidence /\ db'.aliases = db.aliases
             /\ db'.links = db.links /\ db'.linked = db.linked /\ db'.verified = db.verified
             /\ db'.audit = db.audit /\ db'.mentions = db.mentions
             /\ db'.entities = db.entities /\ db'.resolved = db.resolved
  BY <1>2, Zenon DEF Tables
<1>3. CASE Rewrite(c)
  <2>1. db' = [db EXCEPT !.home = [db.home EXCEPT ![Item(c).m] = Item(c).to]]
    BY <1>3, Zenon DEF Rewrite
  <2> QED
    BY <1>1, <2>1, Zenon
<1>4. CASE Unresolve(c)
  <2>1. db' = [db EXCEPT !.unresolved = db.unresolved \cup {<<Item(c).m, cmd[c].run>>}]
    BY <1>4, Zenon DEF Unresolve
  <2> QED
    BY <1>2, <2>1, Zenon
<1> QED
  BY <1>3, <1>4

\* The row of a link is there, and the run is a member of it with its verdict.
Written(r, v, row, verdict) ==
  /\ row.v = v
  /\ db'.linked = db.linked \cup {<<v, r>>}
  /\ db'.verified = Put(db.verified, <<v, r>>, verdict)
  /\ db'.links = IF \A l \in db.links : l.v # v THEN db.links \cup {row} ELSE db.links

\* A link is written for the run of the command, and for no other.
LEMMA LinkSteps ==
  ASSUME DOMAIN db = Tables, NEW c, WriteLink(c)
  PROVE  /\ DOMAIN db' = Tables /\ db'.active = db.active /\ db'.claims = db.claims
         /\ db'.evidence = db.evidence /\ db'.aliases = db.aliases
         /\ db'.audit = db.audit /\ db'.mentions = db.mentions /\ db'.entities = db.entities
         /\ db'.resolved = db.resolved
         /\ \E v, row, verdict : Written(cmd[c].run, v, row, verdict)
<1> DEFINE x == Item(c)
           r == cmd[c].run
           v == <<x.src.v, x.type, x.tgt.v>>
           seen == {e.chapter : e \in EvidenceFor(db, r, x.src.v) \cup EvidenceFor(db, r, x.tgt.v)}
           o == IF seen = {} THEN x.tgt.ord ELSE Max(seen)
           row == [v |-> v, src |-> x.src.v, tgt |-> x.tgt.v, type |-> x.type, conf |-> x.conf,
                   ord |-> o, world |-> [kind |-> "chapter_proxy", from |-> o, to |-> Null]]
           new == \A l \in db.links : l.v # v
           verdict == [status |-> IF Told(x) = 0 THEN "unverified" ELSE "supported", at |-> Told(x)]
           ver == Put(db.verified, <<v, r>>, verdict)
           lnd == db.linked \cup {<<v, r>>}
           judged == [db EXCEPT !.verified = ver, !.linked = lnd]
           lks == IF new THEN db.links \cup {row} ELSE db.links
<1>1. \E p : db' = [judged EXCEPT !.links = IF new THEN @ \cup {row} ELSE @, !.primary = p]
  BY Zenon DEF WriteLink, Record
<1>2. row.v = v
  OBVIOUS
<1> HIDE DEF x, r, v, seen, o, row, verdict, ver, lnd, new
<1>3. DOMAIN judged = Tables /\ judged.links = db.links
  BY Zenon DEF Tables
<1>4. PICK p : db' = [judged EXCEPT !.links = lks, !.primary = p]
  BY <1>1, <1>3, Zenon
<1> HIDE DEF lks
<1>5. /\ DOMAIN db' = Tables /\ db'.active = db.active /\ db'.claims = db.claims
      /\ db'.evidence = db.evidence /\ db'.aliases = db.aliases
      /\ db'.audit = db.audit /\ db'.mentions = db.mentions /\ db'.entities = db.entities
      /\ db'.resolved = db.resolved /\ db'.linked = lnd /\ db'.verified = ver /\ db'.links = lks
  BY <1>4, Zenon DEF Tables
<1>6. Written(r, v, row, verdict)
  BY <1>2, <1>5, Zenon DEF lnd, ver, lks, new, Written
<1> QED
  BY <1>5, <1>6, Zenon DEF r

-----------------------------------------------------------------------------
(* Merges are on record *)

\* A command that does not move keeps its plan while entities and audit grow.
LEMMA PlannedStays ==
  ASSUME NEW c, Planned(c), cmd'[c] = cmd[c],
         DOMAIN db.entities \subseteq DOMAIN db'.entities, db.audit \subseteq db'.audit
  PROVE  Planned(c)'
BY DEF Planned, Item

\* Resolving is planned from rows, so from entities.
LEMMA PlanOfEntities ==
  ASSUME Known(db), NEW r, NEW x \in Plan(db, r)
  PROVE  x.m \in DOMAIN db.entities
<1>1. PICK i \in Mentions(db, r) : \E to, first : x = Decided(db, i, to, first)
  BY Zenon DEF Plan
<1>2. x.m = db.mentions[i].m
  BY <1>1 DEF Decided
<1> QED
  BY <1>2 DEF Known, Mentions

\* A plan names finitely many mentions.
LEMMA PlanIsFinite ==
  ASSUME Known(db), NEW r PROVE IsFiniteSet(Plan(db, r))
<1> DEFINE D == DOMAIN db.mentions
           M == Mentions(db, r)
<1>1. D = 1..Len(db.mentions) /\ Len(db.mentions) \in Nat
  BY DEF Known
<1>2. IsFiniteSet(D)
  BY <1>1, FS_Interval
<1>3. M \subseteq D
  BY DEF Mentions
<1>4. IsFiniteSet(M)
  BY <1>2, <1>3, FS_Subset
<1> DEFINE Group(i) == {j \in M : db.mentions[j].surface[1] = db.mentions[i].surface[1]}
           to(i) == Verdict(Seeds(db, r), {db.mentions[j] : j \in Group(i)}, db.mentions[i])
           At(i) == <<db.mentions[i].ord, i>>
           met(i) == CHOOSE a \in {At(j) : j \in Group(i)} : \A j \in Group(i) : ~Earlier(At(j), a)
           f == [i \in M |-> Decided(db, i, to(i), met(i))]
<1>5. Plan(db, r) = {Decided(db, i, to(i), met(i)) : i \in M}
  BY Zenon DEF Plan
<1> HIDE DEF M, to, met
<1>6. f \in Surjection(M, Plan(db, r))
  BY <1>5 DEF Surjection
<1> QED
  BY <1>4, <1>6, FS_Surjection

\* A resolve starts with a plan, or has nothing to do.
LEMMA StartPlans ==
  ASSUME Known(db), CommandInv, NEW c \in Commands, NEW r, Resolve(c, r)
  PROVE  CommandInv' /\ (cmd'[c].op = "resolve" => Planned(c)')
         /\ (\A b \in Commands : b # c => cmd'[b] = cmd[b]) /\ UNCHANGED <<db, stage>>
<1>1. PICK plan \in InOrder(Plan(db, r)) :
        cmd' = [cmd EXCEPT ![c] = IF plan = <<>> THEN Idle
                                  ELSE [op |-> "resolve", run |-> r, plan |-> plan, step |-> "ensure"]]
  BY DEF Resolve, Start
<1> DEFINE n == Cardinality(Plan(db, r))
<1>2. n \in Nat
  BY PlanIsFinite, FS_CardinalityType
<1>3. plan \in [1..n -> Plan(db, r)]
  BY DEF InOrder
<1>4. plan \in Seq(Plan(db, r))
  BY <1>2, <1>3
<1>5. plan \in Seq(Range(plan)) /\ Range(plan) \subseteq Plan(db, r)
  BY <1>4, SeqOfRange, RangeOfSeq
<1> DEFINE now == IF plan = <<>> THEN Idle
                  ELSE [op |-> "resolve", run |-> r, plan |-> plan, step |-> "ensure"]
<1>6. DOMAIN now = {"op", "run", "plan", "step"}
  BY DEF Idle
<1>7. now.op = "resolve" => now.plan = plan /\ plan # <<>> /\ now.step = "ensure"
  BY DEF Idle
<1> HIDE DEF now
<1>8. CommandInv' /\ cmd'[c] = now /\ \A b \in Commands : b # c => cmd'[b] = cmd[b]
  <2>1. cmd' = [cmd EXCEPT ![c] = now]
    BY <1>1 DEF now
  <2> QED
    BY <1>6, <2>1, SetSteps
<1>9. UNCHANGED <<db, stage>>
  BY DEF Resolve, Start
<1>10. ASSUME now.op = "resolve" PROVE Planned(c)'
  <2>1. cmd'[c].plan = plan /\ plan # <<>> /\ cmd'[c].step = "ensure"
    BY <1>7, <1>8, <1>10
  <2>2. \A x \in Range(plan) : x.m \in DOMAIN db.entities
    BY <1>5, PlanOfEntities
  <2> QED
    BY <1>5, <1>9, <2>1, <2>2 DEF Planned
<1> QED
  BY <1>8, <1>9, <1>10

\* No step of a command takes anything away from the entities or the record.
LEMMA WorkSteps ==
  ASSUME DOMAIN db = Tables, NEW c, Work(c)
  PROVE  /\ DOMAIN db' = Tables /\ db'.active = db.active /\ db'.claims = db.claims
         /\ db'.evidence = db.evidence /\ db'.aliases = db.aliases
         /\ db'.mentions = db.mentions
         /\ DOMAIN db.entities \subseteq DOMAIN db'.entities /\ db.audit \subseteq db'.audit
         /\ stage' = stage
<1>1. ASSUME Ensure(c) PROVE stage' = stage /\ db'.audit = db.audit
  BY <1>1, EnsureSteps DEF Ensure
<1>2. CASE Ensure(c)
  BY <1>1, <1>2, EnsureSteps
<1>3. CASE Audit(c)
  BY <1>3, AuditSteps, Zenon DEF Audit
<1>4. CASE Project(c)
  BY <1>4, ProjectSteps, Zenon DEF Project
<1>5. CASE Rewrite(c) \/ Unresolve(c)
  <2>1. stage' = stage
    BY <1>5, Zenon DEF Rewrite, Unresolve
  <2> QED
    BY <1>5, <2>1, OtherSteps
<1>6. CASE WriteLink(c)
  <2>1. stage' = stage
    BY <1>6, Zenon DEF WriteLink
  <2> QED
    BY <1>6, <2>1, LinkSteps
<1>7. CASE Kill(c)
  BY <1>7 DEF Kill
<1> QED
  BY <1>2, <1>3, <1>4, <1>5, <1>6, <1>7 DEF Work

\* An align adds mentions, with their entities.
LEMMA AlignSteps ==
  ASSUME Known(db), NEW r \in Runs, Align(r)
  PROVE  Grown(db, db') /\ stage[r] = "extracted" /\ stage' = [stage EXCEPT ![r] = "aligned"]
         /\ UNCHANGED cmd
<1>1. /\ db' = WithMentions(db, r) /\ stage[r] = "extracted" /\ UNCHANGED cmd
      /\ stage' = [stage EXCEPT ![r] = "aligned"]
  BY Zenon DEF Align
<1> QED
  BY <1>1, AllMentions

\* An activation changes which run is served, and no other table.
LEMMA ActivateSteps ==
  ASSUME DOMAIN db = Tables, NEW r, Activate(r)
  PROVE  /\ DOMAIN db' = Tables /\ db'.active = r /\ db'.claims = db.claims
         /\ db'.evidence = db.evidence /\ db'.aliases = db.aliases
         /\ db'.links = db.links /\ db'.linked = db.linked /\ db'.verified = db.verified
         /\ db'.resolved = db.resolved /\ db'.audit = db.audit /\ db'.mentions = db.mentions
         /\ db'.entities = db.entities /\ UNCHANGED cmd
<1>1. db' = [db EXCEPT !.active = r] /\ UNCHANGED cmd
  BY Zenon DEF Activate
<1> QED
  BY <1>1, Zenon DEF Tables

\* A change of the book.
LEMMA ChangeCases ==
  ASSUME Change
  PROVE  \/ \E r \in Runs : Align(r) \/ Activate(r)
         \/ \E c \in Commands : Work(c)
         \/ \E c \in Commands, r \in Runs : Resolve(c, r) \/ Link(c, r)
BY Zenon DEF Change

\* A link that begins changes no table and leaves the resolves under way alone.
LEMMA LinkStarts ==
  ASSUME CommandInv, NEW c \in Commands, NEW r, Link(c, r)
  PROVE  CommandInv' /\ cmd'[c].op # "resolve"
         /\ (\A b \in Commands : b # c => cmd'[b] = cmd[b]) /\ UNCHANGED <<db, stage>>
<1>1. UNCHANGED <<db, stage>>
  BY Zenon DEF Link, Start
<1>2. PICK plan : cmd' = [cmd EXCEPT ![c] = IF plan = <<>> THEN Idle
                           ELSE [op |-> "link", run |-> r, plan |-> plan, step |-> "ensure"]]
  BY Zenon DEF Link, Start
<1> DEFINE now == IF plan = <<>> THEN Idle
                  ELSE [op |-> "link", run |-> r, plan |-> plan, step |-> "ensure"]
<1>3. DOMAIN now = {"op", "run", "plan", "step"} /\ now.op # "resolve"
  BY DEF Idle
<1>4. cmd' = [cmd EXCEPT ![c] = now]
  BY <1>2
<1> HIDE DEF now
<1> QED
  BY <1>1, <1>3, <1>4, SetSteps

\* A run is served from its activation to the next, and never again.
LEMMA BookStays ==
  ASSUME BookInv, Known(db), Change, CommandInv
  PROVE  BookInv' /\ CommandInv'
<1>1. CASE \E r \in Runs : Align(r)
  <2>1. PICK r \in Runs : Align(r)
    BY <1>1
  <2>2. Grown(db, db') /\ stage[r] = "extracted" /\ stage' = [stage EXCEPT ![r] = "aligned"]
        /\ UNCHANGED cmd
    BY <2>1, AlignSteps
  <2> QED
    BY <2>2 DEF BookInv, Grown, Known, stages, CommandInv
<1>2. CASE \E r \in Runs : Activate(r)
  <2>1. PICK r \in Runs : Activate(r)
    BY <1>2
  <2>2. DOMAIN db' = Tables /\ db'.active = r /\ UNCHANGED cmd
    BY <2>1, ActivateSteps DEF BookInv
  <2>3. stage' = [q \in Runs |-> IF q = r THEN "active"
                                 ELSE IF stage[q] = "active" THEN "superseded" ELSE stage[q]]
    BY <2>1, Zenon DEF Activate
  <2> QED
    BY <2>2, <2>3 DEF BookInv, stages, CommandInv
<1>3. CASE \E c \in Commands : Work(c)
  <2>1. PICK c \in Commands : Work(c)
    BY <1>3
  <2>2. DOMAIN db' = Tables /\ db'.active = db.active /\ stage' = stage
    BY <2>1, WorkSteps DEF BookInv
  <2>3. CommandInv'
    <3>1. ASSUME NEW step, GoTo(c, step) PROVE CommandInv'
      BY <3>1, GoToSteps
    <3>2. CASE Pop(c)
      BY <3>2, PopSteps
    <3>3. CASE Kill(c)
      <4>1. cmd' = [cmd EXCEPT ![c] = Idle]
        BY <3>3 DEF Kill
      <4> QED
        BY <4>1 DEF CommandInv, Idle
    <3> QED
      BY <2>1, <3>1, <3>2, <3>3, Zenon
      DEF Work, Ensure, Audit, Project, Rewrite, Unresolve, WriteLink
  <2> QED
    BY <2>2, <2>3 DEF BookInv
<1>4. CASE \E c \in Commands, r \in Runs : Resolve(c, r) \/ Link(c, r)
  <2>1. CommandInv' /\ UNCHANGED <<db, stage>>
    BY <1>4, StartPlans, LinkStarts
  <2> QED
    BY <2>1 DEF BookInv
<1> QED
  BY <1>1, <1>2, <1>3, <1>4, ChangeCases

\* An item at hand is one of the plan, and the rest of the plan is part of it.
LEMMA PlanParts ==
  ASSUME NEW c, Planned(c)
  PROVE  /\ Item(c) \in Range(cmd[c].plan) /\ Item(c).m \in DOMAIN db.entities
         /\ Len(cmd[c].plan) # 1 =>
              /\ Tail(cmd[c].plan) \in Seq(Range(Tail(cmd[c].plan)))
              /\ Tail(cmd[c].plan) # <<>>
              /\ Range(Tail(cmd[c].plan)) \subseteq Range(cmd[c].plan)
<1> DEFINE p == cmd[c].plan
           S == Range(p)
<1>1. p \in Seq(S) /\ p # <<>> /\ \A x \in S : x.m \in DOMAIN db.entities
  BY DEF Planned
<1> HIDE DEF p, S
<1>2. Head(p) \in S /\ Tail(p) \in Seq(S) /\ Len(Tail(p)) = Len(p) - 1 /\ Len(p) \in Nat
      /\ Len(p) # 0
  BY <1>1
<1>3. Tail(p) \in Seq(Range(Tail(p))) /\ Range(Tail(p)) \subseteq S
  BY <1>2, SeqOfRange, RangeOfSeq
<1>4. Len(p) # 1 => Tail(p) # <<>>
  <2>1. Tail(p) = <<>> => Len(Tail(p)) = 0
    BY <1>2, EmptySeq
  <2>2. ASSUME NEW k \in Nat, NEW j, j = k - 1, j = 0 PROVE k = 1
    BY <2>2
  <2> QED
    BY <1>2, <2>1, <2>2, Zenon
<1> QED
  BY <1>1, <1>2, <1>3, <1>4 DEF p, S, Item

\* What a step of a command does to its own plan.
LEMMA PlannedMoves ==
  ASSUME BookInv, CommandInv, NEW c \in Commands, cmd[c].op = "resolve" => Planned(c), Work(c)
  PROVE  cmd'[c].op = "resolve" => Planned(c)'
<1>1. DOMAIN db.entities \subseteq DOMAIN db'.entities /\ db.audit \subseteq db'.audit
  BY WorkSteps DEF BookInv
<1>2. ASSUME cmd[c].op = "resolve", NEW step, GoTo(c, step),
             step = "project" => \/ Item(c).m = Item(c).to
                                 \/ <<Item(c).m, Item(c).to, cmd[c].run>> \in db'.audit
      PROVE  Planned(c)'
  <2>1. cmd'[c].plan = cmd[c].plan /\ cmd'[c].step = step /\ cmd'[c].run = cmd[c].run
    BY <1>2, GoToSteps
  <2> QED
    BY <1>1, <1>2, <2>1 DEF Planned, Item
<1>3. ASSUME cmd[c].op = "resolve", Pop(c) PROVE cmd'[c].op = "resolve" => Planned(c)'
  <2>1. CASE cmd'[c] = Idle
    BY <2>1 DEF Idle
  <2>2. CASE /\ Len(cmd[c].plan) # 1
             /\ cmd'[c].plan = Tail(cmd[c].plan) /\ cmd'[c].step = "ensure"
    <3>1. Planned(c)
      BY <1>3
    <3> QED
      BY <1>1, <2>2, <3>1, PlanParts DEF Planned
  <2> QED
    BY <1>3, <2>1, <2>2, PopSteps
<1>4. CASE Ensure(c)
  <2>1. cmd[c].op = "resolve" /\ GoTo(c, "audit")
    BY <1>4, Zenon DEF Ensure, Doing
  <2> QED
    BY <1>2, <2>1
<1>5. CASE Audit(c)
  <2>1. cmd[c].op = "resolve" /\ GoTo(c, "project")
    BY <1>5, Zenon DEF Audit, Doing
  <2>2. \/ Item(c).m = Item(c).to
        \/ <<Item(c).m, Item(c).to, cmd[c].run>> \in db'.audit
    BY <1>5, <2>1, AuditSteps, PlanParts DEF BookInv
  <2> QED
    BY <1>2, <2>1, <2>2
<1>6. CASE Project(c)
  <2>1. cmd[c].op = "resolve" /\ GoTo(c, "rewrite")
    BY <1>6, Zenon DEF Project, Doing
  <2> QED
    BY <1>2, <2>1
<1>7. CASE Rewrite(c) \/ Unresolve(c)
  <2>1. cmd[c].op = "resolve" /\ Pop(c)
    BY <1>7, Zenon DEF Rewrite, Unresolve, Doing
  <2> QED
    BY <1>3, <2>1
<1>8. CASE WriteLink(c)
  <2>1. cmd[c].op = "link" /\ Pop(c)
    BY <1>8, Zenon DEF WriteLink, Doing
  <2>2. cmd'[c] = Idle \/ cmd'[c].op = "link"
    BY <2>1, PopSteps
  <2> QED
    BY <2>2 DEF Idle
<1>9. CASE Kill(c)
  <2>1. cmd' = [cmd EXCEPT ![c] = Idle]
    BY <1>9 DEF Kill
  <2>2. cmd'[c] = Idle
    BY <2>1 DEF CommandInv
  <2> QED
    BY <2>2 DEF Idle
<1> QED
  BY <1>4, <1>5, <1>6, <1>7, <1>8, <1>9 DEF Work

\* A command moves alone.
LEMMA OthersStay ==
  ASSUME CommandInv, NEW c \in Commands, NEW b \in Commands, b # c,
         Work(c) \/ \E r : Resolve(c, r) \/ Link(c, r)
  PROVE  Known(db) => cmd'[b] = cmd[b]
<1>1. ASSUME NEW step, GoTo(c, step) PROVE cmd'[b] = cmd[b]
  BY <1>1, GoToSteps
<1>2. ASSUME Pop(c) PROVE cmd'[b] = cmd[b]
  BY <1>2, PopSteps
<1>3. ASSUME Kill(c) PROVE cmd'[b] = cmd[b]
  BY <1>3 DEF Kill, CommandInv
<1>4. CASE Work(c)
  BY <1>1, <1>2, <1>3, <1>4, Zenon
  DEF Work, Ensure, Audit, Project, Rewrite, Unresolve, WriteLink
<1>5. CASE \E r : Resolve(c, r) \/ Link(c, r)
  BY <1>5, StartPlans, LinkStarts
<1> QED
  BY <1>4, <1>5

\* A merge on record stays on record, whatever follows.
LEMMA MergesStay ==
  ASSUME BookInv, CommandInv, MergeInv, MergesAudited, Change
  PROVE  MergeInv' /\ MergesAudited'
<1>1. Known(db)
  BY DEF Known, BookInv, MergeInv
<1>2. ASSUME Known(db'), DOMAIN db.entities \subseteq DOMAIN db'.entities, db.audit \subseteq db'.audit,
             NEW c, \A b \in Commands : b # c => cmd'[b] = cmd[b],
             c \in Commands => (cmd'[c].op = "resolve" => Planned(c)')
      PROVE  MergeInv'
  <2>1. ASSUME NEW b \in Commands, cmd'[b].op = "resolve" PROVE Planned(b)'
    BY <1>2, <2>1, PlannedStays DEF MergeInv
  <2> QED
    BY <1>2, <2>1 DEF MergeInv, Known
<1>3. ASSUME db'.resolved = db.resolved, db.audit \subseteq db'.audit PROVE MergesAudited'
  BY <1>3 DEF MergesAudited
<1>4. CASE \E r \in Runs : Align(r)
  <2>1. Grown(db, db') /\ UNCHANGED cmd
    BY <1>1, <1>4, AlignSteps
  <2>2. MergeInv'
    BY <1>2, <2>1, PlannedStays DEF Grown, MergeInv
  <2> QED
    BY <1>3, <2>1, <2>2 DEF Grown
<1>5. CASE \E r \in Runs : Activate(r)
  <2>1. /\ DOMAIN db' = Tables /\ db'.mentions = db.mentions /\ db'.entities = db.entities
        /\ db'.audit = db.audit /\ db'.resolved = db.resolved /\ UNCHANGED cmd
    BY <1>5, ActivateSteps DEF BookInv
  <2>2. MergeInv'
    BY <2>1 DEF MergeInv, Planned, Item
  <2> QED
    BY <1>3, <2>1, <2>2
<1>6. ASSUME NEW c \in Commands, Work(c) PROVE MergeInv' /\ MergesAudited'
  <2>1. /\ DOMAIN db' = Tables /\ db'.mentions = db.mentions
        /\ DOMAIN db.entities \subseteq DOMAIN db'.entities /\ db.audit \subseteq db'.audit
    BY <1>6, WorkSteps DEF BookInv
  <2>2. Known(db')
    BY <1>1, <2>1 DEF Known
  <2>3. cmd'[c].op = "resolve" => Planned(c)'
    BY <1>6, PlannedMoves DEF MergeInv
  <2>4. \A b \in Commands : b # c => cmd'[b] = cmd[b]
    BY <1>1, <1>6, OthersStay
  <2>5. MergeInv'
    BY <1>2, <2>1, <2>2, <2>3, <2>4
  <2>6. CASE Project(c)
    <3> DEFINE x == Item(c)
               new == [canonical |-> x.to, run |-> cmd[c].run]
    <3>1. db'.resolved = Put(db.resolved, x.m, new) /\ db'.audit = db.audit
      BY <2>6, ProjectSteps DEF BookInv
    <3>2. x.m = x.to \/ <<x.m, x.to, cmd[c].run>> \in db.audit
      <4>1. cmd[c].op = "resolve" /\ cmd[c].step = "project"
        BY <2>6, Zenon DEF Project, Doing
      <4> QED
        BY <4>1 DEF MergeInv, Planned
    <3> HIDE DEF x
    <3>3. ASSUME NEW m \in DOMAIN db'.resolved
          PROVE  m # db'.resolved[m].canonical
                   => <<m, db'.resolved[m].canonical, db'.resolved[m].run>> \in db'.audit
      <4>1. CASE m = x.m
        BY <3>1, <3>2, <4>1 DEF Put
      <4>2. CASE m # x.m
        BY <3>1, <4>2 DEF Put, MergesAudited
      <4> QED
        BY <4>1, <4>2
    <3> QED
      BY <2>5, <3>3 DEF MergesAudited
  <2>7. CASE ~Project(c)
    <3>1. db'.resolved = db.resolved
      <4>1. CASE Ensure(c)
        BY <4>1, EnsureSteps DEF BookInv
      <4>2. CASE Audit(c)
        BY <4>2, AuditSteps DEF BookInv
      <4>3. CASE Rewrite(c) \/ Unresolve(c)
        BY <4>3, OtherSteps DEF BookInv
      <4>4. CASE WriteLink(c)
        BY <4>4, LinkSteps DEF BookInv
      <4>5. CASE Kill(c)
        BY <4>5 DEF Kill
      <4> QED
        BY <1>6, <2>7, <4>1, <4>2, <4>3, <4>4, <4>5 DEF Work
    <3> QED
      BY <1>3, <2>1, <2>5, <3>1
  <2> QED
    BY <2>6, <2>7
<1>7. ASSUME NEW c \in Commands, NEW r \in Runs, Resolve(c, r) \/ Link(c, r)
      PROVE  MergeInv' /\ MergesAudited'
  <2>1. UNCHANGED db /\ (cmd'[c].op = "resolve" => Planned(c)')
        /\ \A b \in Commands : b # c => cmd'[b] = cmd[b]
    BY <1>1, <1>7, StartPlans, LinkStarts
  <2>2. Known(db')
    BY <1>1, <2>1
  <2> QED
    BY <1>2, <1>3, <2>1, <2>2
<1> QED
  BY <1>4, <1>5, <1>6, <1>7, ChangeCases

-----------------------------------------------------------------------------
(* The links of the served run *)

\* A link row that is there stays, and a run is a member of rows only.
LEMMA LinksStay ==
  ASSUME BookInv, Known(db), LinkInv, CommandInv, Change
  PROVE  LinkInv'
<1>1. ASSUME db'.links = db.links, db'.linked = db.linked PROVE LinkInv'
  BY <1>1 DEF LinkInv
<1>2. CASE \E r \in Runs : Align(r)
  BY <1>1, <1>2, AlignSteps DEF Grown
<1>3. CASE \E r \in Runs : Activate(r)
  BY <1>1, <1>3, ActivateSteps DEF BookInv
<1>4. ASSUME NEW c, WriteLink(c) PROVE LinkInv'
  <2>1. DOMAIN db = Tables
    BY DEF BookInv
  <2>2. PICK v, row, verdict : Written(cmd[c].run, v, row, verdict)
    BY <1>4, <2>1, LinkSteps
  <2>3. ASSUME NEW p \in db'.linked PROVE \E l \in db'.links : l.v = p[1]
    <3>1. CASE p \in db.linked
      <4>1. PICK l \in db.links : l.v = p[1]
        BY <3>1 DEF LinkInv
      <4> QED
        BY <2>2, <4>1 DEF Written
    <3>2. CASE p = <<v, cmd[c].run>>
      BY <2>2, <3>2 DEF Written
    <3> QED
      BY <2>2, <3>1, <3>2 DEF Written
  <2> QED
    BY <2>3 DEF LinkInv
<1>5. CASE \E c \in Commands : Work(c)
  <2>1. PICK c \in Commands : Work(c)
    BY <1>5
  <2>2. CASE ~WriteLink(c)
    <3>1. db'.links = db.links /\ db'.linked = db.linked
      <4>1. CASE Ensure(c)
        BY <4>1, EnsureSteps DEF BookInv
      <4>2. CASE Audit(c)
        BY <4>2, AuditSteps DEF BookInv
      <4>3. CASE Project(c)
        BY <4>3, ProjectSteps DEF BookInv
      <4>4. CASE Rewrite(c) \/ Unresolve(c)
        BY <4>4, OtherSteps DEF BookInv
      <4>5. CASE Kill(c)
        BY <4>5 DEF Kill
      <4> QED
        BY <2>1, <2>2, <4>1, <4>2, <4>3, <4>4, <4>5 DEF Work
    <3> QED
      BY <1>1, <3>1
  <2> QED
    BY <1>4, <2>2
<1>6. CASE \E c \in Commands, r \in Runs : Resolve(c, r) \/ Link(c, r)
  <2>1. UNCHANGED db
    BY <1>6, StartPlans, LinkStarts
  <2> QED
    BY <1>1, <2>1
<1> QED
  BY <1>2, <1>3, <1>5, <1>6, ChangeCases

\* What an event leads to is made of the claims, the edges and their verdicts.
LEMMA PathsAlike ==
  ASSUME NEW d, NEW e, e.claims = d.claims, NEW v,
         \A t : Edges(e, t, Null, Null) = Edges(d, t, Null, Null),
         \A w : Verified(e, w) <=> Verified(d, w),
         \A w : Verified(d, w) => e.verified[<<w, e.active>>] = d.verified[<<w, d.active>>]
  PROVE  CausalPaths(e, v, Null, Null, 3) = CausalPaths(d, v, Null, Null, 3)
<1>1. ASSUME NEW w PROVE EventSummary(e, w) = EventSummary(d, w)
  BY DEF EventSummary
<1>2. ASSUME NEW p PROVE LinkEvidence(e, p) = LinkEvidence(d, p)
  BY DEF LinkEvidence
<1>3. ASSUME NEW p PROVE Trace(e, p) = Trace(d, p)
  <2>1. EventSummary(e, p[1].src) = EventSummary(d, p[1].src)
    BY <1>1
  <2>2. [i \in DOMAIN p |-> EventSummary(e, p[i].tgt)] = [i \in DOMAIN p |-> EventSummary(d, p[i].tgt)]
    BY <1>1
  <2>3. LinkEvidence(e, p) = LinkEvidence(d, p)
    BY <1>2
  <2> QED
    BY <2>1, <2>2, <2>3, Zenon DEF Trace
<1>4. CausalPaths(e, v, Null, Null, 3)
        = {Trace(e, p) : p \in PathsFrom(v, Edges(d, {"causes", "enables"}, Null, Null), 3)}
  BY Zenon DEF CausalPaths
<1>5. CausalPaths(d, v, Null, Null, 3)
        = {Trace(d, p) : p \in PathsFrom(v, Edges(d, {"causes", "enables"}, Null, Null), 3)}
  BY Zenon DEF CausalPaths
<1> QED
  BY <1>3, <1>4, <1>5

\* A step that changes neither the links nor what is served changes no path.
LEMMA QuietPaths ==
  ASSUME db'.active = db.active, db'.claims = db.claims, db'.links = db.links,
         db'.linked = db.linked, db'.verified = db.verified, NEW v
  PROVE  CausalPaths(db', v, Null, Null, 3) = CausalPaths(db, v, Null, Null, 3)
<1>1. \A w : Verified(db', w) <=> Verified(db, w)
  BY DEF Verified
<1>2. \A t : Edges(db', t, Null, Null) = Edges(db, t, Null, Null)
  BY <1>1 DEF Edges
<1>3. \A w : Verified(db, w) => db'.verified[<<w, db'.active>>] = db.verified[<<w, db.active>>]
  OBVIOUS
<1> QED
  BY <1>1, <1>2, <1>3, PathsAlike

\* A link of another run is no edge of the served one: neither a row both runs
\* share, nor one that is new.
LEMMA ForeignLinks ==
  ASSUME BookInv, LinkInv, NEW c, WriteLink(c), cmd[c].run # db.active, NEW w
  PROVE  CausalPaths(db', w, Null, Null, 3) = CausalPaths(db, w, Null, Null, 3)
<1> DEFINE r == cmd[c].run
<1>1. db'.active = db.active /\ db'.claims = db.claims
  BY LinkSteps DEF BookInv
<1>2. PICK v, row, verdict : Written(r, v, row, verdict)
  BY LinkSteps DEF BookInv
<1> HIDE DEF r
<1>3. r # db.active
  BY DEF r
<1>4. ASSUME NEW u
      PROVE  /\ Verified(db', u) <=> Verified(db, u)
             /\ Verified(db, u) => db'.verified[<<u, db'.active>>] = db.verified[<<u, db.active>>]
  <2>1. <<u, db.active>> # <<v, r>>
    BY <1>3
  <2>2. /\ <<u, db.active>> \in DOMAIN db'.verified <=> <<u, db.active>> \in DOMAIN db.verified
        /\ <<u, db.active>> \in DOMAIN db.verified =>
             db'.verified[<<u, db.active>>] = db.verified[<<u, db.active>>]
    BY <1>2, <2>1 DEF Written, Put
  <2> QED
    BY <1>1, <2>2 DEF Verified
<1>5. ASSUME NEW t PROVE Edges(db', t, Null, Null) = Edges(db, t, Null, Null)
  <2>1. \A u : <<u, db'.active>> \in db'.linked <=> <<u, db.active>> \in db.linked
    BY <1>1, <1>2, <1>3 DEF Written
  <2>2. ASSUME NEW l PROVE l \in Edges(db', t, Null, Null) <=> l \in Edges(db, t, Null, Null)
    <3>1. CASE l \in db.links /\ l \in db'.links
      BY <1>4, <2>1, <3>1 DEF Edges
    <3>2. CASE l \notin db.links /\ l \in db'.links
      <4>1. l = row /\ \A k \in db.links : k.v # v
        BY <1>2, <3>2 DEF Written
      <4>2. <<l.v, db.active>> \notin db.linked
        <5>1. l.v = v
          BY <1>2, <4>1 DEF Written
        <5>2. SUFFICES ASSUME <<v, db.active>> \in db.linked PROVE FALSE
          BY <5>1
        <5> QED
          BY <4>1, <5>2 DEF LinkInv
      <4> QED
        BY <2>1, <3>2, <4>2 DEF Edges
    <3>3. CASE l \notin db'.links
      BY <1>2, <3>3 DEF Written, Edges
    <3> QED
      BY <3>1, <3>2, <3>3
  <2>3. \A l : l \in Edges(db', t, Null, Null) <=> l \in Edges(db, t, Null, Null)
    BY <2>2
  <2> QED
    BY <2>3
<1> QED
  BY <1>1, <1>4, <1>5, PathsAlike

\* A change that neither activates nor links for the served run changes no path.
LEMMA PathsStand ==
  ASSUME BookInv, Known(db), LinkInv, CommandInv, Change, db'.active = db.active,
         ~\E c \in Commands : cmd[c].op = "link" /\ cmd[c].run = db.active, NEW w
  PROVE  CausalPaths(db', w, Null, Null, 3) = CausalPaths(db, w, Null, Null, 3)
<1>1. CASE \E r \in Runs : Align(r)
  BY <1>1, AlignSteps, QuietPaths DEF Grown
<1>2. CASE \E r \in Runs : Activate(r)
  BY <1>2, ActivateSteps, QuietPaths DEF BookInv
<1>3. ASSUME NEW c \in Commands, Work(c)
      PROVE  CausalPaths(db', w, Null, Null, 3) = CausalPaths(db, w, Null, Null, 3)
  <2>1. CASE Ensure(c)
    BY <2>1, EnsureSteps, QuietPaths DEF BookInv
  <2>2. CASE Audit(c)
    BY <2>2, AuditSteps, QuietPaths DEF BookInv
  <2>3. CASE Project(c)
    BY <2>3, ProjectSteps, QuietPaths DEF BookInv
  <2>4. CASE Rewrite(c) \/ Unresolve(c)
    BY <2>4, OtherSteps, QuietPaths DEF BookInv
  <2>5. CASE WriteLink(c)
    <3>1. cmd[c].op = "link"
      BY <2>5, Zenon DEF WriteLink, Doing
    <3> QED
      BY <2>5, <3>1, ForeignLinks
  <2>6. CASE Kill(c)
    BY <2>6, QuietPaths DEF Kill
  <2> QED
    BY <1>3, <2>1, <2>2, <2>3, <2>4, <2>5, <2>6 DEF Work
<1>4. CASE \E c \in Commands, r \in Runs : Resolve(c, r) \/ Link(c, r)
  BY <1>4, StartPlans, LinkStarts, QuietPaths
<1> QED
  BY <1>1, <1>2, <1>3, <1>4, ChangeCases

-----------------------------------------------------------------------------
(* Answers are of their time *)

\* What the book may do to the questions under way: nothing, or an activation of
\* a run that was never served.
LEMMA ServedChanges ==
  ASSUME BookInv, Known(db), CommandInv, Change
  PROVE  /\ \A r : Served(r) => Served(r)'
         /\ \/ db'.active = db.active
            \/ \E r \in Runs : db'.active = r /\ ~Served(r)
<1>1. ASSUME stage' = stage, db'.active = db.active
      PROVE  \A r : Served(r) => Served(r)'
  BY <1>1 DEF Served
<1>2. CASE \E r \in Runs : Align(r)
  <2>1. PICK r \in Runs : Align(r)
    BY <1>2
  <2>2. Grown(db, db') /\ stage[r] = "extracted" /\ stage' = [stage EXCEPT ![r] = "aligned"]
    BY <2>1, AlignSteps
  <2> QED
    BY <2>2 DEF Grown, Served, BookInv
<1>3. CASE \E r \in Runs : Activate(r)
  <2>1. PICK r \in Runs : Activate(r)
    BY <1>3
  <2>2. db'.active = r /\ stage[r] = "aligned"
        /\ stage' = [q \in Runs |-> IF q = r THEN "active"
                                 ELSE IF stage[q] = "active" THEN "superseded" ELSE stage[q]]
    <3>1. db'.active = r
      BY <2>1, ActivateSteps DEF BookInv
    <3> QED
      BY <2>1, <3>1, Zenon DEF Activate
  <2> QED
    BY <2>2 DEF Served, BookInv
<1>4. CASE \E c \in Commands : Work(c)
  BY <1>1, <1>4, WorkSteps DEF BookInv
<1>5. CASE \E c \in Commands, r \in Runs : Resolve(c, r) \/ Link(c, r)
  BY <1>1, <1>5, StartPlans, LinkStarts
<1> QED
  BY <1>2, <1>3, <1>4, <1>5, ChangeCases

-----------------------------------------------------------------------------
(* The book is safe *)

BookSafe == BookInv /\ CommandInv /\ MergeInv /\ LinkInv /\ MergesAudited

\* Before anything is written there is nothing to be wrong about.
LEMMA BookStarts ==
  ASSUME Init(Book)
  PROVE  BookSafe
<1>1. db = Book /\ stage = [r \in Runs |-> "extracted"] /\ cmd = [c \in Commands |-> Idle]
  BY DEF Init, InitFrom
<1>2. BookInv
  BY <1>1, BookAssumption, ProjectionsAssumption DEF BookInv, stages
<1>3. CommandInv
  BY <1>1 DEF CommandInv, Idle
<1>4. MergeInv
  <2>1. db.mentions = <<>>
    BY <1>1, BookAssumption
  <2>2. db.mentions \in Seq(MentionRow) /\ DOMAIN db.mentions = {}
    BY <2>1
  <2>3. \A c \in Commands : cmd[c].op # "resolve"
    BY <1>1 DEF Idle
  <2> QED
    BY <2>2, <2>3 DEF MergeInv
<1>5. LinkInv /\ MergesAudited
  BY <1>1, BookAssumption DEF LinkInv, MergesAudited
<1> QED
  BY <1>2, <1>3, <1>4, <1>5 DEF BookSafe

\* Every step that changes the book keeps it safe, and the others leave it alone.
LEMMA BookKeeps ==
  ASSUME BookSafe, [Next]_qvars
  PROVE  BookSafe'
<1>1. Known(db)
  BY DEF BookSafe, BookInv, MergeInv, Known
<1>2. ASSUME UNCHANGED pvars PROVE BookSafe'
  <2>1. db' = db /\ stage' = stage /\ cmd' = cmd
    BY <1>2 DEF pvars
  <2> QED
    BY <2>1 DEF BookSafe, BookInv, CommandInv, MergeInv, LinkInv, MergesAudited, Planned, Item
<1>3. CASE ChangeBook
  BY <1>1, <1>3, BookStays, MergesStay, LinksStay DEF BookSafe, ChangeBook
<1>4. CASE Resummarise
  BY <1>2, <1>4 DEF Resummarise
<1>5. CASE \E x \in Readers : Answering(x)
  BY <1>2, <1>5 DEF Answering, Ask, LookUp, ReadRows, ReadEvidence, Store, ModelFails, Reply
<1>6. CASE UNCHANGED qvars
  BY <1>2, <1>6 DEF qvars
<1> QED
  BY <1>3, <1>4, <1>5, <1>6 DEF Next

\* Whatever the commands do and wherever they die, the tables of the book fit
\* together.
THEOREM BookSafety == Spec => []BookSafe
<1>1. Init(Book) => BookSafe
  BY BookStarts
<1>2. BookSafe /\ [Next]_qvars => BookSafe'
  BY BookKeeps
<1> QED
  BY <1>1, <1>2, PTL DEF Spec

\* Every merge of a mention into another entity that queries can see is on record.
THEOREM MergesOnRecord == Spec => []MergesAudited
<1>1. BookSafe => MergesAudited
  BY DEF BookSafe
<1> QED
  BY <1>1, BookSafety, PTL

\* A step that changes what the served run says leads to what is an activation, or
\* is taken while its links are written.
LEMMA LinksKeep ==
  ASSUME BookSafe, [Next]_qvars, db'.active = db.active,
         ~\E c \in Commands : cmd[c].op = "link" /\ cmd[c].run = db.active, NEW v
  PROVE  CausalPaths(db', v, Null, Null, 3) = CausalPaths(db, v, Null, Null, 3)
<1>1. Known(db)
  BY DEF BookSafe, BookInv, MergeInv, Known
<1>2. CASE Change
  BY <1>1, <1>2, PathsStand DEF BookSafe
<1>3. CASE UNCHANGED pvars
  BY <1>3 DEF pvars
<1> QED
  BY <1>2, <1>3 DEF Next, ChangeBook, Resummarise, Answering, Ask, LookUp, ReadRows,
                    ReadEvidence, Store, ModelFails, Reply, qvars

\* However the events of other runs are linked and verified over the same shared
\* rows, what the served run says leads to what stands.
THEOREM LinksOfTheServed == Spec => LinksStand
<1>1. BookSafe /\ [Next]_qvars
        => [\/ db'.active # db.active
            \/ \E c \in Commands : cmd[c].op = "link" /\ cmd[c].run = db.active
            \/ \A x \in Range(db.claims) :
                   CausalPaths(db, x.v, Null, Null, 3)' = CausalPaths(db, x.v, Null, Null, 3)]_qvars
  <2> SUFFICES ASSUME BookSafe, [Next]_qvars, db'.active = db.active,
                      ~\E c \in Commands : cmd[c].op = "link" /\ cmd[c].run = db.active,
                      NEW x \in Range(db.claims)
               PROVE  CausalPaths(db', x.v, Null, Null, 3) = CausalPaths(db, x.v, Null, Null, 3)
    OBVIOUS
  <2> QED
    BY LinksKeep
<1> QED
  BY <1>1, BookSafety, PTL DEF Spec, LinksStand

\* A question goes on alone.
LEMMA GoSteps ==
  ASSUME ReaderInv, NEW x \in Readers, NEW now, DOMAIN now = Fields, Go(x, now)
  PROVE  /\ reader'[x] = now /\ \A y \in Readers : y # x => reader'[y] = reader[y]
         /\ DOMAIN reader' = Readers /\ \A y \in Readers : DOMAIN reader'[y] = Fields
BY DEF ReaderInv, Go

\* What a step of a request may do: begin, go on and learn what is served now or
\* what is cached under its key, or end.
Begins(x) == /\ reader'[x].key.run = db.active /\ reader'[x].during = {db.active}
             /\ reader'[x].read = {} /\ db.active \in Runs
GoesOn(x) == /\ Asking(x)
             /\ reader'[x].key = reader[x].key /\ reader'[x].during = reader[x].during
             /\ \/ reader'[x].read \subseteq reader[x].read \cup {db.active}
                \/ /\ reader[x].key \in DOMAIN cache
                   /\ reader'[x].read = cache[reader[x].key].read
Ends(x) == reader'[x].step = "rest"

\* What the steps of a reader change and leave alone.
LEMMA AnsweringSteps ==
  ASSUME BookInv, ReaderInv, NEW x \in Readers, Answering(x)
  PROVE  /\ \A y \in Readers : y # x => reader'[y] = reader[y]
         /\ DOMAIN reader' = Readers /\ \A y \in Readers : DOMAIN reader'[y] = Fields
         /\ Begins(x) \/ GoesOn(x) \/ Ends(x)
         /\ \/ cache' = cache
            \/ \E row : /\ cache' = Put(cache, reader[x].key, row) /\ Asking(x)
                        /\ row.read = reader[x].read
         /\ UNCHANGED <<db, stage>>
<1>1. DOMAIN reader[x] = Fields /\ DOMAIN Resting = Fields
  BY DEF ReaderInv, Resting, Fields
<1>2. CASE Ask(x)
  <2>1. PICK q \in Questions, cut \in Cutoffs, at \in Worlds :
          Go(x, [Resting EXCEPT !.step = "look", !.key = Key(q, cut, at), !.during = {db.active}])
    BY <1>2 DEF Ask
  <2> DEFINE now == [Resting EXCEPT !.step = "look", !.key = Key(q, cut, at), !.during = {db.active}]
  <2>2. now.key = Key(q, cut, at) /\ now.during = {db.active} /\ now.read = {}
        /\ DOMAIN now = Fields
    BY <1>1 DEF Resting, Fields
  <2>3. now.key.run = db.active
    BY <2>2 DEF Key
  <2>4. Go(x, now)
    BY <2>1
  <2> HIDE DEF now
  <2>5. db.active \in Runs /\ UNCHANGED <<db, stage, cache>>
    BY <1>2 DEF Ask, pvars, BookInv
  <2> QED
    BY <2>2, <2>3, <2>4, <2>5, GoSteps DEF Begins
<1>3. CASE LookUp(x)
  <2>1. Asking(x) /\ UNCHANGED <<db, stage, cache>>
    BY <1>3 DEF LookUp, Asking, On, pvars
  <2>2. CASE reader[x].key \in DOMAIN cache
    <3> DEFINE hit == cache[reader[x].key]
    <3> DEFINE now == [reader[x] EXCEPT !.step = "answered", !.rows = hit.rows,
                                        !.sources = hit.sources, !.read = hit.read]
    <3>1. Go(x, now)
      BY <1>3, <2>2, Zenon DEF LookUp
    <3> HIDE DEF hit
    <3>2. now.key = reader[x].key /\ now.during = reader[x].during /\ now.read = hit.read
          /\ DOMAIN now = Fields
      BY <1>1 DEF Fields
    <3> HIDE DEF now
    <3> QED
      BY <2>1, <2>2, <3>1, <3>2, GoSteps DEF GoesOn, hit
  <2>3. CASE reader[x].key \notin DOMAIN cache
    <3> DEFINE now == [reader[x] EXCEPT !.step = "rows"]
    <3>1. Go(x, now)
      BY <1>3, <2>3, Zenon DEF LookUp
    <3>2. now.key = reader[x].key /\ now.during = reader[x].during /\ now.read = reader[x].read
          /\ DOMAIN now = Fields
      BY <1>1 DEF Fields
    <3> HIDE DEF now
    <3> QED
      BY <2>1, <3>1, <3>2, GoSteps DEF GoesOn
  <2> QED
    BY <2>2, <2>3
<1>4. CASE ReadRows(x)
  <2> DEFINE rows == Execute(db, summaries, reader[x].key.q, reader[x].key.cut, reader[x].key.at)
             now == [reader[x] EXCEPT !.step = "evidence", !.read = {db.active}, !.rows = rows]
  <2>1. Go(x, now)
    BY <1>4, Zenon DEF ReadRows
  <2> HIDE DEF rows
  <2>2. now.key = reader[x].key /\ now.during = reader[x].during /\ now.read = {db.active}
        /\ DOMAIN now = Fields
    BY <1>1 DEF Fields
  <2> HIDE DEF now
  <2>3. Asking(x) /\ UNCHANGED <<db, stage, cache>>
    BY <1>4 DEF ReadRows, Asking, On, pvars
  <2> QED
    BY <2>1, <2>2, <2>3, GoSteps DEF GoesOn
<1>5. CASE ReadEvidence(x)
  <2> DEFINE found == UNION {EvidenceFor(db, db.active, r.claim) : r \in reader[x].rows}
             now == [reader[x] EXCEPT !.step = "store", !.read = reader[x].read \cup {db.active},
                                      !.sources = found]
  <2>1. Go(x, now)
    BY <1>5, Zenon DEF ReadEvidence
  <2> HIDE DEF found
  <2>2. now.key = reader[x].key /\ now.during = reader[x].during
        /\ now.read = reader[x].read \cup {db.active} /\ DOMAIN now = Fields
    BY <1>1 DEF Fields
  <2> HIDE DEF now
  <2>3. Asking(x) /\ UNCHANGED <<db, stage, cache>>
    BY <1>5 DEF ReadEvidence, Asking, On, pvars
  <2> QED
    BY <2>1, <2>2, <2>3, GoSteps DEF GoesOn
<1>6. CASE Store(x)
  <2>1. PICK said :
          /\ cache' = Put(cache, reader[x].key,
                          [rows |-> said, read |-> reader[x].read,
                           sources |-> IF said = {} THEN {} ELSE reader[x].sources])
          /\ Go(x, [reader[x] EXCEPT !.step = "answered", !.rows = said,
                                     !.sources = cache'[reader[x].key].sources])
    BY <1>6, Zenon DEF Store
  <2> DEFINE shown == cache'[reader[x].key].sources
             now == [reader[x] EXCEPT !.step = "answered", !.rows = said, !.sources = shown]
             row == [rows |-> said, read |-> reader[x].read,
                     sources |-> IF said = {} THEN {} ELSE reader[x].sources]
  <2>2. Go(x, now) /\ cache' = Put(cache, reader[x].key, row) /\ row.read = reader[x].read
    BY <2>1, Zenon
  <2> HIDE DEF shown, row
  <2>3. now.key = reader[x].key /\ now.during = reader[x].during /\ now.read = reader[x].read
        /\ DOMAIN now = Fields
    BY <1>1 DEF Fields
  <2> HIDE DEF now
  <2>4. Asking(x) /\ UNCHANGED <<db, stage>>
    BY <1>6 DEF Store, Asking, On, pvars
  <2> QED
    BY <2>2, <2>3, <2>4, GoSteps DEF GoesOn
<1>7. CASE ModelFails(x) \/ Reply(x)
  <2>1. Go(x, Resting) /\ UNCHANGED <<db, stage, cache>> /\ Resting.step = "rest"
    BY <1>7 DEF ModelFails, Reply, pvars, Resting
  <2> QED
    BY <1>1, <2>1, GoSteps DEF Ends
<1> QED
  BY <1>2, <1>3, <1>4, <1>5, <1>6, <1>7 DEF Answering

\* What is seen by the questions under way, and what is cached, after a change.
LEMMA ChangeIsSeen ==
  ASSUME BookSafe, ReaderInv, CacheInv, ChangeBook
  PROVE  ReaderInv' /\ CacheInv'
<1>1. Known(db)
  BY DEF BookSafe, BookInv, MergeInv, Known
<1>2. /\ \A r : Served(r) => Served(r)'
      /\ \/ db'.active = db.active
         \/ \E r \in Runs : db'.active = r /\ ~Served(r)
  BY <1>1, ServedChanges DEF BookSafe, ChangeBook
<1>3. cache' = cache
      /\ reader' = [x \in Readers |-> IF On(x, "rest") THEN reader[x]
                      ELSE [reader[x] EXCEPT !.during = reader[x].during \cup {db'.active}]]
  BY Zenon DEF ChangeBook
<1>4. ASSUME NEW x \in Readers, Asking(x)
      PROVE  /\ reader'[x].step = reader[x].step /\ reader'[x].key = reader[x].key
             /\ reader'[x].read = reader[x].read /\ DOMAIN reader'[x] = Fields
             /\ reader'[x].during = reader[x].during \cup {db'.active}
  <2> DEFINE seen == reader[x].during \cup {db'.active}
  <2>1. reader'[x] = [reader[x] EXCEPT !.during = seen]
    BY <1>3, <1>4, Zenon DEF Asking
  <2>2. DOMAIN reader[x] = Fields
    BY DEF ReaderInv
  <2> HIDE DEF seen
  <2>3. /\ reader'[x].step = reader[x].step /\ reader'[x].key = reader[x].key
        /\ reader'[x].read = reader[x].read /\ DOMAIN reader'[x] = Fields
        /\ reader'[x].during = seen
    BY <2>1, <2>2 DEF Fields
  <2> QED
    BY <2>3 DEF seen
<1>5. ASSUME NEW x \in Readers, ~Asking(x) PROVE reader'[x] = reader[x]
  BY <1>3, <1>5 DEF Asking
<1>6. DOMAIN reader' = Readers /\ \A x \in Readers : DOMAIN reader'[x] = Fields
  BY <1>3, <1>4, <1>5 DEF ReaderInv
<1>7. \A x \in Readers : Asking(x)' <=> Asking(x)
  BY <1>4, <1>5 DEF Asking, On
<1>8. ASSUME NEW x \in Readers, Asking(x)'
      PROVE  /\ Served(reader[x].key.run)'
             /\ db'.active \in reader'[x].during
             /\ reader'[x].key.run = db'.active => reader'[x].during = {db'.active}
             /\ reader'[x].read \subseteq reader'[x].during
  <2>1. Asking(x)
    BY <1>7, <1>8
  <2> QED
    BY <1>2, <1>4, <2>1 DEF ReaderInv
<1>9. ASSUME NEW x \in Readers, NEW y \in Readers, Asking(x)', Asking(y)',
             reader'[x].key.run = reader'[y].key.run
      PROVE  reader'[x].during = reader'[y].during
  <2>1. Asking(x) /\ Asking(y)
    BY <1>7, <1>9
  <2>2. reader'[x].key = reader[x].key /\ reader'[y].key = reader[y].key
    BY <1>4, <2>1
  <2>3. reader[x].during = reader[y].during
    BY <1>9, <2>1, <2>2 DEF ReaderInv
  <2> QED
    BY <1>4, <2>1, <2>3
<1>10. ReaderInv'
  BY <1>4, <1>6, <1>7, <1>8, <1>9 DEF ReaderInv
<1>11. CacheInv'
  BY <1>2, <1>3, <1>4, <1>7 DEF CacheInv
<1> QED
  BY <1>10, <1>11

\* What a step of a request makes of the other requests and of the cache.
LEMMA RequestKeeps ==
  ASSUME BookSafe, ReaderInv, CacheInv, NEW x \in Readers, Answering(x)
  PROVE  ReaderInv' /\ CacheInv'
<1>1. /\ \A y \in Readers : y # x => reader'[y] = reader[y]
      /\ DOMAIN reader' = Readers /\ \A y \in Readers : DOMAIN reader'[y] = Fields
      /\ Begins(x) \/ GoesOn(x) \/ Ends(x)
      /\ \/ cache' = cache
         \/ \E row : /\ cache' = Put(cache, reader[x].key, row) /\ Asking(x)
                     /\ row.read = reader[x].read
      /\ db' = db /\ stage' = stage
  BY AnsweringSteps DEF BookSafe
<1>2. \A r : Served(r)' <=> Served(r)
  BY <1>1 DEF Served
<1>3. \A y \in Readers : y # x => (Asking(y)' <=> Asking(y))
  BY <1>1 DEF Asking, On
<1>4. ASSUME Asking(x)'
      PROVE  /\ Served(reader[x].key.run)'
             /\ db'.active \in reader'[x].during
             /\ reader'[x].key.run = db'.active => reader'[x].during = {db'.active}
             /\ reader'[x].read \subseteq reader'[x].during
  <2>1. ~Ends(x)
    BY <1>4 DEF Ends, Asking, On
  <2>2. CASE Begins(x)
    BY <1>1, <1>2, <2>2 DEF Begins, BookSafe, BookInv, Served
  <2>3. CASE GoesOn(x)
    BY <1>1, <1>2, <2>3 DEF GoesOn, ReaderInv, CacheInv
  <2> QED
    BY <1>1, <2>1, <2>2, <2>3
<1>5. ASSUME NEW y \in Readers, Asking(x)', Asking(y)',
             reader'[x].key.run = reader'[y].key.run
      PROVE  reader'[x].during = reader'[y].during
  <2>1. ~Ends(x)
    BY <1>5 DEF Ends, Asking, On
  <2>2. CASE Begins(x)
    BY <1>1, <1>3, <1>5, <2>2 DEF Begins, ReaderInv
  <2>3. CASE GoesOn(x)
    BY <1>1, <1>3, <1>5, <2>3 DEF GoesOn, ReaderInv
  <2> QED
    BY <1>1, <2>1, <2>2, <2>3
<1>6. ReaderInv'
  <2>1. ASSUME NEW y \in Readers, Asking(y)'
        PROVE  /\ Served(reader[y].key.run)'
               /\ db'.active \in reader'[y].during
               /\ reader'[y].key.run = db'.active => reader'[y].during = {db'.active}
               /\ reader'[y].read \subseteq reader'[y].during
    BY <1>1, <1>2, <1>3, <1>4, <2>1 DEF ReaderInv
  <2>2. ASSUME NEW y \in Readers, NEW z \in Readers, Asking(y)', Asking(z)',
               reader'[y].key.run = reader'[z].key.run
        PROVE  reader'[y].during = reader'[z].during
    BY <1>1, <1>3, <1>5, <2>2 DEF ReaderInv
  <2> QED
    BY <1>1, <2>1, <2>2 DEF ReaderInv
<1>7. ASSUME NEW k \in DOMAIN cache, cache'[k] = cache[k]
      PROVE  /\ Served(k.run)'
             /\ k.run = db'.active => cache'[k].read \subseteq {db'.active}
             /\ \A y \in Readers : Asking(y)' /\ reader'[y].key.run = k.run
                                     => cache'[k].read \subseteq reader'[y].during
  <2>1. Served(k.run)' /\ (k.run = db'.active => cache'[k].read \subseteq {db'.active})
    BY <1>1, <1>2, <1>7 DEF CacheInv
  <2>2. ASSUME NEW y \in Readers, Asking(y)', reader'[y].key.run = k.run
        PROVE  cache[k].read \subseteq reader'[y].during
    <3>1. CASE y # x
      BY <1>1, <1>3, <2>2, <3>1 DEF CacheInv
    <3>2. CASE y = x /\ Begins(x)
      BY <1>1, <2>2, <3>2 DEF Begins, CacheInv
    <3>3. CASE y = x /\ GoesOn(x)
      BY <1>1, <2>2, <3>3 DEF GoesOn, CacheInv
    <3>4. CASE y = x /\ Ends(x)
      BY <2>2, <3>4 DEF Ends, Asking, On
    <3> QED
      BY <1>1, <3>1, <3>2, <3>3, <3>4
  <2> QED
    BY <1>7, <2>1, <2>2
<1>8. ASSUME NEW row, cache' = Put(cache, reader[x].key, row), Asking(x),
             row.read = reader[x].read
      PROVE  CacheInv'
  <2>0. PICK k : k = reader[x].key
    OBVIOUS
  <2>1. DOMAIN cache' = DOMAIN cache \cup {k} /\ cache'[k] = row
        /\ \A j \in DOMAIN cache : j # k => cache'[j] = cache[j]
    BY <1>8, <2>0 DEF Put
  <2>2. /\ Served(k.run)'
        /\ k.run = db'.active => cache'[k].read \subseteq {db'.active}
    <3>1. /\ Served(k.run) /\ reader[x].read \subseteq reader[x].during
          /\ k.run = db.active => reader[x].during = {db.active}
      BY <1>8, <2>0 DEF ReaderInv
    <3> QED
      BY <1>1, <1>2, <1>8, <2>1, <3>1
  <2>3. ASSUME NEW y \in Readers, Asking(y)', reader'[y].key.run = k.run
        PROVE  cache'[k].read \subseteq reader'[y].during
    <3>1. CASE y # x
      BY <1>1, <1>3, <1>8, <2>0, <2>1, <2>3, <3>1 DEF ReaderInv
    <3>2. CASE y = x /\ Begins(x)
      <4>1. k.run = db.active
        BY <2>3, <3>2 DEF Begins
      <4>2. reader[x].during = {db.active} /\ reader[x].read \subseteq reader[x].during
        BY <1>8, <2>0, <4>1 DEF ReaderInv
      <4> QED
        BY <1>8, <2>1, <3>2, <4>2 DEF Begins
    <3>3. CASE y = x /\ GoesOn(x)
      BY <1>1, <1>8, <2>0, <2>1, <3>3 DEF GoesOn, ReaderInv
    <3>4. CASE y = x /\ Ends(x)
      BY <2>3, <3>4 DEF Ends, Asking, On
    <3> QED
      BY <1>1, <3>1, <3>2, <3>3, <3>4
  <2>4. ASSUME NEW j \in DOMAIN cache'
        PROVE  /\ Served(j.run)'
               /\ j.run = db'.active => cache'[j].read \subseteq {db'.active}
               /\ \A y \in Readers : Asking(y)' /\ reader'[y].key.run = j.run
                                       => cache'[j].read \subseteq reader'[y].during
    <3>1. CASE j = k
      BY <2>2, <2>3, <3>1
    <3>2. CASE j # k
      <4>1. j \in DOMAIN cache /\ cache'[j] = cache[j]
        BY <2>1, <3>2
      <4> QED
        BY <1>7, <4>1
    <3> QED
      BY <3>1, <3>2
  <2> QED
    BY <2>4, Zenon DEF CacheInv
<1>9. ASSUME cache' = cache PROVE CacheInv'
  <2>1. \A j \in DOMAIN cache' : j \in DOMAIN cache /\ cache'[j] = cache[j]
    BY <1>9
  <2>2. ASSUME NEW j \in DOMAIN cache'
        PROVE  /\ Served(j.run)'
               /\ j.run = db'.active => cache'[j].read \subseteq {db'.active}
               /\ \A y \in Readers : Asking(y)' /\ reader'[y].key.run = j.run
                                       => cache'[j].read \subseteq reader'[y].during
    <3>1. j \in DOMAIN cache /\ cache'[j] = cache[j]
      BY <2>1
    <3> QED
      BY <1>7, <3>1
  <2> QED
    BY <2>2, Zenon DEF CacheInv
<1> QED
  BY <1>1, <1>6, <1>8, <1>9

AnswersSafe == BookSafe /\ ReaderInv /\ CacheInv

\* Questions under way, and what is cached, know the runs they were answered from.
THEOREM AnswersSafety == Spec => []AnswersSafe
<1>1. ASSUME Init(Book) PROVE AnswersSafe
  <2>1. reader = [x \in Readers |-> Resting] /\ cache = <<>>
    BY <1>1 DEF Init
  <2>2. ReaderInv
    BY <2>1 DEF ReaderInv, Asking, On, Resting, Fields
  <2>3. CacheInv
    <3>1. DOMAIN cache = {}
      BY <2>1
    <3> QED
      BY <3>1 DEF CacheInv
  <2> QED
    BY <1>1, <2>2, <2>3, BookStarts DEF AnswersSafe
<1>2. ASSUME AnswersSafe, [Next]_qvars PROVE AnswersSafe'
  <2>1. BookSafe'
    BY <1>2, BookKeeps DEF AnswersSafe
  <2>2. CASE ChangeBook
    BY <1>2, <2>1, <2>2, ChangeIsSeen DEF AnswersSafe
  <2>3. CASE \E x \in Readers : Answering(x)
    BY <1>2, <2>1, <2>3, RequestKeeps DEF AnswersSafe
  <2>4. CASE Resummarise \/ UNCHANGED qvars
    <3>1. db' = db /\ stage' = stage /\ cache' = cache /\ reader' = reader
      BY <2>4 DEF Resummarise, qvars, pvars
    <3>2. ReaderInv' /\ CacheInv'
      BY <1>2, <3>1 DEF AnswersSafe, ReaderInv, CacheInv, Asking, On, Served
    <3> QED
      BY <2>1, <3>2 DEF AnswersSafe
  <2> QED
    BY <1>2, <2>2, <2>3, <2>4 DEF Next
<1> QED
  BY <1>1, <1>2, PTL DEF Spec

\* An answer, from the cache too, was read from runs that were active at some time
\* between the question and the answer.
THEOREM AnswersAreOfTheirTime == Spec => []AnswersOfTheirTime
<1>1. AnswersSafe => AnswersOfTheirTime
  BY DEF AnswersSafe, ReaderInv, AnswersOfTheirTime, Asking, On
<1> QED
  BY <1>1, AnswersSafety, PTL
-----------------------------------------------------------------------------
(* What later chapters say stays behind the cutoff *)

\* The chapters a link is seen in, and the one that discloses it.
SeenIn(r, x) == {e.chapter : e \in EvidenceFor(db, r, x.src.v) \cup EvidenceFor(db, r, x.tgt.v)}
OrdOf(r, x) == IF SeenIn(r, x) = {} THEN x.tgt.ord ELSE Max(SeenIn(r, x))

\* A link that is new is the one of the item at hand.
LEMMA LinkRows ==
  ASSUME DOMAIN db = Tables, NEW c, WriteLink(c), NEW l \in db'.links, l \notin db.links
  PROVE  /\ l.src = Item(c).src.v /\ l.tgt = Item(c).tgt.v
         /\ l.ord = OrdOf(cmd[c].run, Item(c))
<1> DEFINE x == Item(c)
           r == cmd[c].run
           v == <<x.src.v, x.type, x.tgt.v>>
           o == OrdOf(r, x)
           row == [v |-> v, src |-> x.src.v, tgt |-> x.tgt.v, type |-> x.type, conf |-> x.conf,
                   ord |-> o, world |-> [kind |-> "chapter_proxy", from |-> o, to |-> Null]]
           new == \A k \in db.links : k.v # v
           verdict == [status |-> IF Told(x) = 0 THEN "unverified" ELSE "supported", at |-> Told(x)]
           ver == Put(db.verified, <<v, r>>, verdict)
           lnd == db.linked \cup {<<v, r>>}
           judged == [db EXCEPT !.verified = ver, !.linked = lnd]
           lks == IF new THEN db.links \cup {row} ELSE db.links
<1>1. \E p : db' = [judged EXCEPT !.links = IF new THEN @ \cup {row} ELSE @, !.primary = p]
  BY Zenon DEF WriteLink, Record, OrdOf, SeenIn
<1>2. row.src = x.src.v /\ row.tgt = x.tgt.v /\ row.ord = o
  OBVIOUS
<1> HIDE DEF x, r, v, o, row, verdict, ver, lnd, new
<1>3. DOMAIN judged = Tables /\ judged.links = db.links
  BY Zenon DEF Tables
<1>4. PICK p : db' = [judged EXCEPT !.links = lks, !.primary = p]
  BY <1>1, <1>3, Zenon
<1> HIDE DEF lks
<1>5. db'.links = lks
  BY <1>4, Zenon DEF Tables
<1>6. l = row
  BY <1>5 DEF lks
<1> QED
  BY <1>2, <1>6 DEF x, r, o

\* A version is one row of the claims, disclosed by a chapter.
LEMMA OneRow ==
  ASSUME CutoffInv
  PROVE  /\ \A a, b \in Range(db.claims) : a.v = b.v => a = b
         /\ \A a \in Range(db.claims) : a.ord \in Nat
         /\ \A a \in Range(db.claims), e \in db.evidence :
                a.type = "event" /\ a.v = e.claim => e.chapter = a.ord
<1>1. db.claims = Book.claims /\ db.evidence = Book.evidence
  BY DEF CutoffInv
<1>2. \A a \in Range(db.claims) : \E i \in DOMAIN Book.claims : a = Book.claims[i]
  BY <1>1 DEF Range
<1> QED
  BY <1>1, <1>2, BookAssumption

\* The chapter of a link is the one of its later event.
LEMMA LinkOrd ==
  ASSUME CutoffInv, NEW r, NEW x, {x.src, x.tgt} \subseteq {k \in Range(db.claims) : k.type = "event"},
         x.src.ord < x.tgt.ord, EvidenceFor(db, r, x.tgt.v) # {}
  PROVE  OrdOf(r, x) = x.tgt.ord /\ x.src.ord \in Nat /\ x.tgt.ord \in Nat
<1> DEFINE S == SeenIn(r, x)
           s == x.src.ord
           t == x.tgt.ord
<1>1. s \in Nat /\ t \in Nat
  BY OneRow
<1>2. \A e \in EvidenceFor(db, r, x.src.v) : e \in db.evidence /\ e.chapter = s
  BY OneRow DEF EvidenceFor
<1>3. \A e \in EvidenceFor(db, r, x.tgt.v) : e \in db.evidence /\ e.chapter = t
  BY OneRow DEF EvidenceFor
<1>4. t \in S /\ S \subseteq {s, t}
  BY <1>2, <1>3 DEF SeenIn
<1> HIDE DEF S
<1>5. Max(S) = t
  <2>1. \A m \in S : (\A n \in S : m >= n) <=> m = t
    BY <1>1, <1>4
  <2> QED
    BY <1>4, <2>1 DEF Max
<1> QED
  BY <1>1, <1>4, <1>5 DEF OrdOf, S

\* A link that is planned is written with the chapter of its later event.
LEMMA LinkIsLate ==
  ASSUME DOMAIN db = Tables, CutoffInv, NEW c, Linkable(c), WriteLink(c), NEW l \in db'.links
  PROVE  LateEnough(l)
<1>1. CASE l \in db.links
  BY <1>1 DEF CutoffInv
<1>2. CASE l \notin db.links
  <2> DEFINE x == Item(c)
  <2>1. x \in Range(cmd[c].plan)
    <3> DEFINE p == cmd[c].plan
    <3>1. p \in Seq(Range(p)) /\ p # <<>>
      BY DEF Linkable
    <3> HIDE DEF p
    <3>2. Head(p) \in Range(p)
      BY <3>1
    <3> QED
      BY <3>2 DEF Item, p
  <2>2. /\ {x.src, x.tgt} \subseteq {k \in Range(db.claims) : k.type = "event"}
        /\ x.src.ord < x.tgt.ord
        /\ EvidenceFor(db, cmd[c].run, x.tgt.v) # {}
    BY <2>1 DEF Linkable
  <2>3. l.src = x.src.v /\ l.tgt = x.tgt.v /\ l.ord = OrdOf(cmd[c].run, x)
    BY <1>2, LinkRows
  <2> HIDE DEF x
  <2>4. l.ord = x.tgt.ord /\ x.src.ord \in Nat /\ x.tgt.ord \in Nat
    BY <2>2, <2>3, LinkOrd
  <2>5. ASSUME NEW i \in DOMAIN db.claims, db.claims[i].v \in {l.src, l.tgt}
        PROVE  db.claims[i].ord <= l.ord
    <3>1. db.claims[i] \in Range(db.claims)
      BY DEF Range
    <3>2. db.claims[i] = x.src \/ db.claims[i] = x.tgt
      BY <2>2, <2>3, <2>5, <3>1, OneRow
    <3> QED
      BY <2>2, <2>4, <3>2
  <2> QED
    BY <2>4, <2>5 DEF LateEnough
<1> QED
  BY <1>1, <1>2

\* A plan stays linkable: the claims and their evidence do not change.
LEMMA LinkableStays ==
  ASSUME NEW c, Linkable(c), db'.claims = db.claims, db'.evidence = db.evidence,
         cmd'[c].run = cmd[c].run,
         \/ cmd'[c].plan = cmd[c].plan
         \/ Len(cmd[c].plan) # 1 /\ cmd'[c].plan = Tail(cmd[c].plan)
  PROVE  Linkable(c)'
<1> DEFINE p == cmd[c].plan
           q == cmd'[c].plan
           Fits(x, claims, run) ==
             /\ {x.src, x.tgt} \subseteq {k \in Range(claims) : k.type = "event"}
             /\ x.src.ord < x.tgt.ord
             /\ EvidenceFor(db, run, x.tgt.v) # {}
<1>1. p \in Seq(Range(p)) /\ p # <<>> /\ \A x \in Range(p) : Fits(x, db.claims, cmd[c].run)
  BY DEF Linkable
<1>2. \A run, v : EvidenceFor(db', run, v) = EvidenceFor(db, run, v)
  BY DEF EvidenceFor
<1>3. q \in Seq(Range(q)) /\ q # <<>> /\ Range(q) \subseteq Range(p)
  <2>1. CASE q = p
    BY <1>1, <2>1
  <2>2. CASE Len(p) # 1 /\ q = Tail(p)
    <3> DEFINE S == Range(p)
    <3>1. p \in Seq(S) /\ p # <<>>
      BY <1>1
    <3> HIDE DEF p, S
    <3>2. Tail(p) \in Seq(S) /\ Len(Tail(p)) = Len(p) - 1 /\ Len(p) \in Nat /\ Len(p) # 0
      BY <3>1
    <3>3. Tail(p) \in Seq(Range(Tail(p))) /\ Range(Tail(p)) \subseteq S
      BY <3>2, SeqOfRange, RangeOfSeq
    <3>4. Tail(p) # <<>>
      <4>1. Tail(p) = <<>> => Len(Tail(p)) = 0
        BY <3>2, EmptySeq
      <4>2. ASSUME NEW k \in Nat, NEW j, j = k - 1, j = 0 PROVE k = 1
        BY <4>2
      <4> QED
        BY <2>2, <3>2, <4>1, <4>2, Zenon
    <3> QED
      BY <2>2, <3>3, <3>4 DEF S
  <2> QED
    BY <2>1, <2>2
<1>4. \A x \in Range(q) : Fits(x, db.claims, cmd[c].run)
  BY <1>1, <1>3
<1> HIDE DEF p
<1> QED
  BY <1>2, <1>3, <1>4 DEF Linkable

\* The pairs of events that a link starts from are finitely many.
LEMMA CandidatesAreFinite ==
  ASSUME CutoffInv, NEW r
  PROVE  IsFiniteSet(Candidates(db, r))
<1> DEFINE E == Events(db, r)
           pairs == {p \in E \X E : /\ Cast(db, p[1]) \cap Cast(db, p[2]) # {}
                                    /\ p[1].ord < p[2].ord /\ p[2].ord - p[1].ord <= MaxGap}
           D == DOMAIN db.claims
           R == Range(db.claims)
<1>1. IsFiniteSet(D)
  BY BookAssumption DEF CutoffInv
<1>2. IsFiniteSet(R)
  <2>1. [i \in D |-> db.claims[i]] \in Surjection(D, R)
    BY DEF Surjection, Range
  <2> QED
    BY <1>1, <2>1, FS_Surjection
<1>3. E \subseteq R
  BY DEF Events
<1>4. IsFiniteSet(E \X E)
  <2>1. IsFiniteSet(E)
    BY <1>2, <1>3, FS_Subset
  <2> HIDE DEF E
  <2> QED
    BY <2>1, FS_Product
<1>5. IsFiniteSet(pairs)
  <2>1. pairs \subseteq E \X E
    BY Zenon
  <2> HIDE DEF pairs, E
  <2> QED
    BY <1>4, <2>1, FS_Subset
<1> DEFINE Linked(s, t, conf) ==
             [src |-> s, tgt |-> t, type |-> IF conf = 8 THEN "causes" ELSE "enables",
              conf |-> conf, rank |-> <<0 - conf, s.ord, t.ord>>]
           Here(s, t) == s.place # Null /\ s.place = t.place
           f == [p \in pairs |-> Linked(p[1], p[2], IF Here(p[1], p[2]) THEN 8 ELSE 6)]
<1>6. Candidates(db, r) = {Linked(p[1], p[2], IF Here(p[1], p[2]) THEN 8 ELSE 6) : p \in pairs}
  BY Zenon DEF Candidates
<1> HIDE DEF pairs, Linked, Here
<1>7. f \in Surjection(pairs, Candidates(db, r))
  BY <1>6 DEF Surjection
<1> QED
  BY <1>5, <1>7, FS_Surjection

\* A candidate pairs an event with a later one, both with evidence of the run.
LEMMA CandidateFits ==
  ASSUME NEW r, NEW x \in Candidates(db, r)
  PROVE  /\ {x.src, x.tgt} \subseteq {k \in Range(db.claims) : k.type = "event"}
         /\ x.src.ord < x.tgt.ord
         /\ EvidenceFor(db, r, x.tgt.v) # {}
<1>1. PICK p \in Events(db, r) \X Events(db, r) :
        p[1].ord < p[2].ord /\ x.src = p[1] /\ x.tgt = p[2]
  BY DEF Candidates
<1>2. \A k \in Events(db, r) : /\ k \in Range(db.claims) /\ k.type = "event"
                               /\ EvidenceFor(db, r, k.v) # {}
  BY Zenon DEF Events, Supported
<1> QED
  BY <1>1, <1>2

\* A link starts with a plan of candidates, or has nothing to do.
LEMMA LinkPlans ==
  ASSUME CutoffInv, CommandInv, NEW c \in Commands, NEW r, Link(c, r)
  PROVE  cmd'[c].op = "link" => Linkable(c)'
<1>1. PICK plan \in InOrder(Candidates(db, r)) :
        cmd' = [cmd EXCEPT ![c] = IF plan = <<>> THEN Idle
                                  ELSE [op |-> "link", run |-> r, plan |-> plan, step |-> "ensure"]]
  BY DEF Link, Start
<1> DEFINE n == Cardinality(Candidates(db, r))
<1>2. n \in Nat
  BY CandidatesAreFinite, FS_CardinalityType
<1>3. plan \in [1..n -> Candidates(db, r)]
  BY DEF InOrder
<1>4. plan \in Seq(Candidates(db, r))
  BY <1>2, <1>3
<1>5. plan \in Seq(Range(plan)) /\ Range(plan) \subseteq Candidates(db, r)
  BY <1>4, SeqOfRange, RangeOfSeq
<1> DEFINE now == IF plan = <<>> THEN Idle
                  ELSE [op |-> "link", run |-> r, plan |-> plan, step |-> "ensure"]
<1>6. DOMAIN now = {"op", "run", "plan", "step"}
  BY DEF Idle
<1>7. now.op = "link" => now.plan = plan /\ plan # <<>> /\ now.run = r
  BY DEF Idle
<1>8. cmd' = [cmd EXCEPT ![c] = now]
  BY <1>1
<1> HIDE DEF now
<1>9. cmd'[c] = now
  BY <1>6, <1>8, SetSteps
<1>10. db' = db
  BY Zenon DEF Link, Start
<1> SUFFICES ASSUME now.op = "link" PROVE Linkable(c)'
  BY <1>9
<1>11. cmd'[c].plan = plan /\ plan # <<>> /\ cmd'[c].run = r
  BY <1>7, <1>9
<1>12. \A x \in Range(plan) : /\ {x.src, x.tgt} \subseteq {k \in Range(db.claims) : k.type = "event"}
                             /\ x.src.ord < x.tgt.ord
                             /\ EvidenceFor(db, r, x.tgt.v) # {}
  BY <1>5, CandidateFits
<1> QED
  BY <1>5, <1>10, <1>11, <1>12 DEF Linkable

\* What a step of a command does to its own links, written and planned.
LEMMA LinkableMoves ==
  ASSUME BookInv, CommandInv, CutoffInv, NEW c \in Commands, Work(c)
  PROVE  (cmd'[c].op = "link" => Linkable(c)') /\ \A l \in db'.links : LateEnough(l)
<1>1. db'.claims = db.claims /\ db'.evidence = db.evidence
  BY WorkSteps DEF BookInv
<1>2. cmd[c].op = "link" => Linkable(c)
  BY DEF CutoffInv
<1>3. CASE Ensure(c)
  <2>1. cmd[c].op = "resolve" /\ GoTo(c, "audit")
    BY <1>3, Zenon DEF Ensure, Doing
  <2>2. db'.links = db.links
    BY <1>3, EnsureSteps DEF BookInv
  <2> QED
    BY <2>1, <2>2, GoToSteps DEF CutoffInv
<1>4. CASE Audit(c)
  <2>1. cmd[c].op = "resolve" /\ GoTo(c, "project")
    BY <1>4, Zenon DEF Audit, Doing
  <2>2. db'.links = db.links
    BY <1>4, AuditSteps DEF BookInv
  <2> QED
    BY <2>1, <2>2, GoToSteps DEF CutoffInv
<1>5. CASE Project(c)
  <2>1. cmd[c].op = "resolve" /\ GoTo(c, "rewrite")
    BY <1>5, Zenon DEF Project, Doing
  <2>2. db'.links = db.links
    BY <1>5, ProjectSteps DEF BookInv
  <2> QED
    BY <2>1, <2>2, GoToSteps DEF CutoffInv
<1>6. CASE Rewrite(c) \/ Unresolve(c)
  <2>1. cmd[c].op = "resolve" /\ Pop(c)
    BY <1>6, Zenon DEF Rewrite, Unresolve, Doing
  <2>2. db'.links = db.links
    BY <1>6, OtherSteps DEF BookInv
  <2>3. cmd'[c].op # "link"
    BY <2>1, PopSteps DEF Idle
  <2> QED
    BY <2>2, <2>3 DEF CutoffInv
<1>7. CASE WriteLink(c)
  <2>1. cmd[c].op = "link" /\ Pop(c)
    BY <1>7, Zenon DEF WriteLink, Doing
  <2>2. \A l \in db'.links : LateEnough(l)
    BY <1>2, <1>7, <2>1, LinkIsLate DEF BookInv
  <2>3. CASE cmd'[c] = Idle
    BY <2>2, <2>3 DEF Idle
  <2>4. CASE /\ Len(cmd[c].plan) # 1 /\ cmd'[c].run = cmd[c].run
             /\ cmd'[c].plan = Tail(cmd[c].plan)
    BY <1>1, <1>2, <2>1, <2>2, <2>4, LinkableStays
  <2> QED
    BY <2>1, <2>3, <2>4, PopSteps
<1>8. CASE Kill(c)
  <2>1. cmd' = [cmd EXCEPT ![c] = Idle] /\ db' = db
    BY <1>8 DEF Kill
  <2>2. cmd'[c] = Idle
    BY <2>1 DEF CommandInv
  <2> QED
    BY <2>1, <2>2 DEF Idle, CutoffInv
<1> QED
  BY <1>3, <1>4, <1>5, <1>6, <1>7, <1>8 DEF Work

\* What is shown stays tidy, whichever command writes it.
LEMMA TidyMoves ==
  ASSUME BookInv, CutoffInv, NEW c \in Commands, Work(c)
  PROVE  Tidy(db')
<1>1. Tidy(db)
  BY DEF CutoffInv
<1>2. CASE Ensure(c)
  <2> DEFINE new == [name |-> Item(c).surface, importance |-> 0]
             ents == IF Item(c).to \in DOMAIN db.entities THEN db.entities
                     ELSE Put(db.entities, Item(c).to, new)
  <2>1. db' = [db EXCEPT !.entities = ents]
    BY <1>2, Zenon DEF Ensure
  <2>2. DOMAIN new = {"name", "importance"}
    OBVIOUS
  <2> HIDE DEF new
  <2>3. \A e \in DOMAIN ents : DOMAIN ents[e] = {"name", "importance"}
    BY <1>1, <2>2 DEF Put, Tidy
  <2> HIDE DEF ents
  <2>4. db'.entities = ents
    BY <2>1, Zenon DEF BookInv, Tables
  <2>5. db'.aliases = db.aliases /\ db'.resolved = db.resolved
    BY <1>2, EnsureSteps DEF BookInv
  <2> QED
    BY <1>1, <2>3, <2>4, <2>5 DEF Tidy
<1>3. CASE Project(c)
  <2> DEFINE new == [canonical |-> Item(c).to, run |-> cmd[c].run]
  <2>1. /\ db'.resolved = Put(db.resolved, Item(c).m, new)
        /\ db'.entities = db.entities /\ db'.aliases = db.aliases
    BY <1>3, ProjectSteps DEF BookInv
  <2>2. new = [canonical |-> new.canonical, run |-> new.run]
    OBVIOUS
  <2> HIDE DEF new
  <2>3. ASSUME NEW m \in DOMAIN db'.resolved
        PROVE  db'.resolved[m] = [canonical |-> db'.resolved[m].canonical,
                                  run |-> db'.resolved[m].run]
    BY <1>1, <2>1, <2>2 DEF Put, Tidy
  <2> QED
    BY <1>1, <2>1, <2>3 DEF Tidy
<1>4. ASSUME db'.entities = db.entities, db'.aliases = db.aliases, db'.resolved = db.resolved
      PROVE  Tidy(db')
  BY <1>1, <1>4 DEF Tidy
<1>5. CASE Audit(c)
  BY <1>4, <1>5, AuditSteps DEF BookInv
<1>6. CASE Rewrite(c) \/ Unresolve(c)
  BY <1>4, <1>6, OtherSteps DEF BookInv
<1>7. CASE WriteLink(c)
  BY <1>4, <1>7, LinkSteps DEF BookInv
<1>8. CASE Kill(c)
  BY <1>4, <1>8 DEF Kill
<1> QED
  BY <1>2, <1>3, <1>5, <1>6, <1>7, <1>8 DEF Work

\* No change of the book discloses a link before its events.
LEMMA CutoffStays ==
  ASSUME BookInv, Known(db), CommandInv, CutoffInv, Change
  PROVE  CutoffInv'
<1>1. ASSUME NEW c \in Commands, Linkable(c), db'.claims = db.claims, db'.evidence = db.evidence,
             cmd'[c] = cmd[c]
      PROVE  Linkable(c)'
  BY <1>1, LinkableStays
<1>2. ASSUME db'.claims = db.claims, db'.evidence = db.evidence, Tidy(db'),
             \A l \in db'.links : LateEnough(l),
             \A c \in Commands : cmd'[c].op = "link" => Linkable(c)'
      PROVE  CutoffInv'
  BY <1>2 DEF CutoffInv, LateEnough
<1>3. ASSUME cmd' = cmd, db'.claims = db.claims, db'.evidence = db.evidence
      PROVE  \A c \in Commands : cmd'[c].op = "link" => Linkable(c)'
  BY <1>1, <1>3 DEF CutoffInv
<1>4. CASE \E r \in Runs : Align(r)
  <2>1. Grown(db, db') /\ UNCHANGED cmd
    BY <1>4, AlignSteps
  <2> QED
    BY <1>2, <1>3, <2>1 DEF Grown, CutoffInv
<1>5. CASE \E r \in Runs : Activate(r)
  <2>1. /\ db'.claims = db.claims /\ db'.evidence = db.evidence /\ db'.links = db.links
        /\ db'.aliases = db.aliases /\ db'.entities = db.entities
        /\ db'.resolved = db.resolved /\ UNCHANGED cmd
    BY <1>5, ActivateSteps DEF BookInv
  <2>2. Tidy(db')
    BY <2>1 DEF CutoffInv, Tidy
  <2> QED
    BY <1>2, <1>3, <2>1, <2>2 DEF CutoffInv
<1>6. ASSUME NEW c \in Commands, Work(c) PROVE CutoffInv'
  <2>1. db'.claims = db.claims /\ db'.evidence = db.evidence
    BY <1>6, WorkSteps DEF BookInv
  <2>2. (cmd'[c].op = "link" => Linkable(c)') /\ \A l \in db'.links : LateEnough(l)
    BY <1>6, LinkableMoves
  <2>3. \A b \in Commands : b # c => cmd'[b] = cmd[b]
    BY <1>6, OthersStay
  <2>4. ASSUME NEW b \in Commands, cmd'[b].op = "link" PROVE Linkable(b)'
    BY <1>1, <2>1, <2>2, <2>3, <2>4 DEF CutoffInv
  <2> QED
    BY <1>2, <1>6, <2>1, <2>2, <2>4, TidyMoves
<1>7. ASSUME NEW c \in Commands, NEW r \in Runs, Resolve(c, r) \/ Link(c, r)
      PROVE  CutoffInv'
  <2>1. UNCHANGED db /\ \A b \in Commands : b # c => cmd'[b] = cmd[b]
    BY <1>7, StartPlans, LinkStarts
  <2>2. cmd'[c].op = "link" => Linkable(c)'
    <3>1. CASE Link(c, r)
      BY <3>1, LinkPlans
    <3>2. CASE Resolve(c, r)
      <4>1. PICK plan :
              cmd' = [cmd EXCEPT ![c] = IF plan = <<>> THEN Idle
                        ELSE [op |-> "resolve", run |-> r, plan |-> plan, step |-> "ensure"]]
        BY <3>2, Zenon DEF Resolve, Start
      <4> QED
        BY <4>1 DEF CommandInv, Idle
    <3> QED
      BY <1>7, <3>1, <3>2
  <2>3. ASSUME NEW b \in Commands, cmd'[b].op = "link" PROVE Linkable(b)'
    BY <1>1, <2>1, <2>2, <2>3 DEF CutoffInv
  <2> QED
    BY <1>2, <2>1, <2>3 DEF CutoffInv
<1> QED
  BY <1>4, <1>5, <1>6, <1>7, ChangeCases

\* The book, and what of it a cutoff discloses, in every state.
THEOREM CutoffSafety == Spec => [](BookSafe /\ CutoffInv)
<1>1. ASSUME Init(Book) PROVE CutoffInv
  <2>1. db = Book /\ cmd = [c \in Commands |-> Idle]
    BY <1>1 DEF Init, InitFrom
  <2>2. \A c \in Commands : cmd[c].op # "link"
    BY <2>1 DEF Idle
  <2>3. Book.aliases \in Seq(AliasRow)
    BY BookAssumption
  <2>4. Tidy(db)
    BY <2>1, <2>3, BookAssumption DEF Tidy
  <2> QED
    BY <2>1, <2>2, <2>4, BookAssumption DEF CutoffInv
<1>2. ASSUME BookSafe, CutoffInv, [Next]_qvars PROVE CutoffInv'
  <2>1. Known(db)
    BY <1>2 DEF BookSafe, BookInv, MergeInv, Known
  <2>2. CASE Change
    BY <1>2, <2>1, <2>2, CutoffStays DEF BookSafe
  <2>3. CASE UNCHANGED pvars
    <3>1. db' = db /\ cmd' = cmd
      BY <2>3 DEF pvars
    <3> QED
      BY <1>2, <3>1 DEF CutoffInv, Linkable, LateEnough
  <2> QED
    BY <1>2, <2>2, <2>3 DEF Next, ChangeBook, Resummarise, Answering, Ask, LookUp, ReadRows,
                            ReadEvidence, Store, ModelFails, Reply, qvars
<1> QED
  BY <1>1, <1>2, BookSafety, PTL DEF Spec

\* The database e is what a reader with the cutoff may know of d.
Trimmed(e, d, cut) ==
  /\ DOMAIN e.claims = {i \in DOMAIN d.claims : Disclosed(d.claims[i], cut)}
  /\ \A i \in DOMAIN e.claims : e.claims[i] = d.claims[i]
  /\ DOMAIN e.aliases = {i \in DOMAIN d.aliases : Disclosed(d.aliases[i], cut)}
  /\ \A i \in DOMAIN e.aliases : e.aliases[i] = d.aliases[i]
  /\ e.links = {l \in d.links : Disclosed(l, cut)}
  /\ DOMAIN e.entities = DOMAIN d.entities
  /\ \A x \in DOMAIN d.entities : e.entities[x].importance = d.entities[x].importance
  /\ e.active = d.active /\ e.observed = d.observed /\ e.evidence = d.evidence
  /\ e.resolved = d.resolved /\ e.named = d.named
  /\ e.linked = d.linked /\ e.verified = d.verified

\* The book of the first chapters is that.
LEMMA UntilTrims ==
  ASSUME DOMAIN db = Tables, Tidy(db), NEW cut
  PROVE  Trimmed(Until(db, cut), db, cut)
<1> DEFINE cs == [i \in {j \in DOMAIN db.claims : Disclosed(db.claims[j], cut)} |-> db.claims[i]]
           as == [i \in {j \in DOMAIN db.aliases : Disclosed(db.aliases[j], cut)} |-> db.aliases[i]]
           ls == {l \in db.links : Disclosed(l, cut)}
           es == [e \in DOMAIN db.entities |-> [db.entities[e] EXCEPT !.name = "its full name"]]
           then == Until(db, cut)
<1>1. then = [db EXCEPT !.claims = cs, !.aliases = as, !.links = ls, !.entities = es]
  BY Zenon DEF Until
<1>2. DOMAIN es = DOMAIN db.entities
      /\ \A x \in DOMAIN db.entities : es[x].importance = db.entities[x].importance
  BY DEF Tidy
<1> HIDE DEF cs, as, ls, es, then
<1>3. /\ then.claims = cs /\ then.aliases = as /\ then.links = ls /\ then.entities = es
      /\ then.active = db.active /\ then.observed = db.observed /\ then.evidence = db.evidence
      /\ then.resolved = db.resolved /\ then.named = db.named
      /\ then.linked = db.linked /\ then.verified = db.verified
  BY <1>1, Zenon DEF Tables
<1>4. /\ DOMAIN cs = {i \in DOMAIN db.claims : Disclosed(db.claims[i], cut)}
      /\ \A i \in DOMAIN cs : cs[i] = db.claims[i]
  BY DEF cs
<1>5. /\ DOMAIN as = {i \in DOMAIN db.aliases : Disclosed(db.aliases[i], cut)}
      /\ \A i \in DOMAIN as : as[i] = db.aliases[i]
  BY DEF as
<1> QED
  BY <1>2, <1>3, <1>4, <1>5, Zenon DEF Trimmed, then, ls

\* Rows the cutoff discloses, and the filters on them.
LEMMA RowsAlike ==
  ASSUME NEW d, NEW e, NEW cut, Trimmed(e, d, cut), NEW i
  PROVE  /\ i \in DOMAIN e.claims <=> i \in DOMAIN d.claims /\ Disclosed(d.claims[i], cut)
         /\ i \in ActiveRows(e) <=> i \in ActiveRows(d) /\ Disclosed(d.claims[i], cut)
         /\ i \in DOMAIN e.claims => e.claims[i] = d.claims[i]
BY DEF Trimmed, ActiveRows

\* The evidence of a version, entities and what they are resolved to.
LEMMA SharedAlike ==
  ASSUME NEW d, NEW e, NEW cut, Trimmed(e, d, cut)
  PROVE  /\ \A run, v : EvidenceFor(e, run, v) = EvidenceFor(d, run, v)
         /\ \A rows : WithEvidence(e, rows) = WithEvidence(d, rows)
         /\ \A x : Scope(e, x) = Scope(d, x)
         /\ \A m : Canonical(e, m) = Canonical(d, m)
<1>1. e.evidence = d.evidence /\ e.active = d.active /\ e.resolved = d.resolved
  BY DEF Trimmed
<1>2. \A run, v : EvidenceFor(e, run, v) = EvidenceFor(d, run, v)
  BY <1>1, Zenon DEF EvidenceFor
<1>3. \A rows : WithEvidence(e, rows) = WithEvidence(d, rows)
  BY <1>1, <1>2, Zenon DEF WithEvidence
<1>4. \A x : Scope(e, x) = Scope(d, x)
  BY <1>1, Zenon DEF Scope
<1>5. \A m : Canonical(e, m) = Canonical(d, m)
  BY <1>1, Zenon DEF Canonical
<1> QED
  BY <1>2, <1>3, <1>4, <1>5

\* The rows that are ranked for a current fact.
SeenRows(d, rows, cut, at) ==
  {i \in rows \cap ActiveRows(d) : Disclosed(d.claims[i], cut) /\ InWorld(d.claims[i], at)}

\* The versions ranked among the rows, by the last row of each fact.
LEMMA CurrentIs ==
  ASSUME NEW d, NEW rows, NEW cut, NEW at, NEW c
  PROVE  c \in Current(d, rows, cut, at) <=>
           \E i \in SeenRows(d, rows, cut, at) :
              /\ c = d.claims[i] /\ Stands(c)
              /\ \A k \in SeenRows(d, rows, cut, at) : d.claims[k].fact = d.claims[i].fact => k <= i
<1>1. Current(d, rows, cut, at) =
        {x \in {d.claims[i] : i \in {j \in SeenRows(d, rows, cut, at) :
                   \A k \in SeenRows(d, rows, cut, at) : d.claims[k].fact = d.claims[j].fact => k <= j}}
           : Stands(x)}
  BY Zenon DEF Current, Latest, SeenRows
<1> QED
  BY <1>1, Zenon

\* The current facts among the same rows are the same: filtered, then ranked.
LEMMA CurrentAlike ==
  ASSUME NEW d, NEW e, NEW cut, Trimmed(e, d, cut), NEW rows, NEW early, NEW at,
         \A i \in DOMAIN e.claims : i \in early <=> i \in rows
  PROVE  Current(e, early, cut, at) = Current(d, rows, cut, at)
<1>1. ASSUME NEW i PROVE i \in SeenRows(e, early, cut, at) <=> i \in SeenRows(d, rows, cut, at)
  <2>1. ActiveRows(e) \subseteq DOMAIN e.claims
    BY DEF ActiveRows
  <2> QED
    BY <2>1, RowsAlike DEF SeenRows
<1>2. SeenRows(e, early, cut, at) = SeenRows(d, rows, cut, at)
  BY <1>1
<1>3. \A i \in SeenRows(e, early, cut, at) : e.claims[i] = d.claims[i]
  <2>1. \A i \in SeenRows(e, early, cut, at) : i \in DOMAIN e.claims
    BY DEF SeenRows, ActiveRows
  <2> QED
    BY <2>1, RowsAlike
<1>4. \A c : c \in Current(e, early, cut, at) <=> c \in Current(d, rows, cut, at)
  <2>1. ASSUME NEW c PROVE c \in Current(e, early, cut, at) <=> c \in Current(d, rows, cut, at)
    <3> DEFINE S == SeenRows(d, rows, cut, at)
    <3>1. c \in Current(e, early, cut, at) <=>
            \E i \in S : /\ c = e.claims[i] /\ Stands(c)
                         /\ \A k \in S : e.claims[k].fact = e.claims[i].fact => k <= i
      BY <1>2, CurrentIs
    <3>2. c \in Current(d, rows, cut, at) <=>
            \E i \in S : /\ c = d.claims[i] /\ Stands(c)
                         /\ \A k \in S : d.claims[k].fact = d.claims[i].fact => k <= i
      BY CurrentIs
    <3> HIDE DEF S
    <3>3. \A i \in S : e.claims[i] = d.claims[i]
      BY <1>2, <1>3 DEF S
    <3> QED
      BY <3>1, <3>2, <3>3, Zenon
  <2> QED
    BY <2>1
<1> QED
  BY <1>4

\* States, relations, events, terms and chapters, as the reader finds them.
LEMMA FactsAlike ==
  ASSUME NEW d, NEW e, NEW cut, Trimmed(e, d, cut)
  PROVE  /\ \A x : EntityState(e, x, cut) = EntityState(d, x, cut)
         /\ \A x, at : WorldStateAt(e, x, at, cut) = WorldStateAt(d, x, at, cut)
         /\ \A x, at : OneHop(e, x, cut, at) = OneHop(d, x, cut, at)
         /\ \A x, at : OrgStateAt(e, x, at, cut) = OrgStateAt(d, x, at, cut)
         /\ \A x, y, at : Between(e, x, y, cut, at) = Between(d, x, y, cut, at)
         /\ \A at : CurrentEvents(e, cut, at) = CurrentEvents(d, cut, at)
         /\ \A x, at : EntityEvents(e, x, cut, at) = EntityEvents(d, x, cut, at)
         /\ \A name : TermDefinition(e, name, cut) = TermDefinition(d, name, cut)
         /\ \A n, at : ChapterGraph(e, n, cut, at) = ChapterGraph(d, n, cut, at)
         /\ \A at : Current(e, OfType(e, "relation"), cut, at) = Current(d, OfType(d, "relation"), cut, at)
<1>1. \A i \in DOMAIN e.claims : i \in DOMAIN d.claims /\ e.claims[i] = d.claims[i]
  BY DEF Trimmed
<1>2. ASSUME NEW type, NEW scope, NEW at
      PROVE  Current(e, Touching(e, type, scope), cut, at) = Current(d, Touching(d, type, scope), cut, at)
  <2>1. \A i \in DOMAIN e.claims : i \in Touching(e, type, scope) <=> i \in Touching(d, type, scope)
    BY <1>1 DEF Touching
  <2> QED
    BY <2>1, CurrentAlike
<1>3. ASSUME NEW type, NEW at
      PROVE  Current(e, OfType(e, type), cut, at) = Current(d, OfType(d, type), cut, at)
  <2>1. \A i \in DOMAIN e.claims : i \in OfType(e, type) <=> i \in OfType(d, type)
    BY <1>1 DEF OfType
  <2> QED
    BY <2>1, CurrentAlike
<1>4. ASSUME NEW x PROVE EntityState(e, x, cut) = EntityState(d, x, cut)
  <2> DEFINE Rows(b) == Current(b, Touching(b, "state", Scope(b, x)), cut, Null)
  <2>1. Rows(e) = Rows(d)
    BY <1>2, SharedAlike
  <2>2. EntityState(e, x, cut) = WithEvidence(e, Rows(e)) /\ EntityState(d, x, cut) = WithEvidence(d, Rows(d))
    BY Zenon DEF EntityState
  <2> HIDE DEF Rows
  <2> QED
    BY <2>1, <2>2, SharedAlike
<1>5. ASSUME NEW x, NEW at PROVE WorldStateAt(e, x, at, cut) = WorldStateAt(d, x, at, cut)
  <2> DEFINE Rows(b) == Current(b, Touching(b, "state", Scope(b, x)), cut, at)
  <2>1. Rows(e) = Rows(d)
    BY <1>2, SharedAlike
  <2>2. WorldStateAt(e, x, at, cut) = WithEvidence(e, Rows(e)) /\ WorldStateAt(d, x, at, cut) = WithEvidence(d, Rows(d))
    BY Zenon DEF WorldStateAt
  <2> HIDE DEF Rows
  <2> QED
    BY <2>1, <2>2, SharedAlike
<1>6. ASSUME NEW x, NEW at PROVE OneHop(e, x, cut, at) = OneHop(d, x, cut, at)
  <2> DEFINE Rows(b) == Current(b, Touching(b, "relation", Scope(b, x)), cut, at)
  <2>1. Rows(e) = Rows(d)
    BY <1>2, SharedAlike
  <2>2. OneHop(e, x, cut, at) = WithEvidence(e, Rows(e)) /\ OneHop(d, x, cut, at) = WithEvidence(d, Rows(d))
    BY Zenon DEF OneHop
  <2> HIDE DEF Rows
  <2> QED
    BY <2>1, <2>2, SharedAlike
<1>7. ASSUME NEW x, NEW at PROVE OrgStateAt(e, x, at, cut) = OrgStateAt(d, x, at, cut)
  <2> DEFINE Rows(b) == Current(b, Touching(b, "org", Scope(b, x)), cut, at)
  <2>1. Rows(e) = Rows(d)
    BY <1>2, SharedAlike
  <2>2. OrgStateAt(e, x, at, cut) = WithEvidence(e, Rows(e)) /\ OrgStateAt(d, x, at, cut) = WithEvidence(d, Rows(d))
    BY Zenon DEF OrgStateAt
  <2> HIDE DEF Rows
  <2> QED
    BY <2>1, <2>2, SharedAlike
<1>8. ASSUME NEW x, NEW y, NEW at
      PROVE  Between(e, x, y, cut, at) = Between(d, x, y, cut, at)
  <2> DEFINE Joins(f, a, b, c) == c.refs[1] \in Scope(f, a) /\ c.refs[2] \in Scope(f, b)
             Rows(f) == {i \in OfType(f, "relation") : Joins(f, x, y, f.claims[i])
                                                       \/ Joins(f, y, x, f.claims[i])}
  <2>1. \A i \in DOMAIN e.claims : i \in Rows(e) <=> i \in Rows(d)
    BY <1>1, SharedAlike DEF OfType
  <2>2. Current(e, Rows(e), cut, at) = Current(d, Rows(d), cut, at)
    <3> HIDE DEF Rows
    <3> QED
      BY <2>1, CurrentAlike
  <2>3. /\ Between(e, x, y, cut, at) = WithEvidence(e, Current(e, Rows(e), cut, at))
        /\ Between(d, x, y, cut, at) = WithEvidence(d, Current(d, Rows(d), cut, at))
    BY Zenon DEF Between
  <2> HIDE DEF Rows
  <2> QED
    BY <2>2, <2>3, SharedAlike
<1>9. \A at : CurrentEvents(e, cut, at) = CurrentEvents(d, cut, at)
  BY <1>3 DEF CurrentEvents
<1>10. ASSUME NEW x, NEW at PROVE EntityEvents(e, x, cut, at) = EntityEvents(d, x, cut, at)
  <2> DEFINE Rows(b) == {c \in CurrentEvents(b, cut, at) : Range(c.refs) \cap Scope(b, x) # {}}
  <2>1. Rows(e) = Rows(d)
    BY <1>9, SharedAlike
  <2>2. /\ EntityEvents(e, x, cut, at) = WithEvidence(e, Rows(e))
        /\ EntityEvents(d, x, cut, at) = WithEvidence(d, Rows(d))
    BY Zenon DEF EntityEvents
  <2> HIDE DEF Rows
  <2> QED
    BY <2>1, <2>2, SharedAlike
<1>11. ASSUME NEW name PROVE TermDefinition(e, name, cut) = TermDefinition(d, name, cut)
  <2> DEFINE Rows(f) == {i \in OfType(f, "term") : f.claims[i].what = name}
  <2>1. \A i \in DOMAIN e.claims : i \in Rows(e) <=> i \in Rows(d)
    BY <1>1 DEF OfType
  <2>2. Current(e, Rows(e), cut, Null) = Current(d, Rows(d), cut, Null)
    <3> HIDE DEF Rows
    <3> QED
      BY <2>1, CurrentAlike
  <2> QED
    BY <2>2, SharedAlike, Zenon DEF TermDefinition
<1>12. ASSUME NEW n, NEW at PROVE ChapterGraph(e, n, cut, at) = ChapterGraph(d, n, cut, at)
  <2> DEFINE Rows(f) == {i \in DOMAIN f.claims : f.claims[i].ord = n}
  <2>1. \A i \in DOMAIN e.claims : i \in Rows(e) <=> i \in Rows(d)
    BY <1>1
  <2>2. Current(e, Rows(e), cut, at) = Current(d, Rows(d), cut, at)
    <3> HIDE DEF Rows
    <3> QED
      BY <2>1, CurrentAlike
  <2> QED
    BY <2>2, SharedAlike, Zenon DEF ChapterGraph
<1> QED
  BY <1>3, <1>4, <1>5, <1>6, <1>7, <1>8, <1>9, <1>10, <1>11, <1>12

\* The versions of a fact, its relations and memberships, and the first events.
LEMMA VersionsAlike ==
  ASSUME NEW d, NEW e, NEW cut, Trimmed(e, d, cut)
  PROVE  /\ \A f, at : RelationEvolution(e, f, cut, at) = RelationEvolution(d, f, cut, at)
         /\ \A x, at : RelationFacts(e, x, cut, at) = RelationFacts(d, x, cut, at)
         /\ \A x, at : OrgMembership(e, x, cut, at) = OrgMembership(d, x, cut, at)
         /\ \A at, limit : AllEvents(e, cut, at, limit) = AllEvents(d, cut, at, limit)
<1>1. \A i \in DOMAIN e.claims : i \in DOMAIN d.claims /\ e.claims[i] = d.claims[i]
  BY DEF Trimmed
<1>2. ASSUME NEW i
      PROVE  /\ i \in ActiveRows(e) => i \in DOMAIN e.claims /\ i \in ActiveRows(d)
             /\ i \in ActiveRows(d) /\ Disclosed(d.claims[i], cut) => i \in ActiveRows(e)
  BY RowsAlike DEF ActiveRows
<1>3. ASSUME NEW f, NEW at PROVE RelationEvolution(e, f, cut, at) = RelationEvolution(d, f, cut, at)
  <2> DEFINE Rows(b) == {j \in ActiveRows(b) : /\ b.claims[j].fact = f
                                               /\ Disclosed(b.claims[j], cut)
                                               /\ InWorld(b.claims[j], at)}
  <2>1. \A i : i \in Rows(e) <=> i \in Rows(d)
    BY <1>1, <1>2
  <2>2. Rows(e) = Rows(d) /\ \A i \in Rows(e) : e.claims[i] = d.claims[i]
    <3>1. \A i \in Rows(e) : i \in DOMAIN e.claims
      BY <1>2
    <3> HIDE DEF Rows
    <3> QED
      BY <1>1, <2>1, <3>1
  <2>3. Versions(e, f, cut, at) = [i \in Rows(e) |-> e.claims[i]]
        /\ Versions(d, f, cut, at) = [i \in Rows(d) |-> d.claims[i]]
    BY Zenon DEF Versions
  <2> HIDE DEF Rows
  <2>4. Versions(e, f, cut, at) = Versions(d, f, cut, at)
    BY <2>2, <2>3
  <2> DEFINE Lines(vs, b) == [i \in {j \in DOMAIN vs : vs[j].type = "relation"} |->
                                [claim |-> vs[i], evidence |-> EvidenceFor(b, b.active, vs[i].v)]]
  <2>5. /\ RelationEvolution(e, f, cut, at) = Lines(Versions(e, f, cut, at), e)
        /\ RelationEvolution(d, f, cut, at) = Lines(Versions(d, f, cut, at), d)
    BY Zenon DEF RelationEvolution
  <2>6. ASSUME NEW vs PROVE Lines(vs, e) = Lines(vs, d)
    <3>1. \A v : EvidenceFor(e, e.active, v) = EvidenceFor(d, d.active, v)
      BY SharedAlike DEF Trimmed
    <3> QED
      BY <3>1
  <2> HIDE DEF Lines
  <2> QED
    BY <2>4, <2>5, <2>6
<1>4. ASSUME NEW x, NEW at PROVE RelationFacts(e, x, cut, at) = RelationFacts(d, x, cut, at)
  <2> DEFINE Rows(b) == {j \in ActiveRows(b) \cap Touching(b, "relation", Scope(b, x)) :
                            Disclosed(b.claims[j], cut) /\ InWorld(b.claims[j], at)}
  <2>0. Scope(e, x) = Scope(d, x)
    BY SharedAlike
  <2>1. \A i : i \in Rows(e) <=> i \in Rows(d)
    BY <1>1, <1>2, <2>0 DEF Touching
  <2>2. Rows(e) = Rows(d) /\ \A i \in Rows(e) : e.claims[i] = d.claims[i]
    <3>1. \A i \in Rows(e) : i \in DOMAIN e.claims
      BY <1>2
    <3> HIDE DEF Rows
    <3> QED
      BY <1>1, <2>1, <3>1
  <2>3. RelationFacts(e, x, cut, at) = {e.claims[i].fact : i \in Rows(e)}
        /\ RelationFacts(d, x, cut, at) = {d.claims[i].fact : i \in Rows(d)}
    BY Zenon DEF RelationFacts
  <2> HIDE DEF Rows
  <2> QED
    BY <2>2, <2>3
<1>5. ASSUME NEW x, NEW at PROVE OrgMembership(e, x, cut, at) = OrgMembership(d, x, cut, at)
  <2> DEFINE Rows(b) == {j \in ActiveRows(b) \cap Touching(b, "org", Scope(b, x)) :
                            Disclosed(b.claims[j], cut) /\ InWorld(b.claims[j], at)}
             Last_(b) == {b.claims[i] : i \in {j \in Rows(b) : \A k \in Rows(b) :
                            b.claims[k].refs = b.claims[j].refs => k <= j}}
  <2>0. Scope(e, x) = Scope(d, x)
    BY SharedAlike
  <2>1. \A i : i \in Rows(e) <=> i \in Rows(d)
    BY <1>1, <1>2, <2>0 DEF Touching
  <2>2. Rows(e) = Rows(d) /\ \A i \in Rows(e) : e.claims[i] = d.claims[i]
    <3>1. \A i \in Rows(e) : i \in DOMAIN e.claims
      BY <1>2
    <3> HIDE DEF Rows
    <3> QED
      BY <1>1, <2>1, <3>1
  <2>3. /\ OrgMembership(e, x, cut, at)
             = WithEvidence(e, {c \in Last_(e) : Stands(c) /\ c.what \notin {"leave", "dissolve"}})
        /\ OrgMembership(d, x, cut, at)
             = WithEvidence(d, {c \in Last_(d) : Stands(c) /\ c.what \notin {"leave", "dissolve"}})
    BY Zenon DEF OrgMembership, Latest
  <2>4. Last_(e) = Last_(d)
    <3> HIDE DEF Rows
    <3>1. \A c : c \in Last_(e) <=> c \in Last_(d)
      BY <2>2
    <3> HIDE DEF Last_
    <3> QED
      BY <3>1
  <2> HIDE DEF Last_
  <2> QED
    BY <2>3, <2>4, SharedAlike
<1>6. ASSUME NEW at, NEW limit PROVE AllEvents(e, cut, at, limit) = AllEvents(d, cut, at, limit)
  <2>1. CurrentEvents(e, cut, at) = CurrentEvents(d, cut, at)
    BY FactsAlike
  <2>2. e.active = d.active
    BY DEF Trimmed
  <2> DEFINE Before(a, b) == a.ord < b.ord \/ (a.ord = b.ord /\ a.seq <= b.seq)
             rows == SetToSortSeq(CurrentEvents(d, cut, at), Before)
             Lines(b) == [i \in 1..Min({limit, Len(rows)}) |->
                            [claim |-> rows[i], evidence |-> EvidenceFor(b, b.active, rows[i].v)]]
  <2>3. AllEvents(d, cut, at, limit) = Lines(d)
    BY Zenon DEF AllEvents
  <2>4. AllEvents(e, cut, at, limit) = Lines(e)
    BY <2>1, Zenon DEF AllEvents
  <2> HIDE DEF rows
  <2>5. \A v : EvidenceFor(e, e.active, v) = EvidenceFor(d, d.active, v)
    BY <2>2, SharedAlike
  <2> QED
    BY <2>3, <2>4, <2>5
<1> QED
  BY <1>3, <1>4, <1>5, <1>6

\* A step further along the edges, from the end of each path.
Further(paths, edges) ==
  UNION {{Append(p, l) : l \in {k \in edges : k.src = Last(p).tgt /\ k.tgt \notin Visited(p)}}
         : p \in paths}

\* A path is made of edges, and has one at least.
LEMMA PathsOfEdges ==
  ASSUME NEW v, NEW edges, NEW depth \in Nat, NEW p \in PathsFrom(v, edges, depth)
  PROVE  p \in Seq(edges) /\ p # <<>>
<1> DEFINE first == {<<l>> : l \in {k \in edges : k.src = v}}
           Is(g, k) == g = [n \in 1..k |-> IF n = 1 THEN first ELSE Further(g[n - 1], edges)]
           G == {k \in Nat : \E g : Is(g, k)}
           paths == CHOOSE g : Is(g, depth)
<1>1. 0 \in G
  <2> DEFINE g == [n \in 1..0 |-> first]
  <2>1. \A n \in 1..0 : FALSE
    OBVIOUS
  <2>2. g = [n \in 1..0 |-> IF n = 1 THEN first ELSE Further(g[n - 1], edges)]
    BY <2>1
  <2>3. Is(g, 0)
    BY <2>2
  <2> HIDE DEF Is, g
  <2> QED
    BY <2>3, Zenon
<1>2. ASSUME NEW k \in G PROVE k + 1 \in G
  <2>1. PICK g : Is(g, k)
    OBVIOUS
  <2> DEFINE next == IF k = 0 THEN first ELSE Further(g[k], edges)
             h == [n \in 1..(k + 1) |-> IF n <= k THEN g[n] ELSE next]
  <2>2. k \in Nat
    OBVIOUS
  <2>3. ASSUME NEW n \in 1..(k + 1)
        PROVE  h[n] = IF n = 1 THEN first ELSE Further(h[n - 1], edges)
    <3>1. CASE n \in 1..k
      <4>1. h[n] = g[n] /\ (n # 1 => n - 1 \in 1..(k + 1) /\ n - 1 <= k /\ h[n - 1] = g[n - 1])
        BY <2>2, <3>1
      <4>2. g[n] = IF n = 1 THEN first ELSE Further(g[n - 1], edges)
        BY <2>1, <3>1, Zenon
      <4> QED
        BY <4>1, <4>2
    <3>2. CASE n = k + 1
      <4>1. h[n] = next /\ (k # 0 => h[k] = g[k]) /\ n - 1 = k /\ (n = 1 <=> k = 0)
        BY <2>2, <3>2
      <4> HIDE DEF h
      <4> QED
        BY <4>1
    <3> QED
      BY <2>2, <3>1, <3>2
  <2>4. h = [n \in 1..(k + 1) |-> IF n = 1 THEN first ELSE Further(h[n - 1], edges)]
    <3>1. h = [n \in 1..(k + 1) |-> h[n]]
      OBVIOUS
    <3> HIDE DEF h
    <3> QED
      BY <2>3, <3>1
  <2>5. Is(h, k + 1)
    BY <2>4
  <2> HIDE DEF Is, h
  <2>6. k + 1 \in Nat
    BY <2>2
  <2> QED
    BY <2>5, <2>6, Zenon
<1>3. depth \in G
  <2> HIDE DEF G
  <2>1. G \in SUBSET Nat
    BY DEF G
  <2> QED
    BY <1>1, <1>2, <2>1, Induction
<1>4. Is(paths, depth)
  BY <1>3, Zenon
<1>5. PathsFrom(v, edges, depth) = UNION {paths[n] : n \in 1..depth}
  BY Zenon DEF PathsFrom, Further
<1>6. \A n \in 1..depth : paths[n] = IF n = 1 THEN first ELSE Further(paths[n - 1], edges)
  BY <1>4, Zenon
<1> HIDE DEF paths
<1> DEFINE H == {k \in Nat : k \in 1..depth => \A q \in paths[k] : q \in Seq(edges) /\ q # <<>>}
<1>7. 0 \in H
  OBVIOUS
<1>8. ASSUME NEW k \in H PROVE k + 1 \in H
  <2> SUFFICES ASSUME k + 1 \in 1..depth, NEW q \in paths[k + 1] PROVE q \in Seq(edges) /\ q # <<>>
    OBVIOUS
  <2>1. CASE k = 0
    <3>0. k + 1 = 1
      BY <2>1
    <3>1. q \in first
      BY <1>6, <3>0, Zenon
    <3>2. PICK l \in edges : q = <<l>>
      BY <3>1
    <3> QED
      BY <3>2
  <2>2. CASE k # 0
    <3>1. k \in 1..depth /\ k + 1 # 1 /\ (k + 1) - 1 = k
      BY <2>2
    <3>2. q \in Further(paths[k], edges)
      BY <1>6, <3>1
    <3>3. PICK o \in paths[k], l \in edges : q = Append(o, l)
      BY <3>2 DEF Further
    <3>4. o \in Seq(edges)
      BY <3>1, <3>3
    <3> QED
      BY <3>3, <3>4
  <2> QED
    BY <2>1, <2>2
<1>9. H = Nat
  <2> HIDE DEF H
  <2>1. H \in SUBSET Nat
    BY DEF H
  <2> QED
    BY <1>7, <1>8, <2>1, Induction
<1>10. PICK n \in 1..depth : p \in paths[n]
  BY <1>5
<1> QED
  BY <1>9, <1>10

\* Events of the links a reader knows are events that he knows.
LEMMA ChainsAlike ==
  ASSUME CutoffInv, NEW e, NEW cut \in Nat, cut # Null, Trimmed(e, db, cut),
         NEW v, NEW at, NEW depth \in Nat
  PROVE  CausalPaths(e, v, cut, at, depth) = CausalPaths(db, v, cut, at, depth)
<1> DEFINE types == {"causes", "enables"}
           edges == Edges(db, types, cut, at)
<1>1. \A w : /\ Verified(e, w) <=> Verified(db, w)
             /\ e.verified[<<w, e.active>>] = db.verified[<<w, db.active>>]
  BY DEF Verified, Trimmed
<1>2. Edges(e, types, cut, at) = edges
  <2>1. \A l : l \in Edges(e, types, cut, at) <=> l \in edges
    BY <1>1 DEF Edges, Trimmed
  <2> HIDE DEF types, edges
  <2> QED
    BY <2>1
<1>3. \A l \in edges : l \in db.links /\ Disclosed(l, cut)
  BY DEF Edges
<1> HIDE DEF types, edges
<1>4. ASSUME NEW l \in edges, NEW w \in {l.src, l.tgt}
      PROVE  EventSummary(e, w) = EventSummary(db, w)
  <2>1. LateEnough(l) /\ l.ord <= cut
    BY <1>3 DEF CutoffInv, Disclosed
  <2>2. ASSUME NEW i \in DOMAIN db.claims, db.claims[i].v = w, db.claims[i].type = "event"
        PROVE  i \in DOMAIN e.claims
    <3>1. db.claims[i].ord <= l.ord /\ l.ord \in Nat
      BY <2>1, <2>2 DEF LateEnough
    <3>2. db.claims[i].ord \in Nat
      BY BookAssumption DEF CutoffInv
    <3>3. db.claims[i].ord <= cut
      BY <2>1, <3>1, <3>2
    <3> QED
      BY <3>3 DEF Trimmed, Disclosed
  <2>3. \A i \in DOMAIN e.claims : i \in DOMAIN db.claims /\ e.claims[i] = db.claims[i]
    BY DEF Trimmed
  <2>4. \A c : c \in EventSummary(e, w) <=> c \in EventSummary(db, w)
    BY <2>2, <2>3 DEF EventSummary
  <2> QED
    BY <2>4
<1>5. ASSUME NEW p \in PathsFrom(v, edges, depth) PROVE Trace(e, p) = Trace(db, p)
  <2>1. p \in Seq(edges) /\ p # <<>>
    BY PathsOfEdges
  <2>2. 1 \in DOMAIN p /\ \A i \in DOMAIN p : p[i] \in edges
    BY <2>1
  <2>3. EventSummary(e, p[1].src) = EventSummary(db, p[1].src)
    BY <1>4, <2>2
  <2>4. [i \in DOMAIN p |-> EventSummary(e, p[i].tgt)] = [i \in DOMAIN p |-> EventSummary(db, p[i].tgt)]
    BY <1>4, <2>2
  <2>5. LinkEvidence(e, p) = LinkEvidence(db, p)
    BY <1>1 DEF LinkEvidence
  <2> QED
    BY <2>3, <2>4, <2>5, Zenon DEF Trace
<1>6. CausalPaths(e, v, cut, at, depth) = {Trace(e, p) : p \in PathsFrom(v, edges, depth)}
  BY <1>2, Zenon DEF CausalPaths, types
<1>7. CausalPaths(db, v, cut, at, depth) = {Trace(db, p) : p \in PathsFrom(v, edges, depth)}
  BY Zenon DEF CausalPaths, types, edges
<1> QED
  BY <1>5, <1>6, <1>7

\* Of finitely many numbered rows, one comes last.
LEMMA LastOfRows ==
  ASSUME NEW n \in Nat, NEW S \in SUBSET (1..n), S # {}, NEW f, \A i \in S : f[i] \in Nat
  PROVE  \E i \in S : \A j \in S : f[i] > f[j] \/ (f[i] = f[j] /\ i >= j)
<1> DEFINE Last_(T) == \E i \in T : \A j \in T : f[i] > f[j] \/ (f[i] = f[j] /\ i >= j)
           G == {k \in Nat : \A T \in SUBSET (S \cap 1..k) : T # {} => Last_(T)}
<1>1. 0 \in G
  <2>1. \A i \in 1..0 : FALSE
    OBVIOUS
  <2> QED
    BY <2>1
<1>2. ASSUME NEW k \in G PROVE k + 1 \in G
  <2>1. k \in Nat /\ k + 1 \in Nat /\ \A T \in SUBSET (S \cap 1..k) : T # {} => Last_(T)
    OBVIOUS
  <2>2. ASSUME NEW T \in SUBSET (S \cap 1..(k + 1)), T # {} PROVE Last_(T)
    <3> DEFINE U == T \ {k + 1}
    <3>1. U \in SUBSET (S \cap 1..k)
      BY <2>1
    <3>2. CASE k + 1 \notin T
      BY <2>1, <2>2, <3>1, <3>2
    <3>3. CASE k + 1 \in T /\ U = {}
      <4>1. T = {k + 1}
        BY <3>3
      <4>2. f[k + 1] = f[k + 1] /\ k + 1 >= k + 1
        BY <2>1
      <4> QED
        BY <4>1, <4>2
    <3>4. CASE k + 1 \in T /\ U # {}
      <4>1. PICK i \in U : \A j \in U : f[i] > f[j] \/ (f[i] = f[j] /\ i >= j)
        BY <2>1, <3>1, <3>4
      <4>2. \A j \in T : j \in U \/ j = k + 1
        OBVIOUS
      <4>3. i \in Nat /\ i < k + 1 /\ f[i] \in Nat /\ f[k + 1] \in Nat /\ \A j \in U : f[j] \in Nat
        BY <2>1, <3>1, <3>4
      <4>4. \A j \in U : j \in Nat /\ j < k + 1
        BY <2>1, <3>1
      <4>5. CASE f[i] > f[k + 1]
        BY <4>1, <4>2, <4>3, <4>5
      <4>6. CASE f[k + 1] >= f[i]
        <5> DEFINE m == k + 1
        <5>1. \A j \in U : f[m] > f[j] \/ (f[m] = f[j] /\ m >= j)
          BY <4>1, <4>3, <4>4, <4>6
        <5>2. f[m] = f[m] /\ m >= m /\ m \in T
          BY <2>1, <3>4
        <5>3. \A j \in T : f[m] > f[j] \/ (f[m] = f[j] /\ m >= j)
          BY <4>2, <5>1, <5>2
        <5> QED
          BY <5>2, <5>3
      <4> QED
        BY <4>3, <4>5, <4>6
    <3> QED
      BY <3>2, <3>3, <3>4
  <2> HIDE DEF Last_
  <2> QED
    BY <2>1, <2>2
<1>3. n \in G
  <2> HIDE DEF G
  <2>1. G \in SUBSET Nat
    BY DEF G
  <2> QED
    BY <1>1, <1>2, <2>1, Induction
<1> QED
  BY <1>3

\* The names a reader knows are names he is shown.
LEMMA NamesAlike ==
  ASSUME NEW d, NEW e, NEW cut, Trimmed(e, d, cut)
  PROVE  /\ KnownAliases(e, cut) = KnownAliases(d, cut)
         /\ EntitySet(e, cut) = EntitySet(d, cut)
         /\ \A x : Surfaces(e, x, cut) = Surfaces(d, x, cut)
         /\ \A x : DisplayName(e, x, cut) = DisplayName(d, x, cut)
<1>1. \A i \in DOMAIN e.aliases : i \in DOMAIN d.aliases /\ e.aliases[i] = d.aliases[i]
  BY DEF Trimmed
<1>2. ASSUME NEW i
      PROVE  /\ i \in ActiveAliases(e) => i \in DOMAIN e.aliases /\ i \in ActiveAliases(d)
             /\ i \in ActiveAliases(d) /\ Disclosed(d.aliases[i], cut) => i \in ActiveAliases(e)
  BY DEF Trimmed, ActiveAliases
<1>3. \A m : Canonical(e, m) = Canonical(d, m)
  BY SharedAlike
<1>4. KnownAliases(e, cut) = KnownAliases(d, cut)
  <2>1. \A a : a \in KnownAliases(e, cut) <=> a \in KnownAliases(d, cut)
    BY <1>1, <1>2 DEF KnownAliases
  <2> QED
    BY <2>1
<1>5. EntitySet(e, cut) = EntitySet(d, cut)
  BY <1>3, <1>4, Zenon DEF EntitySet
<1>6. ASSUME NEW x PROVE Surfaces(e, x, cut) = Surfaces(d, x, cut)
  <2>1. \A s : s \in Surfaces(e, x, cut) <=> s \in Surfaces(d, x, cut)
    BY <1>3, <1>4 DEF Surfaces
  <2> QED
    BY <2>1
<1>7. ASSUME NEW x PROVE DisplayName(e, x, cut) = DisplayName(d, x, cut)
  <2> DEFINE Rows(b) == {j \in ActiveAliases(b) : /\ Canonical(b, b.aliases[j].of) = x
                                                  /\ Disclosed(b.aliases[j], cut)}
             Known_(b) == [i \in Rows(b) |-> b.aliases[i]]
             Later(f, i, j) == \/ f[i].ord > f[j].ord
                               \/ f[i].ord = f[j].ord /\ i >= j
             Name(f) == IF DOMAIN f = {} THEN Null
                        ELSE f[CHOOSE i \in DOMAIN f : \A j \in DOMAIN f : Later(f, i, j)].surface
  <2>1. Rows(e) = Rows(d) /\ \A i \in Rows(e) : e.aliases[i] = d.aliases[i]
    <3>1. \A i : i \in Rows(e) <=> i \in Rows(d)
      BY <1>1, <1>2, <1>3
    <3>2. \A i \in Rows(e) : i \in DOMAIN e.aliases
      BY <1>2
    <3> HIDE DEF Rows
    <3> QED
      BY <1>1, <3>1, <3>2
  <2>2. Known_(e) = Known_(d)
    <3> HIDE DEF Rows
    <3> QED
      BY <2>1
  <2>3. DisplayName(e, x, cut) = Name(Known_(e)) /\ DisplayName(d, x, cut) = Name(Known_(d))
    BY Zenon DEF DisplayName
  <2> HIDE DEF Known_, Name
  <2> QED
    BY <2>2, <2>3
<1> QED
  BY <1>4, <1>5, <1>6, <1>7

\* An entity that a reader knows by a name is shown by one.
LEMMA NamedEntities ==
  ASSUME NEW d, Tidy(d), NEW cut, NEW x \in EntitySet(d, cut)
  PROVE  DisplayName(d, x, cut) # Null
<1> DEFINE rows == {j \in ActiveAliases(d) : /\ Canonical(d, d.aliases[j].of) = x
                                             /\ Disclosed(d.aliases[j], cut)}
           known == [i \in rows |-> d.aliases[i]]
           Later(i, j) == \/ known[i].ord > known[j].ord
                          \/ known[i].ord = known[j].ord /\ i >= j
           last == CHOOSE i \in DOMAIN known : \A j \in DOMAIN known : Later(i, j)
           n == Len(d.aliases)
<1>1. DisplayName(d, x, cut) = IF DOMAIN known = {} THEN Null ELSE known[last].surface
  BY Zenon DEF DisplayName
<1>2. rows # {}
  <2>1. PICK a \in KnownAliases(d, cut) : x = Canonical(d, a.of)
    BY DEF EntitySet
  <2>2. PICK j \in ActiveAliases(d) : a = d.aliases[j] /\ Disclosed(d.aliases[j], cut)
    BY DEF KnownAliases
  <2> QED
    BY <2>1, <2>2
<1>3. n \in Nat /\ d.aliases \in Seq(AliasRow) /\ rows \subseteq 1..n
  BY DEF Tidy, ActiveAliases
<1>4. \A i \in rows : /\ known[i] = d.aliases[i] /\ known[i].ord \in Nat
                      /\ known[i].surface # Null
  <2>1. \A a \in AliasRow : a.ord \in Nat /\ a.surface # Null
    BY ProjectionsAssumption DEF AliasRow
  <2>2. \A i \in rows : d.aliases[i] \in AliasRow
    BY <1>3
  <2> QED
    BY <2>1, <2>2
<1>5. DOMAIN known = rows
  OBVIOUS
<1> HIDE DEF known, rows
<1>6. \E i \in rows : \A j \in rows : Later(i, j)
  <2> DEFINE f == [i \in rows |-> known[i].ord]
  <2>1. \A i \in rows : f[i] = known[i].ord
    OBVIOUS
  <2> HIDE DEF f
  <2>2. PICK N \in Nat : N = n
    BY <1>3
  <2> HIDE DEF n, last, Later
  <2>3. PICK S \in SUBSET (1..N) : S = rows
    BY <1>3, <2>2
  <2>4. S # {} /\ \A i \in S : f[i] \in Nat
    BY <1>2, <1>4, <2>1, <2>3
  <2>5. \E i \in S : \A j \in S : f[i] > f[j] \/ (f[i] = f[j] /\ i >= j)
    BY <2>4, LastOfRows
  <2>6. PICK i \in S : \A j \in S : f[i] > f[j] \/ (f[i] = f[j] /\ i >= j)
    BY <2>5
  <2>7. \A j \in rows : Later(i, j)
    BY <2>1, <2>3, <2>6 DEF Later
  <2> QED
    BY <2>3, <2>7
<1>7. last \in rows
  BY <1>5, <1>6, Zenon
<1> QED
  BY <1>1, <1>2, <1>4, <1>5, <1>7, Zenon

\* The catalogue and the edges between its nodes.
LEMMA GraphAlike ==
  ASSUME NEW d, Tidy(d), NEW e, NEW cut, cut # Null, Trimmed(e, d, cut), NEW at
  PROVE  /\ Catalog(e, cut, Null) = Catalog(d, cut, Null)
         /\ GraphData(e, cut, at, 0).edges = GraphData(d, cut, at, 0).edges
<1> DEFINE Row(b, x) ==
             [id |-> x, name |-> CatalogName(b, x, cut), aliases |-> Cardinality(Surfaces(b, x, cut)),
              mentions |-> Cardinality({m \in DOMAIN b.resolved :
                              b.resolved[m] = [canonical |-> x, run |-> b.active]})]
           Ids == EntitySet(d, cut) \cap DOMAIN d.entities
<1>1. EntitySet(e, cut) \cap DOMAIN e.entities = Ids
  BY NamesAlike DEF Trimmed
<1>2. ASSUME NEW x \in Ids PROVE Row(e, x) = Row(d, x)
  <2>1. DisplayName(e, x, cut) = DisplayName(d, x, cut) /\ DisplayName(d, x, cut) # Null
    BY NamesAlike, NamedEntities
  <2>2. CatalogName(e, x, cut) = CatalogName(d, x, cut)
    BY <2>1, Zenon DEF CatalogName
  <2>3. Surfaces(e, x, cut) = Surfaces(d, x, cut)
    BY NamesAlike
  <2>4. e.resolved = d.resolved /\ e.active = d.active
    BY DEF Trimmed
  <2> QED
    BY <2>2, <2>3, <2>4, Zenon
<1>3. ASSUME NEW b
      PROVE  Catalog(b, cut, Null) = {Row(b, x) : x \in EntitySet(b, cut) \cap DOMAIN b.entities}
  <2>1. Catalog(b, cut, Null) =
          {Row(b, x) : x \in {y \in EntitySet(b, cut) \cap DOMAIN b.entities :
                                \/ Null = Null \/ Null \in Surfaces(b, y, cut)
                                \/ cut = Null /\ Null = b.entities[y].name}}
    BY Zenon DEF Catalog
  <2> HIDE DEF Row
  <2>2. {y \in EntitySet(b, cut) \cap DOMAIN b.entities :
                                \/ Null = Null \/ Null \in Surfaces(b, y, cut)
                                \/ cut = Null /\ Null = b.entities[y].name}
          = EntitySet(b, cut) \cap DOMAIN b.entities
    OBVIOUS
  <2> QED
    BY <2>1, <2>2, Zenon
<1> HIDE DEF Row
<1>4. Catalog(e, cut, Null) = {Row(e, x) : x \in Ids} /\ Catalog(d, cut, Null) = {Row(d, x) : x \in Ids}
  BY <1>1, <1>3, Zenon DEF Ids
<1>5. Catalog(e, cut, Null) = Catalog(d, cut, Null)
  BY <1>2, <1>4
<1> DEFINE Cat == Catalog(d, cut, Null)
           Nodes(b) == {n \in Cat : b.entities[n.id].importance >= 0}
           All(b) == {<<Canonical(b, c.refs[1]), Canonical(b, c.refs[2]), c.v>>
                      : c \in Current(b, OfType(b, "relation"), cut, at)}
           Shown(nodes, xs) == {x \in xs : x[1] \in {n.id : n \in nodes} /\ x[2] \in {n.id : n \in nodes}}
<1>6. \A n \in Cat : n.id \in DOMAIN d.entities
  <2>1. ASSUME NEW n \in Cat PROVE n.id \in DOMAIN d.entities
    <3>1. PICK x \in Ids : n = Row(d, x)
      BY <1>4
    <3> QED
      BY <3>1 DEF Row, Ids
  <2> QED
    BY <2>1
<1> HIDE DEF Cat
<1>7. Nodes(e) = Nodes(d)
  BY <1>6 DEF Trimmed
<1>8. All(e) = All(d)
  <2>1. Current(e, OfType(e, "relation"), cut, at) = Current(d, OfType(d, "relation"), cut, at)
    BY FactsAlike
  <2>2. \A m : Canonical(e, m) = Canonical(d, m)
    BY SharedAlike
  <2> QED
    BY <2>1, <2>2
<1>9. GraphData(e, cut, at, 0).edges = Shown(Nodes(e), All(e))
      /\ GraphData(d, cut, at, 0).edges = Shown(Nodes(d), All(d))
  <2>1. Catalog(e, cut, Null) = Cat /\ Catalog(d, cut, Null) = Cat
    BY <1>5 DEF Cat
  <2> QED
    BY <2>1, Zenon DEF GraphData
<1> HIDE DEF Nodes, All, Shown
<1> QED
  BY <1>5, <1>7, <1>8, <1>9

\* The page of an entity.
LEMMA DetailAlike ==
  ASSUME NEW d, Tidy(d), NEW e, NEW cut, cut # Null, Trimmed(e, d, cut), NEW x, NEW at
  PROVE  Detail(e, x, cut, at) = Detail(d, x, cut, at)
<1> DEFINE Hidden(b) == \/ x \notin DOMAIN b.entities \/ ~InBook(b, x)
                        \/ cut # Null /\ x \notin EntitySet(b, cut)
           Rel(b, r) == [row |-> r, from |-> ShownAs(b, r.claim.refs[1], cut),
                         to |-> ShownAs(b, r.claim.refs[2], cut)]
           Page(b) == [name |-> ShownAs(b, x, cut), aliases |-> Surfaces(b, x, cut),
                       states |-> Snapshot(b, x, cut, at).state,
                       relations |-> {Rel(b, r) : r \in OneHop(b, x, cut, at)},
                       events |-> EntityEvents(b, x, cut, at)]
<1>1. EntitySet(e, cut) = EntitySet(d, cut) /\ DOMAIN e.entities = DOMAIN d.entities
  BY NamesAlike DEF Trimmed
<1>2. ASSUME x \in EntitySet(d, cut) PROVE InBook(d, x) /\ InBook(e, x)
  <2>1. PICK a \in KnownAliases(d, cut) : x = Canonical(d, a.of)
    BY <1>2 DEF EntitySet
  <2>2. a \in KnownAliases(d, Null) /\ a \in KnownAliases(e, Null)
    <3>1. KnownAliases(e, cut) = KnownAliases(d, cut)
      BY NamesAlike
    <3> QED
      BY <2>1, <3>1 DEF KnownAliases, Disclosed
  <2>3. CASE a.of \in DOMAIN d.resolved /\ d.resolved[a.of].run = d.active
    <3>1. d.resolved[a.of] = [canonical |-> x, run |-> d.active]
      BY <2>1, <2>3 DEF Canonical, Tidy
    <3> QED
      BY <2>3, <3>1 DEF InBook, Trimmed
  <2>4. CASE ~(a.of \in DOMAIN d.resolved /\ d.resolved[a.of].run = d.active)
    <3>1. a.of = x
      BY <2>1, <2>4 DEF Canonical
    <3> QED
      BY <2>2, <3>1 DEF InBook
  <2> QED
    BY <2>3, <2>4
<1>3. Hidden(e) <=> Hidden(d)
  BY <1>1, <1>2
<1>4. ASSUME NEW m PROVE ShownAs(e, m, cut) = ShownAs(d, m, cut)
  <2> DEFINE Safe(b) == DisplayName(b, Canonical(b, m), cut)
  <2>1. Canonical(e, m) = Canonical(d, m)
    BY SharedAlike
  <2>2. Safe(e) = Safe(d)
    BY <2>1, NamesAlike
  <2>3. \A b : ShownAs(b, m, cut) = IF Safe(b) = Null THEN Canonical(b, m) ELSE Safe(b)
    BY Zenon DEF ShownAs
  <2> HIDE DEF Safe
  <2> QED
    BY <2>1, <2>2, <2>3, Zenon
<1>5. Snapshot(e, x, cut, at).state = Snapshot(d, x, cut, at).state
  <2>1. \A b : Snapshot(b, x, cut, at).state = IF at # Null THEN WorldStateAt(b, x, at, cut)
                                              ELSE EntityState(b, x, cut)
    BY DEF Snapshot
  <2> QED
    BY <2>1, FactsAlike
<1>6. {Rel(e, r) : r \in OneHop(e, x, cut, at)} = {Rel(d, r) : r \in OneHop(d, x, cut, at)}
  <2>1. OneHop(e, x, cut, at) = OneHop(d, x, cut, at)
    BY FactsAlike
  <2>2. \A r : Rel(e, r) = Rel(d, r)
    BY <1>4
  <2> HIDE DEF Rel
  <2> QED
    BY <2>1, <2>2
<1>7. Page(e) = Page(d)
  <2>1. Surfaces(e, x, cut) = Surfaces(d, x, cut) /\ ShownAs(e, x, cut) = ShownAs(d, x, cut)
        /\ EntityEvents(e, x, cut, at) = EntityEvents(d, x, cut, at)
    BY <1>4, NamesAlike, FactsAlike
  <2> HIDE DEF Rel
  <2> QED
    BY <1>5, <1>6, <2>1, Zenon
<1>8. \A b : Detail(b, x, cut, at) = IF Hidden(b) THEN Null ELSE Page(b)
  BY Zenon DEF Detail
<1> HIDE DEF Hidden, Page
<1> QED
  BY <1>3, <1>7, <1>8, Zenon

\* All the pages before a cutoff.
LEMMA PagesAlike ==
  ASSUME CutoffInv, NEW e, NEW cut \in Nat, cut # Null, Trimmed(e, db, cut), NEW at
  PROVE  Pages(e, cut, at) = Pages(db, cut, at)
<1>1. Tidy(db) /\ DOMAIN e.entities = DOMAIN db.entities
  BY DEF CutoffInv, Trimmed
<1> DEFINE Entity(b) == [x \in DOMAIN b.entities |-> Detail(b, x, cut, at)]
           Graph(b) == [edges |-> GraphData(b, cut, at, 0).edges, nodes |-> Names(Catalog(b, cut, Null))]
           Org(b) == {OrgStateAt(b, x, at, cut) : x \in DOMAIN b.entities}
           Chapters(b) == {ChapterGraph(b, n, cut, at) : n \in DOMAIN Text}
           Chains(b) == {CausalPaths(b, c.v, cut, at, 3) : c \in CurrentEvents(b, cut, at)}
<1>2. Entity(e) = Entity(db)
  BY <1>1, DetailAlike
<1>3. Graph(e) = Graph(db)
  <2>1. /\ Catalog(e, cut, Null) = Catalog(db, cut, Null)
        /\ GraphData(e, cut, at, 0).edges = GraphData(db, cut, at, 0).edges
    BY <1>1, GraphAlike
  <2> QED
    BY <2>1, Zenon
<1>4. Org(e) = Org(db)
  BY <1>1, FactsAlike
<1>5. Chapters(e) = Chapters(db)
  <2>1. ASSUME NEW n PROVE ChapterGraph(e, n, cut, at) = ChapterGraph(db, n, cut, at)
    BY FactsAlike
  <2> QED
    BY <2>1
<1>6. Chains(e) = Chains(db)
  <2>1. CurrentEvents(e, cut, at) = CurrentEvents(db, cut, at)
    BY FactsAlike
  <2>2. ASSUME NEW v PROVE CausalPaths(e, v, cut, at, 3) = CausalPaths(db, v, cut, at, 3)
    BY ChainsAlike
  <2> QED
    BY <2>1, <2>2
<1>7. \A b : Pages(b, cut, at) = [entity |-> Entity(b), graph |-> Graph(b), org |-> Org(b),
                                  chapters |-> Chapters(b), chains |-> Chains(b)]
  BY Zenon DEF Pages
<1> HIDE DEF Entity, Graph, Org, Chapters, Chains
<1> QED
  BY <1>2, <1>3, <1>4, <1>5, <1>6, <1>7, Zenon

\* The entities found in a question.
LEMMA FoundAlike ==
  ASSUME NEW d, NEW e, NEW cut, Trimmed(e, d, cut), NEW q
  PROVE  /\ Found(e, q, cut) = Found(d, q, cut)
         /\ FindEntity(e, q, cut) = FindEntity(d, q, cut)
         /\ FindEntities(e, q, cut) = FindEntities(d, q, cut)
<1>1. KnownAliases(e, cut) = KnownAliases(d, cut) /\ e.resolved = d.resolved
  BY NamesAlike DEF Trimmed
<1>2. Found(e, q, cut) = Found(d, q, cut)
  BY <1>1, Zenon DEF Found
<1>3. FindEntity(e, q, cut) = FindEntity(d, q, cut)
  BY <1>2, Zenon DEF FindEntity
<1>4. FindEntities(e, q, cut) = FindEntities(d, q, cut)
  <2> DEFINE Each(found) ==
               LET named == SetToSortSeq(found, Longer)
                   First(i) == \A j \in 1..i - 1 : named[j][1] # named[i][1]
               IN [i \in 1..Cardinality({x[1] : x \in found}) |->
                      named[CHOOSE j \in DOMAIN named :
                          First(j) /\ Cardinality({k \in 1..j : First(k)}) = i][1]]
  <2>1. /\ FindEntities(e, q, cut) = Each(Found(e, q, cut))
        /\ FindEntities(d, q, cut) = Each(Found(d, q, cut))
    BY Zenon DEF FindEntities
  <2> HIDE DEF Each
  <2> QED
    BY <1>2, <2>1
<1> QED
  BY <1>2, <1>3, <1>4

\* What a question about entities selects.
LEMMA StructuredAlike ==
  ASSUME CutoffInv, NEW e, NEW cut \in Nat, cut # Null, Trimmed(e, db, cut), NEW q, NEW at
  PROVE  Structured(e, q, cut, at) = Structured(db, q, cut, at)
<1> DEFINE Who(b) == FindEntity(b, q, cut)[1]
           w == Who(db)
<1>1. Found(e, q, cut) = Found(db, q, cut) /\ Who(e) = w
  BY FoundAlike
<1>2. StateRows(e, w, cut, at) = StateRows(db, w, cut, at)
  <2>1. EntityState(e, w, cut) = EntityState(db, w, cut)
        /\ WorldStateAt(e, w, at, cut) = WorldStateAt(db, w, at, cut)
    BY FactsAlike
  <2> QED
    BY <2>1, Zenon DEF StateRows
<1>3. RelationRows(e, q, cut, at) = RelationRows(db, q, cut, at)
  <2> DEFINE es == FindEntities(db, q, cut)
  <2>1. FindEntities(e, q, cut) = es
    BY FoundAlike
  <2>2. Between(e, es[1], es[2], cut, at) = Between(db, es[1], es[2], cut, at)
        /\ OneHop(e, es[1], cut, at) = OneHop(db, es[1], cut, at)
    BY FactsAlike
  <2> HIDE DEF es
  <2>3. RelationRows(db, q, cut, at)
          = Claims(IF Len(es) >= 2 THEN Between(db, es[1], es[2], cut, at) ELSE OneHop(db, es[1], cut, at))
    BY Zenon DEF RelationRows, es
  <2>4. RelationRows(e, q, cut, at)
          = Claims(IF Len(es) >= 2 THEN Between(e, es[1], es[2], cut, at) ELSE OneHop(e, es[1], cut, at))
    BY <2>1, Zenon DEF RelationRows
  <2> DEFINE two == Len(es) >= 2
  <2>5. CASE two
    BY <2>2, <2>3, <2>4, <2>5, Zenon
  <2>6. CASE ~two
    BY <2>2, <2>3, <2>4, <2>6, Zenon
  <2> QED
    BY <2>5, <2>6
<1>4. OrgMembership(e, w, cut, at) = OrgMembership(db, w, cut, at)
  BY VersionsAlike
<1>5. EvolutionRows(e, w, cut, at) = EvolutionRows(db, w, cut, at)
  <2> DEFINE fs == RelationFacts(db, w, cut, at)
             All(b) == {Range(RelationEvolution(b, f, cut, at)) : f \in fs}
  <2>1. RelationFacts(e, w, cut, at) = fs
    BY VersionsAlike
  <2>2. \A f : RelationEvolution(e, f, cut, at) = RelationEvolution(db, f, cut, at)
    BY VersionsAlike
  <2> HIDE DEF fs
  <2>3. All(e) = All(db)
    BY <2>2
  <2>4. EvolutionRows(db, w, cut, at) = Claims(UNION All(db))
    BY Zenon DEF EvolutionRows, fs
  <2>5. EvolutionRows(e, w, cut, at) = Claims(UNION All(e))
    BY <2>1, Zenon DEF EvolutionRows
  <2> HIDE DEF All
  <2> QED
    BY <2>3, <2>4, <2>5
<1>6. CausalRows(e, w, cut, at) = CausalRows(db, w, cut, at)
  <2> DEFINE es == EntityEvents(db, w, cut, at)
             Of(p) == [claim |-> Head(p.edges), says |-> [conf |-> p.conf, events |-> p.events],
                       more |-> Tail(p.edges)]
             All(b) == {{Of(p) : p \in CausalPaths(b, r.claim.v, cut, at, 5)} : r \in es}
  <2>1. EntityEvents(e, w, cut, at) = es
    BY FactsAlike
  <2>2. ASSUME NEW v PROVE CausalPaths(e, v, cut, at, 5) = CausalPaths(db, v, cut, at, 5)
    BY ChainsAlike
  <2> HIDE DEF es, Of
  <2>3. All(e) = All(db)
    BY <2>2
  <2>4. CausalRows(db, w, cut, at) = UNION All(db)
    BY Zenon DEF CausalRows, es, Of
  <2>5. CausalRows(e, w, cut, at) = UNION All(e)
    BY <2>1, Zenon DEF CausalRows, Of
  <2> HIDE DEF All
  <2> QED
    BY <2>3, <2>4, <2>5
<1> HIDE DEF w
<1> DEFINE Answer(b, x) ==
             CASE Route(q) = "entity_state" -> StateRows(b, x, cut, at)
               [] Route(q) = "relation" -> RelationRows(b, q, cut, at)
               [] Route(q) = "org_membership" -> Claims(OrgMembership(b, x, cut, at))
               [] Route(q) = "relation_evolution" -> EvolutionRows(b, x, cut, at)
               [] Route(q) = "causal_chain" -> CausalRows(b, x, cut, at)
<1>7. \A b : Structured(b, q, cut, at) = IF Found(b, q, cut) = {} THEN {} ELSE Answer(b, Who(b))
  BY Zenon DEF Structured
<1>8. Answer(e, w) = Answer(db, w)
  BY <1>2, <1>3, <1>4, <1>5, <1>6, Zenon
<1>9. Who(db) = w
  BY DEF w
<1> HIDE DEF Answer, Who
<1> QED
  BY <1>1, <1>7, <1>8, <1>9, Zenon

\* What is said of a term, whichever it is.
LEMMA DefinitionAlike ==
  ASSUME NEW d, NEW e, NEW cut, Trimmed(e, d, cut), NEW term
  PROVE  Definition(e, term, cut) = Definition(d, term, cut)
<1>1. TermDefinition(e, term, cut) = TermDefinition(d, term, cut)
  BY FactsAlike
<1> QED
  BY <1>1, Zenon DEF Definition

\* What a question selects, by any route but that of the terms.
LEMMA ExecuteAlike ==
  ASSUME CutoffInv, NEW e, NEW cut \in Nat, cut # Null, Trimmed(e, db, cut), NEW ss, NEW q, NEW at,
         Route(q) # "term_definition"
  PROVE  Execute(e, ss, q, cut, at) = Execute(db, ss, q, cut, at)
<1>1. Plotline(e, ss, cut) = Plotline(db, ss, cut)
  <2>1. AllEvents(e, cut, Null, 30) = AllEvents(db, cut, Null, 30)
    BY VersionsAlike
  <2> QED
    BY <2>1, Zenon DEF Plotline
<1>2. ChapterGraph(e, q.chapter, cut, at) = ChapterGraph(db, q.chapter, cut, at)
  BY FactsAlike
<1>3. Structured(e, q, cut, at) = Structured(db, q, cut, at)
  BY StructuredAlike
<1> QED
  BY <1>1, <1>2, <1>3, Zenon DEF Execute

\* No page and no answer before a cutoff depends on what later chapters say: not
\* on their claims, names or links, nor on the full name of an entity.  Which term a
\* question is about may depend on them, what is said of it does not.
THEOREM CutoffsAreBlind == Spec => []CutoffBlind
<1>1. ASSUME BookSafe, CutoffInv PROVE CutoffBlind
  <2> SUFFICES ASSUME NEW cut \in Cutoffs \ {Null}
               PROVE  /\ \A at \in Worlds : Pages(db, cut, at) = Pages(Until(db, cut), cut, at)
                      /\ \A q \in Questions :
                             Execute(db, {}, q, cut, Null) =
                                 IF Route(q) = "term_definition"
                                 THEN Definition(Until(db, cut), FindTerm(db, q), cut)
                                 ELSE Execute(Until(db, cut), {}, q, cut, Null)
    BY Zenon DEF CutoffBlind
  <2>1. cut \in Nat /\ cut # Null
    BY QueryAssumption
  <2>2. Trimmed(Until(db, cut), db, cut)
    BY <1>1, UntilTrims DEF BookSafe, BookInv, CutoffInv
  <2>3. ASSUME NEW at PROVE Pages(db, cut, at) = Pages(Until(db, cut), cut, at)
    BY <1>1, <2>1, <2>2, PagesAlike
  <2>4. ASSUME NEW q, Route(q) # "term_definition"
        PROVE  Execute(db, {}, q, cut, Null) = Execute(Until(db, cut), {}, q, cut, Null)
    BY <1>1, <2>1, <2>2, <2>4, ExecuteAlike
  <2>5. ASSUME NEW q, Route(q) = "term_definition"
        PROVE  Execute(db, {}, q, cut, Null) = Definition(Until(db, cut), FindTerm(db, q), cut)
    <3>1. Execute(db, {}, q, cut, Null) = Definition(db, FindTerm(db, q), cut)
      BY <2>5, Zenon DEF Execute
    <3> QED
      BY <2>2, <3>1, DefinitionAlike
  <2> QED
    BY <2>3, <2>4, <2>5
<1> QED
  BY <1>1, CutoffSafety, PTL
=============================================================================
