----------------------------- MODULE Projections ----------------------------
(***************************************************************************)
(* What the commands between align and activate make of a run's mentions   *)
(* and events: src/novelcanon/resolution (which mention is which entity),  *)
(* src/novelcanon/events (which event leads to which), and the mention     *)
(* half of extraction/materialize.py that they start from.  entities,      *)
(* entity_mentions, entity_resolutions and event_links are shared by all   *)
(* runs of a book; only the *_observations and event_link_verifications    *)
(* rows say which run a row belongs to.                                    *)
(*                                                                         *)
(* db is the database of StoryQueries with, besides,                       *)
(*   db.mentions    entity_mentions in rowid order, [m, surface, ord, at]  *)
(*   db.met         mention_observations: pairs <<mention, run>>           *)
(*   db.home        entity_mentions.canonical_id                           *)
(*   db.unresolved  unresolved_mentions: pairs <<mention, run>>            *)
(*   db.audit       entity_merge_audit: <<from, to, run>>                  *)
(*   db.primary     event_links.primary_evidence_id                        *)
(* A surface is <<name, length>>: name is what normalize_surface leaves of *)
(* it.  The text of chapter n is Text[n], a sequence of sentences, each    *)
(* the set of event summaries and connectives found in it.                 *)
(***************************************************************************)
EXTENDS StoryQueries

CONSTANTS Runs, Commands,  \* runs of one book; concurrent command processes
          Drafts,          \* run -> its mentions in order, [m, surface, ord, at]
          Text, Generic,   \* chapters; names that are titles, not persons
          MaxGap,          \* EventLinker.max_ordinal_gap
          MaxStarts        \* bound: commands started in a behaviour

VARIABLES db, stage, cmd, starts

Drafted == UNION {Range(Drafts[r]) : r \in Runs}
MentionRow == [m : {x.m : x \in Drafted}, surface : {x.surface : x \in Drafted},
               ord : {x.ord : x \in Drafted}, at : {x.at : x \in Drafted}]

ASSUME ProjectionsAssumption ==
    /\ Null \notin Runs
    /\ \A r \in Runs : Drafts[r] \in Seq(MentionRow)
    /\ \A x \in Drafted : x.ord \in Nat /\ x.surface # Null

stages == {"extracted", "aligned", "active", "superseded"}
pvars == <<db, stage, cmd, starts>>

Idle == [op |-> "idle", run |-> Null, plan |-> <<>>, step |-> "ensure"]

-----------------------------------------------------------------------------
(* Mentions of a chapter become rows (materialize_draft) *)

(* INSERT OR REPLACE of the row with this key. *)
Put(table, key, row) ==
    [k \in DOMAIN table \cup {key} |-> IF k = key THEN row ELSE table[k]]

Has(d, m) == \E i \in DOMAIN d.mentions : d.mentions[i].m = m

(* An entity of its own keeps the first name it got; the mention row keeps  *)
(* its first surface but takes the position found for the new one.          *)
WithMention(d, x, r) ==
    LET alias == [v |-> <<x.m, x.surface>>, of |-> x.m, surface |-> x.surface,
                  op |-> "assert", ord |-> x.ord]
        known == \E i \in DOMAIN d.aliases : d.aliases[i].v = alias.v
        named == [name |-> x.surface, importance |-> 0]
    IN [d EXCEPT
         !.entities = IF x.m \in DOMAIN @ THEN @ ELSE Put(@, x.m, named),
         !.mentions = IF Has(d, x.m)
                      THEN [i \in DOMAIN @ |->
                              IF @[i].m = x.m THEN [@[i] EXCEPT !.at = x.at] ELSE @[i]]
                      ELSE Append(@, x),
         !.home = IF x.m \in DOMAIN @ THEN @ ELSE Put(@, x.m, x.m),
         !.met = @ \cup {<<x.m, r>>},
         !.aliases = IF known THEN @ ELSE Append(@, alias),
         !.named = @ \cup {<<alias.v, r>>}]

WithMentions(d, r) ==
    LET after[n \in 0..Len(Drafts[r])] ==
            IF n = 0 THEN d ELSE WithMention(after[n - 1], Drafts[r][n], r)
    IN after[Len(Drafts[r])]

(* align: the chapters of a run, here in one step (ClaimStore has its        *)
(* transactions); the claims and their evidence are in db from the start.    *)
Align(r) ==
    /\ stage[r] = "extracted"
    /\ db' = WithMentions(db, r)
    /\ stage' = [stage EXCEPT ![r] = "aligned"]
    /\ UNCHANGED <<cmd, starts>>

-----------------------------------------------------------------------------
(* The plan of a resolution (EntityResolver) *)

(* The rows of the mentions of a run. *)
Mentions(d, r) == {i \in DOMAIN d.mentions : <<d.mentions[i].m, r>> \in d.met}

(* The entity an alias row stands for, if that is settled. *)
Settled(d, e) ==
    IF e \in DOMAIN d.resolved THEN d.resolved[e].canonical
    ELSE IF Has(d, e) \/ e \notin DOMAIN d.entities THEN Null ELSE e

(* Surfaces the active run has settled, for another run to start from: the   *)
(* first disclosure of a surface counts, the last surface of a name.         *)
Seeds(d, r) ==
    LET Trusted(a) == <<a.v, d.active>> \in d.named /\ Settled(d, a.of) # Null
        Before(a, b) == a.ord < b.ord
        rows == IF d.active \in {Null, r} THEN <<>>
                ELSE SortSeq(SelectSeq(d.aliases, Trusted), Before)
        First(i) == \A j \in 1..i : rows[j].surface = rows[i].surface => j = i
        Last_(i) == \A j \in i + 1..Len(rows) :
                       First(j) => rows[j].surface[1] # rows[i].surface[1]
    IN [n \in {rows[i].surface[1] : i \in DOMAIN rows} |->
          Settled(d, rows[CHOOSE i \in DOMAIN rows :
                            rows[i].surface[1] = n /\ First(i) /\ Last_(i)].of)]

(* Mentions of one name are one person when they share a chapter, when a    *)
(* chapter has two of them, or when their chapters follow one another.      *)
SameIdentity(group) ==
    LET chapters == {x.ord : x \in group}
    IN \/ Cardinality(chapters) < Cardinality(group)
       \/ \A o \in chapters : o = Min(chapters) \/ o - 1 \in chapters

(* A canonical id comes from where the group is met first, never from names. *)
CanonicalFor(group) ==
    LET first == CHOOSE x \in group : \A y \in group :
                     x.ord < y.ord \/ (x.ord = y.ord /\ x.at <= y.at)
    IN <<"ent", first.ord, first.at>>

Verdict(seeds, group, x) ==
    LET name == x.surface[1] IN
    IF name \in Generic THEN Null
    ELSE IF name \in DOMAIN seeds THEN seeds[name]
    ELSE IF SameIdentity(group) THEN CanonicalFor(group) ELSE Null

(* What becomes of mention i: what is resolved comes first, name by name in  *)
(* the order the names are met, and titles come before other unresolved.     *)
Decided(d, i, to, first) ==
    LET x == d.mentions[i]
        turn == IF to # Null THEN <<0>> \o first
                ELSE IF x.surface[1] \in Generic THEN <<1>> ELSE <<2>> \o first
    IN [m |-> x.m, surface |-> x.surface, to |-> to, rank |-> turn \o <<x.ord, i>>]

Earlier(a, b) == \E i \in DOMAIN a : a[i] < b[i] /\ \A j \in 1..i - 1 : a[j] = b[j]

Plan(d, r) ==
    LET seeds == Seeds(d, r)
        Group(i) == {j \in Mentions(d, r) : d.mentions[j].surface[1] = d.mentions[i].surface[1]}
        To(i) == Verdict(seeds, {d.mentions[j] : j \in Group(i)}, d.mentions[i])
        At(i) == <<d.mentions[i].ord, i>>
        Met(i) == CHOOSE a \in {At(j) : j \in Group(i)} :
                      \A j \in Group(i) : ~Earlier(At(j), a)
    IN {Decided(d, i, To(i), Met(i)) : i \in Mentions(d, r)}

-----------------------------------------------------------------------------
(* resolve, one transaction after the other (ResolutionService) *)

(* These items one after the other, by their ranks. *)
InOrder(items) ==
    {p \in [1..Cardinality(items) -> items] :
        \A i, j \in DOMAIN p : i < j => p[i] # p[j] /\ ~Earlier(p[j].rank, p[i].rank)}

Start(c, op, r, items) ==
    /\ cmd[c] = Idle /\ starts < MaxStarts
    /\ stage[r] # "extracted"
    /\ \E plan \in InOrder(items) :
         cmd' = [cmd EXCEPT ![c] =
                   IF plan = <<>> THEN Idle
                   ELSE [op |-> op, run |-> r, plan |-> plan, step |-> "ensure"]]
    /\ starts' = starts + 1
    /\ UNCHANGED <<db, stage>>

Resolve(c, r) == Start(c, "resolve", r, Plan(db, r))

Doing(c, op, step) == cmd[c].op = op /\ cmd[c].step = step
Item(c) == Head(cmd[c].plan)
GoTo(c, step) == cmd' = [cmd EXCEPT ![c].step = step]
Pop(c) == cmd' = [cmd EXCEPT ![c] =
                    IF Len(cmd[c].plan) = 1 THEN Idle
                    ELSE [cmd[c] EXCEPT !.plan = Tail(cmd[c].plan), !.step = "ensure"]]

Ensure(c) ==
    /\ Doing(c, "resolve", "ensure") /\ Item(c).to # Null
    /\ db' = [db EXCEPT !.entities =
                 IF Item(c).to \in DOMAIN @ THEN @
                 ELSE Put(@, Item(c).to, [name |-> Item(c).surface, importance |-> 0])]
    /\ GoTo(c, "audit")
    /\ UNCHANGED <<stage, starts>>

(* With a mistake: a mention resolved before is taken for merged already. *)
AuditOnce(c) ==
    /\ Doing(c, "resolve", "audit")
    /\ db' = [db EXCEPT !.audit = @ \cup
                 IF Item(c).m \notin DOMAIN db.resolved
                 THEN {<<Item(c).m, Item(c).to, cmd[c].run>>} ELSE {}]
    /\ GoTo(c, "project")
    /\ UNCHANGED <<stage, starts>>

(* A mention that was an entity of its own is merged on record. *)
Audit(c) ==
    /\ Doing(c, "resolve", "audit")
    /\ db' = [db EXCEPT !.audit = @ \cup
                 IF Item(c).m # Item(c).to /\ Item(c).m \in DOMAIN db.entities
                 THEN {<<Item(c).m, Item(c).to, cmd[c].run>>} ELSE {}]
    /\ GoTo(c, "project")
    /\ UNCHANGED <<stage, starts>>

(* One row per mention, whichever run resolved it last. *)
Project(c) ==
    /\ Doing(c, "resolve", "project")
    /\ db' = [db EXCEPT !.resolved =
                 Put(@, Item(c).m, [canonical |-> Item(c).to, run |-> cmd[c].run])]
    /\ GoTo(c, "rewrite")
    /\ UNCHANGED <<stage, starts>>

Rewrite(c) ==
    /\ Doing(c, "resolve", "rewrite")
    /\ db' = [db EXCEPT !.home[Item(c).m] = Item(c).to]
    /\ Pop(c)
    /\ UNCHANGED <<stage, starts>>

(* An earlier resolution of the mention stays. *)
Unresolve(c) ==
    /\ Doing(c, "resolve", "ensure") /\ Item(c).to = Null
    /\ db' = [db EXCEPT !.unresolved = @ \cup {<<Item(c).m, cmd[c].run>>}]
    /\ Pop(c)
    /\ UNCHANGED <<stage, starts>>

-----------------------------------------------------------------------------
(* link (EventLinker, LinkVerifier, EventLinkService) *)

(* Participants as whatever run last resolved them. *)
Cast(d, ev) == {IF p \in DOMAIN d.resolved THEN d.resolved[p].canonical ELSE p
                : p \in Range(ev.refs)}

Supported(d, r, ev) ==
    LET shown == EvidenceFor(d, r, ev.v)
    IN Stands(ev) /\ shown # {} /\ \A e \in shown : e.stance = "supports"

Events(d, r) == {c \in Range(d.claims) : /\ c.type = "event" /\ c.refs # <<>>
                                         /\ <<c.v, r>> \in d.observed /\ Supported(d, r, c)}

(* Pairs with a participant in common, the earlier event first; the same    *)
(* place makes it a cause.  The stronger candidates come first.             *)
Candidates(d, r) ==
    LET pairs == {p \in Events(d, r) \X Events(d, r) :
                     /\ Cast(d, p[1]) \cap Cast(d, p[2]) # {}
                     /\ p[1].ord < p[2].ord /\ p[2].ord - p[1].ord <= MaxGap}
        Linked(s, t, conf) ==
            [src |-> s, tgt |-> t, type |-> IF conf = 8 THEN "causes" ELSE "enables",
             conf |-> conf, rank |-> <<0 - conf, s.ord, t.ord>>]
        Here(s, t) == s.place # Null /\ s.place = t.place
    IN {Linked(p[1], p[2], IF Here(p[1], p[2]) THEN 8 ELSE 6) : p \in pairs}

Link(c, r) == Start(c, "link", r, Candidates(db, r))

(* The first sentence of the target's chapter that tells the source event   *)
(* together with a connective; 0 if there is none.                          *)
Told(x) ==
    LET says == {i \in DOMAIN Text[x.tgt.ord] : {x.src.v, "so"} \subseteq Text[x.tgt.ord][i]}
    IN IF says = {} THEN 0 ELSE Min(says)

(* With a mistake: the verdict is recorded for the run that is served. *)
RecordForActive(d, v, r, told) ==
    [d EXCEPT !.verified =
                 Put(@, <<v, d.active>>,
                     [status |-> IF told = 0 THEN "unverified" ELSE "supported", at |-> told]),
              !.linked = @ \cup {<<v, d.active>>}]

(* The verdict of this run on the link, and its membership. *)
Record(d, v, r, told) ==
    [d EXCEPT !.verified =
                 Put(@, <<v, r>>,
                     [status |-> IF told = 0 THEN "unverified" ELSE "supported", at |-> told]),
              !.linked = @ \cup {<<v, r>>}]

(* write_event_link: an existing row keeps everything but its anchor. *)
WriteLink(c) ==
    LET x == Item(c)
        r == cmd[c].run
        v == <<x.src.v, x.type, x.tgt.v>>
        seen == {e.chapter : e \in EvidenceFor(db, r, x.src.v) \cup EvidenceFor(db, r, x.tgt.v)}
        o == IF seen = {} THEN x.tgt.ord ELSE Max(seen)
        row == [v |-> v, src |-> x.src.v, tgt |-> x.tgt.v, type |-> x.type, conf |-> x.conf,
                ord |-> o, world |-> [kind |-> "chapter_proxy", from |-> o, to |-> Null]]
        anchors == {e \in EvidenceFor(db, r, x.src.v) : e.stance = "supports"}
        new == \A l \in db.links : l.v # v
        judged == Record(db, v, r, Told(x))
    IN /\ Doing(c, "link", "ensure")
       /\ \E a \in IF anchors = {} THEN {Null} ELSE anchors :
            db' = [judged EXCEPT
                     !.links = IF new THEN @ \cup {row} ELSE @,
                     !.primary = IF new \/ a # Null THEN Put(@, v, a) ELSE @]
       /\ Pop(c)
       /\ UNCHANGED <<stage, starts>>

-----------------------------------------------------------------------------
(* A command dies; the active run changes *)

Kill(c) ==
    /\ cmd[c] # Idle
    /\ cmd' = [cmd EXCEPT ![c] = Idle]
    /\ UNCHANGED <<db, stage, starts>>

(* Activator.activate, which RunLifecycle has in full. *)
Activate(r) ==
    /\ stage[r] = "aligned"
    /\ stage' = [q \in Runs |-> IF q = r THEN "active"
                                ELSE IF stage[q] = "active" THEN "superseded" ELSE stage[q]]
    /\ db' = [db EXCEPT !.active = r]
    /\ UNCHANGED <<cmd, starts>>

Work(c) == Ensure(c) \/ Audit(c) \/ Project(c) \/ Rewrite(c) \/ Unresolve(c) \/ WriteLink(c)
           \/ Kill(c)

Change == \/ \E r \in Runs : Align(r) \/ Activate(r)
          \/ \E c \in Commands : Work(c) \/ \E r \in Runs : Resolve(c, r) \/ Link(c, r)

(* Book: the claims and evidence of the runs, nothing else written yet. *)
InitFrom(book) ==
    /\ db = book
    /\ stage = [r \in Runs |-> "extracted"]
    /\ cmd = [c \in Commands |-> Idle]
    /\ starts = 0
=============================================================================
