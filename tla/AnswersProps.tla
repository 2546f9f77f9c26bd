---------------------------- MODULE AnswersProps ----------------------------
(* What the answers about a book promise, while it is resolved, linked,    *)
(* activated and asked about at the same time.                             *)
EXTENDS QueryExecution

CONSTANT Book    \* the claims and evidence the runs of the book have written

Tables == {"active", "claims", "observed", "evidence", "aliases", "named", "entities",
           "resolved", "links", "linked", "verified", "mentions", "met", "home",
           "unresolved", "audit", "primary"}

(* A version is one row.  An event is of one chapter, which is part of its    *)
(* fact id, and materialize_draft refuses evidence from another one.          *)
ASSUME BookAssumption ==
    /\ DOMAIN Book = Tables
    /\ Book.active = Null
    /\ Book.mentions = <<>> /\ Book.aliases = <<>>
    /\ DOMAIN Book.resolved = {} /\ DOMAIN Book.entities = {}
    /\ Book.links = {} /\ Book.linked = {}
    /\ IsFiniteSet(DOMAIN Book.claims)
    /\ \A i \in DOMAIN Book.claims : Book.claims[i].ord \in Nat
    /\ \A i, j \in DOMAIN Book.claims : Book.claims[i].v = Book.claims[j].v => i = j
    /\ \A i \in DOMAIN Book.claims, e \in Book.evidence :
           Book.claims[i].type = "event" /\ Book.claims[i].v = e.claim
               => e.chapter = Book.claims[i].ord

Spec == Init(Book) /\ [][Next]_qvars
-----------------------------------------------------------------------------
(* The book as it was when its first `cut` chapters were all there was. *)
Until(d, cut) ==
    LET Early(table) == [i \in {j \in DOMAIN table : Disclosed(table[j], cut)} |-> table[i]]
    IN [d EXCEPT !.claims = Early(@),
                 !.aliases = Early(@),
                 !.links = {l \in @ : Disclosed(l, cut)},
                 !.entities = [e \in DOMAIN @ |-> [@[e] EXCEPT !.name = "its full name"]]]

Names(page) == [x \in page |-> [id |-> x.id, name |-> x.name, aliases |-> x.aliases]]

(* What the pages of an entity and of the graph say before `cut`. *)
Pages(d, cut, at) ==
    [entity |-> [e \in DOMAIN d.entities |-> Detail(d, e, cut, at)],
     graph |-> [edges |-> GraphData(d, cut, at, 0).edges, nodes |-> Names(Catalog(d, cut, Null))],
     org |-> {OrgStateAt(d, e, at, cut) : e \in DOMAIN d.entities},
     chapters |-> {ChapterGraph(d, n, cut, at) : n \in DOMAIN Text},
     chains |-> {CausalPaths(d, c.v, cut, at, 3) : c \in CurrentEvents(d, cut, at)}]

\* No page and no answer before a cutoff depends on what later chapters say: the
\* database with only the earlier claims, aliases and links would give the same
\* (query/service.py and graph/queries.py filter before they rank, and never fall
\* back to the full name of an entity).  With one exception, the term a question is
\* taken to be about: _find_term of query/executor.py has no cutoff.  What is then
\* said of that term is no more than was known of it.
CutoffBlind ==
    \A cut \in Cutoffs \ {Null} :
        LET then == Until(db, cut)
        IN /\ \A at \in Worlds : Pages(db, cut, at) = Pages(then, cut, at)
           /\ \A q \in Questions :
                  Execute(db, {}, q, cut, Null) =
                      IF Route(q) = "term_definition" THEN Definition(then, FindTerm(db, q), cut)
                      ELSE Execute(then, {}, q, cut, Null)

\* What the served run says leads to what changes only by an activation or by a
\* link of the served run itself, however the events of other runs are linked and
\* verified over the same shared rows.
LinksStand ==
    [][\/ db'.active # db.active
       \/ \E c \in Commands : cmd[c].op = "link" /\ cmd[c].run = db.active
       \/ \A x \in Range(db.claims) :
              CausalPaths(db, x.v, Null, Null, 3)' = CausalPaths(db, x.v, Null, Null, 3)]_qvars

\* Wherever a resolve dies, and whichever run resolved a mention before, every
\* merge of a mention into another entity that queries can see is on record.
MergesAudited ==
    \A m \in DOMAIN db.resolved :
        LET p == db.resolved[m]
        IN m # p.canonical => <<m, p.canonical, p.run>> \in db.audit

\* An answer, from the cache too, was read from runs that were active at some time
\* between the question and the answer.
AnswersOfTheirTime ==
    \A x \in Readers : On(x, "answered") => reader[x].read \subseteq reader[x].during
-----------------------------------------------------------------------------
(* The strengthenings that make these properties inductive. *)

Fields == {"step", "key", "rows", "sources", "read", "during"}

\* One run is served at a time, and none a second time.
Served(r) == r \in Runs /\ stage[r] \in {"active", "superseded"}

BookInv ==
    /\ DOMAIN db = Tables
    /\ stage \in [Runs -> stages]
    /\ \A r \in Runs : stage[r] = "active" <=> db.active = r
    /\ db.active \in Runs \cup {Null}

CommandInv == /\ DOMAIN cmd = Commands
              /\ \A c \in Commands : DOMAIN cmd[c] = {"op", "run", "plan", "step"}

\* What a resolve still has to merge was an entity of its own when it became a
\* row, so its merge goes on record, and does so first.
Planned(c) ==
    /\ cmd[c].plan \in Seq(Range(cmd[c].plan)) /\ cmd[c].plan # <<>>
    /\ \A x \in Range(cmd[c].plan) : x.m \in DOMAIN db.entities
    /\ cmd[c].step = "project" =>
           \/ Item(c).m = Item(c).to
           \/ <<Item(c).m, Item(c).to, cmd[c].run>> \in db.audit

MergeInv ==
    /\ db.mentions \in Seq(MentionRow)
    /\ \A i \in DOMAIN db.mentions : db.mentions[i].m \in DOMAIN db.entities
    /\ \A c \in Commands : cmd[c].op = "resolve" => Planned(c)

\* A run is a member of no link that is not there.
LinkInv == \A p \in db.linked : \E l \in db.links : l.v = p[1]

\* What is shown of aliases, entities and resolutions.
AliasRow == [v : {<<x.m, y.surface>> : x, y \in Drafted}, of : {x.m : x \in Drafted},
             surface : {x.surface : x \in Drafted}, op : {"assert"}, ord : {x.ord : x \in Drafted}]

Tidy(d) ==
    /\ d.aliases \in Seq(AliasRow)
    /\ \A e \in DOMAIN d.entities : DOMAIN d.entities[e] = {"name", "importance"}
    /\ \A m \in DOMAIN d.resolved :
           LET p == d.resolved[m]
           IN p = [canonical |-> p.canonical, run |-> p.run]

\* A link is planned between events that its run has evidence of, so it is not
\* disclosed before either of them.
Linkable(c) ==
    /\ cmd[c].plan \in Seq(Range(cmd[c].plan)) /\ cmd[c].plan # <<>>
    /\ \A x \in Range(cmd[c].plan) :
           /\ {x.src, x.tgt} \subseteq {k \in Range(db.claims) : k.type = "event"}
           /\ x.src.ord < x.tgt.ord
           /\ EvidenceFor(db, cmd[c].run, x.tgt.v) # {}

LateEnough(l) ==
    /\ l.ord \in Nat
    /\ \A i \in DOMAIN db.claims :
           db.claims[i].type = "event" /\ db.claims[i].v \in {l.src, l.tgt}
               => db.claims[i].ord <= l.ord

CutoffInv ==
    /\ db.claims = Book.claims /\ db.evidence = Book.evidence
    /\ Tidy(db)
    /\ \A l \in db.links : LateEnough(l)
    /\ \A c \in Commands : cmd[c].op = "link" => Linkable(c)

\* Questions under way about the same run have seen the same changes since, and
\* what is cached about it was read from runs they have seen.
Asking(x) == ~On(x, "rest")

ReaderInv ==
    /\ DOMAIN reader = Readers
    /\ \A x \in Readers : DOMAIN reader[x] = Fields
    /\ \A x \in {y \in Readers : Asking(y)} :
           /\ Served(reader[x].key.run)
           /\ db.active \in reader[x].during
           /\ reader[x].key.run = db.active => reader[x].during = {db.active}
           /\ reader[x].read \subseteq reader[x].during
    /\ \A x, y \in {z \in Readers : Asking(z)} :
           reader[x].key.run = reader[y].key.run => reader[x].during = reader[y].during

CacheInv ==
    \A k \in DOMAIN cache :
        /\ Served(k.run)
        /\ k.run = db.active => cache[k].read \subseteq {db.active}
        /\ \A x \in Readers : Asking(x) /\ reader[x].key.run = k.run
                                => cache[k].read \subseteq reader[x].during
=============================================================================
