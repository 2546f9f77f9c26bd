---------------------------- MODULE StoryQueries ----------------------------
(***************************************************************************)
(* The structured queries of src/novelcanon/query/service.py and the       *)
(* entity graph of src/novelcanon/graph/queries.py, as functions of the    *)
(* contents db of the database.  Every operator is one public method: what *)
(* it returns for the book's active run, a reader's cutoff `cut` and a     *)
(* world time `at` (Null: the parameter was not given).                    *)
(*                                                                         *)
(*   db.active      the active run, or Null                                *)
(*   db.claims      the claim versions of the book by rowid, each          *)
(*                  [v, fact, type, op, status, ord, world, refs, what,    *)
(*                  seq, place], the last two for events;                  *)
(*                  refs are the entities its payload row names            *)
(*   db.observed    claim_observations: pairs <<version, run>>             *)
(*   db.evidence    claim_evidence, [claim, run, stance, chapter, span]    *)
(*   db.aliases     entity_alias_claims by rowid,                          *)
(*                  [v, of, surface, op, ord]                              *)
(*   db.named       alias_observations: pairs <<version, run>>             *)
(*   db.entities    entities: id -> [name, importance]                     *)
(*   db.resolved    entity_resolutions: mention -> [canonical, run]        *)
(*   db.links       event_links, [v, src, tgt, type, conf, ord, world]     *)
(*   db.linked      event_link_observations: pairs <<link, run>>           *)
(*   db.verified    event_link_verifications:                              *)
(*                  <<link, run>> -> [status, at]                          *)
(*                                                                         *)
(* Wording of rows, paging and ORDER BY are left out, except where LIMIT   *)
(* or "the last row wins" makes the order part of the answer.              *)
(***************************************************************************)
EXTENDS Integers, Sequences, FiniteSets, SequencesExt, FiniteSetsExt

CONSTANT Null    \* an absent id, cutoff or world time

-----------------------------------------------------------------------------
(* The clauses every query is put together from *)

Disclosed(row, cut) == cut = Null \/ row.ord <= cut

(* The interval test of _world_sql, world_state_at, org_state_at and of the *)
(* links: an unknown world time never matches a world time that was asked. *)
InWorld(row, at) ==
    \/ at = Null
    \/ /\ row.world.kind = "story_time"
       /\ row.world.from <= at
       /\ row.world.to = Null \/ row.world.to >= at
    \/ row.world.kind = "chapter_proxy" /\ row.world.from <= at

(* v_active_claims, by row number *)
ActiveRows(db) == {i \in DOMAIN db.claims : <<db.claims[i].v, db.active>> \in db.observed}

(* What a ranked row must be to count as a current fact. *)
Stands(row) == row.op # "retract" /\ row.status = "supported"

(* Rows that pass every filter, ranked per key: the last one counts. *)
Latest(db, rows, Key(_)) ==
    {db.claims[i] : i \in {j \in rows : \A k \in rows :
        Key(db.claims[k]) = Key(db.claims[j]) => k <= j}}

(* With a mistake: versions are ranked before the reader's cutoff is applied, *)
(* so a version of a later chapter hides the one the reader knows.            *)
CurrentRanked(db, rows, cut, at) ==
    LET Fact(c) == c.fact
    IN {c \in Latest(db, rows \cap ActiveRows(db), Fact) :
            Stands(c) /\ Disclosed(c, cut) /\ InWorld(c, at)}

(* The current facts among these rows of the claims. *)
Current(db, rows, cut, at) ==
    LET seen == {i \in rows \cap ActiveRows(db) : /\ Disclosed(db.claims[i], cut)
                                                 /\ InWorld(db.claims[i], at)}
        Fact(c) == c.fact
    IN {c \in Latest(db, seen, Fact) : Stands(c)}

(* The evidence of a version for a service that read `run` as the active    *)
(* run: its own rows, and a legacy row only for a span it did not verify.   *)
EvidenceFor(db, run, v) ==
    {e \in db.evidence :
        /\ e.claim = v
        /\ \/ run = Null \/ e.run = run
           \/ e.run = Null /\ ~\E f \in db.evidence :
                 [f EXCEPT !.stance = e.stance] = [e EXCEPT !.run = run]}

WithEvidence(db, rows) == {[claim |-> c, evidence |-> EvidenceFor(db, db.active, c.v)] : c \in rows}

-----------------------------------------------------------------------------
(* Entities and their names *)

(* An entity and every mention resolved to it, by whichever run. *)
Scope(db, e) == {e} \cup {m \in DOMAIN db.resolved : db.resolved[m].canonical = e}

(* The projection the active run has of a mention; itself when it has none. *)
Canonical(db, m) ==
    IF m \in DOMAIN db.resolved /\ db.resolved[m].run = db.active
    THEN db.resolved[m].canonical ELSE m

ActiveAliases(db) == {i \in DOMAIN db.aliases : <<db.aliases[i].v, db.active>> \in db.named}

(* The name disclosed last before the cutoff. *)
DisplayName(db, e, cut) ==
    LET known == [i \in {j \in ActiveAliases(db) : /\ Canonical(db, db.aliases[j].of) = e
                                                   /\ Disclosed(db.aliases[j], cut)} |-> db.aliases[i]]
        Later(i, j) == \/ known[i].ord > known[j].ord
                       \/ known[i].ord = known[j].ord /\ i >= j
    IN IF DOMAIN known = {} THEN Null
       ELSE known[CHOOSE i \in DOMAIN known : \A j \in DOMAIN known : Later(i, j)].surface

-----------------------------------------------------------------------------
(* States, relations and organisations *)

Touches(c, type, scope) == c.type = type /\ Range(c.refs) \cap scope # {}
OfType(db, type) == {i \in DOMAIN db.claims : db.claims[i].type = type}
Touching(db, type, scope) == {i \in DOMAIN db.claims : Touches(db.claims[i], type, scope)}

EntityState(db, e, cut) ==
    WithEvidence(db, Current(db, Touching(db, "state", Scope(db, e)), cut, Null))

CurrentState(db, e, field, cut) == {s \in EntityState(db, e, cut) : s.claim.what = field}

WorldStateAt(db, e, at, cut) ==
    WithEvidence(db, Current(db, Touching(db, "state", Scope(db, e)), cut, at))

OneHop(db, e, cut, at) ==
    WithEvidence(db, Current(db, Touching(db, "relation", Scope(db, e)), cut, at))

Between(db, a, b, cut, at) ==
    LET Joins(x, y, c) == c.refs[1] \in Scope(db, x) /\ c.refs[2] \in Scope(db, y)
        rows == {i \in OfType(db, "relation") : Joins(a, b, db.claims[i]) \/ Joins(b, a, db.claims[i])}
    IN WithEvidence(db, Current(db, rows, cut, at))

OrgStateAt(db, e, at, cut) ==
    WithEvidence(db, Current(db, Touching(db, "org", Scope(db, e)), cut, at))

(* Members of an organisation: the last action of each (org, member) pair of *)
(* ids, whatever its fact; one that leaves or dissolves ends the membership. *)
OrgMembership(db, e, cut, at) ==
    LET rows == {i \in ActiveRows(db) \cap Touching(db, "org", Scope(db, e)) :
                    Disclosed(db.claims[i], cut) /\ InWorld(db.claims[i], at)}
        Pair(c) == c.refs
    IN WithEvidence(db, {c \in Latest(db, rows, Pair) :
                             Stands(c) /\ c.what \notin {"leave", "dissolve"}})

-----------------------------------------------------------------------------
(* The versions of a fact *)

(* By row number, which is the order they were written in. *)
Versions(db, f, cut, at) ==
    [i \in {j \in ActiveRows(db) : /\ db.claims[j].fact = f
                                   /\ Disclosed(db.claims[j], cut)
                                   /\ InWorld(db.claims[j], at)} |-> db.claims[i]]

ClaimHistory(db, f, cut) == Versions(db, f, cut, Null)

RelationEvolution(db, f, cut, at) ==
    LET rows == Versions(db, f, cut, at)
    IN [i \in {j \in DOMAIN rows : rows[j].type = "relation"} |->
           [claim |-> rows[i], evidence |-> EvidenceFor(db, db.active, rows[i].v)]]

(* Facts of an entity's relations, ended ones included. *)
RelationFacts(db, e, cut, at) ==
    {db.claims[i].fact : i \in {j \in ActiveRows(db) \cap Touching(db, "relation", Scope(db, e)) :
        Disclosed(db.claims[j], cut) /\ InWorld(db.claims[j], at)}}

(* Where a version is quoted from: one of these rows (LIMIT 1). *)
ChapterCitation(db, run, v) ==
    LET found == EvidenceFor(db, run, v)
    IN UNION {{[ord |-> db.claims[i].ord, evidence |-> e] :
                   e \in IF found = {} THEN {Null} ELSE found}
              : i \in {j \in DOMAIN db.claims : db.claims[j].v = v}}

-----------------------------------------------------------------------------
(* Events *)

EventParticipants(db, v) ==
    LET Fact(c) == c.fact
    IN {[claim |-> c, evidence |-> EvidenceFor(db, db.active, v),
         who |-> {<<p, db.entities[p].name>> : p \in Range(c.refs) \cap DOMAIN db.entities}]
        : c \in {d \in Latest(db, ActiveRows(db), Fact) :
                     d.v = v /\ d.type = "event" /\ Stands(d)}}

(* The events of one chapter: no cutoff, and no ranking of versions. *)
WorldEventsAt(db, ordinal, e) ==
    WithEvidence(db, {db.claims[i] : i \in {j \in ActiveRows(db) :
        LET c == db.claims[j]
        IN /\ c.type = "event" /\ Stands(c) /\ c.ord = ordinal /\ c.refs # <<>>
           /\ e = Null \/ Range(c.refs) \cap Scope(db, e) # {}}})

CurrentEvents(db, cut, at) == Current(db, OfType(db, "event"), cut, at)

(* The first `limit` current events by chapter and place in it. *)
AllEvents(db, cut, at, limit) ==
    LET Before(c, d) == c.ord < d.ord \/ (c.ord = d.ord /\ c.seq <= d.seq)
        rows == SetToSortSeq(CurrentEvents(db, cut, at), Before)
    IN [i \in 1..Min({limit, Len(rows)}) |->
           [claim |-> rows[i], evidence |-> EvidenceFor(db, db.active, rows[i].v)]]

(* The participants are matched after the ranking. *)
EntityEvents(db, e, cut, at) ==
    WithEvidence(db, {c \in CurrentEvents(db, cut, at) : Range(c.refs) \cap Scope(db, e) # {}})

EventSummary(db, v) == {db.claims[i] : i \in {j \in DOMAIN db.claims :
                            db.claims[j].v = v /\ db.claims[j].type = "event"}}

-----------------------------------------------------------------------------
(* Cause and effect *)

Verified(db, v) == /\ <<v, db.active>> \in DOMAIN db.verified
                   /\ db.verified[<<v, db.active>>].status = "supported"

(* Links the active run observed and verified, of these types. *)
Edges(db, types, cut, at) ==
    {l \in db.links : /\ <<l.v, db.active>> \in db.linked
                      /\ Verified(db, l.v)
                      /\ l.type \in types
                      /\ Disclosed(l, cut) /\ InWorld(l, at)}

LinkEvidence(db, path) ==
    [i \in DOMAIN path |-> IF Verified(db, path[i].v)
                           THEN db.verified[<<path[i].v, db.active>>].at ELSE Null]

Confidence(path) == FoldLeft(LAMBDA x, l : x * l.conf, 1, path)

Trace(db, path) ==
    [edges |-> [i \in DOMAIN path |-> path[i].v],
     conf |-> Confidence(path),
     events |-> <<EventSummary(db, path[1].src)>>
                    \o [i \in DOMAIN path |-> EventSummary(db, path[i].tgt)],
     evidence |-> LinkEvidence(db, path)]

Visited(path) == {l.src : l \in Range(path)} \cup {l.tgt : l \in Range(path)}

(* What an event leads to: no path visits an event twice. *)
PathsFrom(v, edges, depth) ==
    LET paths[n \in 1..depth] ==
            IF n = 1 THEN {<<l>> : l \in {k \in edges : k.src = v}}
            ELSE UNION {{Append(p, l) : l \in {k \in edges :
                            k.src = Last(p).tgt /\ k.tgt \notin Visited(p)}} : p \in paths[n - 1]}
    IN UNION {paths[n] : n \in 1..depth}

CausalPaths(db, v, cut, at, depth) ==
    {Trace(db, p) : p \in PathsFrom(v, Edges(db, {"causes", "enables"}, cut, at), depth)}

(* What an event results from: the links "causes", backwards. *)
CausalResults(db, v, cut, at, depth) ==
    LET edges == Edges(db, {"causes"}, cut, at)
        paths[n \in 1..depth] ==
            IF n = 1 THEN {<<l>> : l \in {k \in edges : k.tgt = v}}
            ELSE UNION {{<<l>> \o p : l \in {k \in edges :
                            k.tgt = Head(p).src /\ k.src \notin Visited(p)}} : p \in paths[n - 1]}
    IN {Trace(db, p) : p \in UNION {paths[n] : n \in 1..depth}}

-----------------------------------------------------------------------------
(* Terms, chapters, and everything about one entity *)

(* One of these rows (fetchone): a term's name may stand for several facts. *)
TermDefinition(db, name, cut) ==
    LET rows == {i \in OfType(db, "term") : db.claims[i].what = name}
    IN WithEvidence(db, Current(db, rows, cut, Null))

ChapterGraph(db, ordinal, cut, at) ==
    LET rows == {i \in DOMAIN db.claims : db.claims[i].ord = ordinal}
    IN WithEvidence(db, Current(db, rows, cut, at))

Snapshot(db, e, cut, at) ==
    [name |-> DisplayName(db, e, cut),
     state |-> IF at # Null THEN WorldStateAt(db, e, at, cut) ELSE EntityState(db, e, cut),
     relations |-> OneHop(db, e, cut, at),
     org |-> OrgMembership(db, e, cut, at),
     events |-> EntityEvents(db, e, cut, at)]

-----------------------------------------------------------------------------
(* The entity graph *)

(* Aliases a reader knows: asserted, of the active run, before the cutoff. *)
KnownAliases(db, cut) ==
    {db.aliases[i] : i \in {j \in ActiveAliases(db) :
        db.aliases[j].op = "assert" /\ Disclosed(db.aliases[j], cut)}}

(* Canonical entities with a mention that has been named, and mentions no   *)
(* resolution of the active run has taken away.                             *)
EntitySet(db, cut) == {Canonical(db, a.of) : a \in KnownAliases(db, cut)}

Surfaces(db, e, cut) ==
    {a.surface : a \in {b \in KnownAliases(db, cut) : Canonical(db, b.of) = e \/ b.of = e}}

CatalogName(db, e, cut) ==
    IF cut = Null \/ DisplayName(db, e, cut) = Null
    THEN db.entities[e].name ELSE DisplayName(db, e, cut)

(* The catalogue, for a search text (Null: none).  A reader with a cutoff   *)
(* searches only the names disclosed to him.                                *)
Catalog(db, cut, sought) ==
    {[id |-> e, name |-> CatalogName(db, e, cut), aliases |-> Cardinality(Surfaces(db, e, cut)),
      mentions |-> Cardinality({m \in DOMAIN db.resolved :
                       db.resolved[m] = [canonical |-> e, run |-> db.active]})]
     : e \in {x \in EntitySet(db, cut) \cap DOMAIN db.entities :
                 \/ sought = Null \/ sought \in Surfaces(db, x, cut)
                 \/ cut = Null /\ sought = db.entities[x].name}}

InBook(db, e) ==
    \/ \E m \in DOMAIN db.resolved : db.resolved[m] = [canonical |-> e, run |-> db.active]
    \/ \E a \in KnownAliases(db, Null) : a.of = e

(* The name shown for one end of a relation. *)
ShownAs(db, m, cut) ==
    LET e == Canonical(db, m)
        safe == DisplayName(db, e, cut)
    IN IF cut # Null THEN IF safe = Null THEN e ELSE safe
       ELSE IF e \in DOMAIN db.entities THEN db.entities[e].name ELSE m

(* The detail page; Null is the 404 of an unknown, foreign or undisclosed id. *)
Detail(db, e, cut, at) ==
    IF \/ e \notin DOMAIN db.entities \/ ~InBook(db, e)
       \/ cut # Null /\ e \notin EntitySet(db, cut)
    THEN Null
    ELSE [name |-> IF cut # Null THEN ShownAs(db, e, cut) ELSE db.entities[e].name,
          aliases |-> Surfaces(db, e, cut),
          states |-> Snapshot(db, e, cut, at).state,
          relations |-> {[row |-> r, from |-> ShownAs(db, r.claim.refs[1], cut),
                          to |-> ShownAs(db, r.claim.refs[2], cut)] : r \in OneHop(db, e, cut, at)},
          events |-> EntityEvents(db, e, cut, at)]

(* Nodes and the edges with both ends among them. *)
GraphData(db, cut, at, importance) ==
    LET nodes == {n \in Catalog(db, cut, Null) : db.entities[n.id].importance >= importance}
        shown == {n.id : n \in nodes}
        edges == {<<Canonical(db, c.refs[1]), Canonical(db, c.refs[2]), c.v>>
                  : c \in Current(db, OfType(db, "relation"), cut, at)}
    IN [nodes |-> nodes, edges |-> {x \in edges : x[1] \in shown /\ x[2] \in shown}]
=============================================================================
