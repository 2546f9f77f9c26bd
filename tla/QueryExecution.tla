--------------------------- MODULE QueryExecution ---------------------------
(***************************************************************************)
(* QueryExecutor.ask of src/novelcanon/query/executor.py, with the router, *)
(* the cache and the synthesis it calls, next to the commands that change  *)
(* what it reads.  A question is answered in a series of transactions: the *)
(* key is made from the state of the book, the cache is asked, the rows    *)
(* are read, then their evidence (by a QueryService that reads the active  *)
(* run once and keeps it), and the answer is stored under the first key.   *)
(*                                                                         *)
(* A question is [words, says, chapter]: the routing keywords found in it, *)
(* the surfaces and names of terms contained in it, and a chapter number   *)
(* or Null.  The name of a term, the `what` of a claim of type term, is    *)
(* <<name, length>> like a surface.  The hybrid route is RetrievalIndex's; *)
(* here it finds nothing, as for an executor without a vector store.       *)
(***************************************************************************)
EXTENDS Projections

CONSTANTS Readers, Questions, Cutoffs, Worlds,
          OtherTerms,       \* names in the table terms that no claim of this book has
          UsesModel,        \* BOOLEAN: synthesis has a client
          MaxSummaries,     \* bound: rebuilds of the summaries
          MaxAsked          \* bound: questions asked

ASSUME QueryAssumption == Cutoffs \subseteq Nat \cup {Null}

VARIABLES summaries,        \* the valid summary_artifacts, [id, text, ord]
          rebuilt, asked,
          cache,            \* query_cache: key -> answer
          reader

qvars == <<pvars, summaries, rebuilt, asked, cache, reader>>

-----------------------------------------------------------------------------
(* route_question: the first type with a keyword in the question *)

Types == <<"plotline", "raw_detail", "chapter_graph", "term_definition", "causal_chain",
           "relation_evolution", "org_membership", "relation", "entity_state">>

Route(q) ==
    LET hit == {i \in DOMAIN Types : Types[i] \in q.words}
    IN IF hit = {} THEN "raw_detail" ELSE Types[Min(hit)]

-----------------------------------------------------------------------------
(* _execute: the rows a question selects *)

Longer(x, y) == x[2][2] > y[2][2]

(* Entities named in the question, by names disclosed before the cutoff; a  *)
(* name leads to what its mention was resolved to by whichever run.         *)
Found(d, q, cut) ==
    {<<IF a.of \in DOMAIN d.resolved THEN d.resolved[a.of].canonical ELSE a.of, a.surface>>
     : a \in {b \in KnownAliases(d, cut) : b.surface \in q.says}}

(* The first of the longest names; each entity by its longest name. *)
FindEntity(d, q, cut) == CHOOSE x \in Found(d, q, cut) : \A y \in Found(d, q, cut) : ~Longer(y, x)
FindEntities(d, q, cut) ==
    LET named == SetToSortSeq(Found(d, q, cut), Longer)
        First(i) == \A j \in 1..i - 1 : named[j][1] # named[i][1]
    IN [i \in 1..Cardinality({x[1] : x \in Found(d, q, cut)}) |->
           named[CHOOSE j \in DOMAIN named :
               First(j) /\ Cardinality({k \in 1..j : First(k)}) = i][1]]

Claims(rows) == {[claim |-> r.claim.v, says |-> r.claim.what] : r \in rows}

StateRows(d, e, cut, at) ==
    Claims(IF at # Null THEN WorldStateAt(d, e, at, cut) ELSE EntityState(d, e, cut))

RelationRows(d, q, cut, at) ==
    LET es == FindEntities(d, q, cut)
    IN Claims(IF Len(es) >= 2 THEN Between(d, es[1], es[2], cut, at) ELSE OneHop(d, es[1], cut, at))

EvolutionRows(d, e, cut, at) ==
    Claims(UNION {Range(RelationEvolution(d, f, cut, at)) : f \in RelationFacts(d, e, cut, at)})

(* Every chain of an event: the first edge gives the source of the item, the *)
(* others its further evidence (five chains per event at most; here all).    *)
CausalRows(d, e, cut, at) ==
    UNION {{[claim |-> Head(p.edges), says |-> [conf |-> p.conf, events |-> p.events],
             more |-> Tail(p.edges)]
            : p \in CausalPaths(d, r.claim.v, cut, at, 5)} : r \in EntityEvents(d, e, cut, at)}

Structured(d, q, cut, at) ==
    IF Found(d, q, cut) = {} THEN {}
    ELSE LET e == FindEntity(d, q, cut)[1]
         IN CASE Route(q) = "entity_state" -> StateRows(d, e, cut, at)
              [] Route(q) = "relation" -> RelationRows(d, q, cut, at)
              [] Route(q) = "org_membership" -> Claims(OrgMembership(d, e, cut, at))
              [] Route(q) = "relation_evolution" -> EvolutionRows(d, e, cut, at)
              [] Route(q) = "causal_chain" -> CausalRows(d, e, cut, at)

(* The summaries a reader may see; key events when there are none. *)
Plotline(d, ss, cut) ==
    LET seen == {s \in ss : Disclosed(s, cut)}
    IN IF seen # {} THEN {[claim |-> s.id, says |-> s.text] : s \in seen}
       ELSE Claims(Range(AllEvents(d, cut, Null, 30)))

(* The longest name in the question: every book, run and chapter adds to terms, *)
(* and neither the cutoff nor the active run is asked which of them count.      *)
Terms(d) == {c.what : c \in {x \in Range(d.claims) : x.type = "term"}} \cup OtherTerms
FindTerm(d, q) ==
    LET named == Terms(d) \cap q.says
    IN IF named = {} THEN Null ELSE CHOOSE x \in named : \A y \in named : y[2] <= x[2]

Definition(d, term, cut) == IF term = Null THEN {} ELSE Claims(TermDefinition(d, term, cut))

Execute(d, ss, q, cut, at) ==
    CASE Route(q) = "raw_detail" -> {}
      [] Route(q) = "plotline" -> Plotline(d, ss, cut)
      [] Route(q) = "term_definition" -> Definition(d, FindTerm(d, q), cut)
      [] Route(q) = "chapter_graph" ->
            IF q.chapter = Null THEN {} ELSE Claims(ChapterGraph(d, q.chapter, cut, at))
      [] OTHER -> Structured(d, q, cut, at)

-----------------------------------------------------------------------------
(* ask *)

(* With a mistake: the active run is not part of the key. *)
KeyOfSummaries(q, cut, at) ==
    [q |-> q, cut |-> cut, at |-> at, run |-> Null, summaries |-> summaries]

(* The key: the question, its two times, and active_state_signature. *)
Key(q, cut, at) ==
    [q |-> q, cut |-> cut, at |-> at, run |-> db.active, summaries |-> summaries]

Resting == [step |-> "rest", key |-> Null, rows |-> {}, sources |-> {}, read |-> {}, during |-> {}]
Go(x, now) == reader' = [reader EXCEPT ![x] = now]
On(x, step) == reader[x].step = step

Ask(x) ==
    /\ On(x, "rest") /\ asked < MaxAsked /\ db.active # Null
    /\ \E q \in Questions, cut \in Cutoffs, at \in Worlds :
         Go(x, [Resting EXCEPT !.step = "look", !.key = Key(q, cut, at), !.during = {db.active}])
    /\ asked' = asked + 1
    /\ UNCHANGED <<pvars, summaries, rebuilt, cache>>

(* A hit is the answer, whatever happened since it was stored. *)
LookUp(x) ==
    /\ On(x, "look")
    /\ IF reader[x].key \in DOMAIN cache
       THEN LET hit == cache[reader[x].key]
            IN Go(x, [reader[x] EXCEPT !.step = "answered", !.rows = hit.rows,
                                       !.sources = hit.sources, !.read = hit.read])
       ELSE Go(x, [reader[x] EXCEPT !.step = "rows"])
    /\ UNCHANGED <<pvars, summaries, rebuilt, asked, cache>>

ReadRows(x) ==
    /\ On(x, "rows")
    /\ LET k == reader[x].key
       IN Go(x, [reader[x] EXCEPT !.step = "evidence", !.read = {db.active},
                                  !.rows = Execute(db, summaries, k.q, k.cut, k.at)])
    /\ UNCHANGED <<pvars, summaries, rebuilt, asked, cache>>

(* _evidence_for, for each row: the QueryService learns the active run here. *)
ReadEvidence(x) ==
    /\ On(x, "evidence")
    /\ Go(x, [reader[x] EXCEPT !.step = "store", !.read = @ \cup {db.active},
                !.sources = UNION {EvidenceFor(db, db.active, r.claim) : r \in reader[x].rows}])
    /\ UNCHANGED <<pvars, summaries, rebuilt, asked, cache>>

(* SynthesisService.answer reads nothing more.  A model may fail (the       *)
(* request ends) or say nothing of use: a refusal, stored like an answer,   *)
(* under the key that was read first (INSERT OR REPLACE).                   *)
Store(x) ==
    /\ On(x, "store")
    /\ \E said \in {reader[x].rows} \cup (IF UsesModel THEN {{}} ELSE {}) :
         /\ cache' = Put(cache, reader[x].key,
                         [rows |-> said, read |-> reader[x].read,
                          sources |-> IF said = {} THEN {} ELSE reader[x].sources])
         /\ Go(x, [reader[x] EXCEPT !.step = "answered", !.rows = said,
                                    !.sources = cache'[reader[x].key].sources])
    /\ UNCHANGED <<pvars, summaries, rebuilt, asked>>

ModelFails(x) ==
    /\ On(x, "store") /\ UsesModel /\ reader[x].rows # {}
    /\ Go(x, Resting)
    /\ UNCHANGED <<pvars, summaries, rebuilt, asked, cache>>

Reply(x) ==
    /\ On(x, "answered")
    /\ Go(x, Resting)
    /\ UNCHANGED <<pvars, summaries, rebuilt, asked, cache>>

(* Summaries has the two commands behind this. *)
Resummarise ==
    /\ rebuilt < MaxSummaries
    /\ rebuilt' = rebuilt + 1
    /\ summaries' = {[id |-> "book", text |-> rebuilt', ord |-> Max(DOMAIN Text)]}
    /\ UNCHANGED <<pvars, asked, cache, reader>>

Answering(x) == Ask(x) \/ LookUp(x) \/ ReadRows(x) \/ ReadEvidence(x) \/ Store(x)
                \/ ModelFails(x) \/ Reply(x)

(* Changes of the book, noted by the requests under way. *)
ChangeBook ==
    /\ Change
    /\ reader' = [x \in Readers |-> IF On(x, "rest") THEN reader[x]
                                    ELSE [reader[x] EXCEPT !.during = @ \cup {db'.active}]]
    /\ UNCHANGED <<summaries, rebuilt, asked, cache>>

Next == ChangeBook \/ Resummarise \/ \E x \in Readers : Answering(x)

Init(book) ==
    /\ InitFrom(book)
    /\ summaries = {} /\ rebuilt = 0 /\ asked = 0
    /\ cache = <<>>
    /\ reader = [x \in Readers |-> Resting]
=============================================================================
