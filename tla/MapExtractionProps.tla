-------------------------- MODULE MapExtractionProps --------------------------
(* What a draft and the evidence found for it promise. *)
EXTENDS MapExtraction

Draft == result.draft
Answered == UNION {Range(part[i].claims) : i \in DOMAIN part}

\* However the windows are answered, repaired and merged: a claim that a valid draft
\* holds without a quote has an id of several words and is on record, although as
\* left out; a claim of the last answers that the draft does not hold is on record,
\* or the id of one on record begins with its own; and a claim whose quote its window
\* does not have is on record too.  So nothing but spaces in ids comes between a
\* draft and what its record says (map_pipeline.py drops claims by the ids it reads
\* off the texts of the issues).
QuotedOrRecorded ==
    result.status = "valid" =>
        /\ Draft.claims \subseteq Answered
        /\ \A c \in Draft.claims : \/ c.type = "org" \/ Quotes(c)
                                   \/ c \in issues.missing /\ Len(c.id) > 1
        /\ \A c \in Answered \ Draft.claims :
             c \in issues.missing \/ \E x \in issues.missing : Len(x.id) > 1 /\ c.id = <<Head(x.id)>>
        /\ \A c \in Draft.claims \ issues.missing :
             \/ c.type = "org" \/ c \in issues.lost
             \/ Within(Plain(c.quote), Plain(Scope(c)))

\* A chapter that was given up or went through has every call of both rounds in
\* its usage, also those an answer was asked for again in.  (One that raised has
\* none of them.)
UsageComplete == result.status \in {"valid", "invalid"} => booked = calls

\* The windows lie side by side, none is longer than the model can take, and align
\* finds each of them again from its offset alone.
RefsLeadBack ==
    /\ FlattenSeq([i \in DOMAIN windows |-> Cut(text, windows[i][1], windows[i][2])]) = text
    /\ \A i \in DOMAIN windows : Count(Cut(text, windows[i][1], windows[i][2])) <= Window
    /\ result.status = "valid" => RefSpans(text, result.refs) = windows

Met(a, span) == Within(Plain(a), Plain(Cut(text, span[1], span[2])))

\* The texts a claim has to be read off: the names of its mentions, its verbs, its
\* quote.  A verb that is a name as well counts as the name, a quote that is a verb as
\* the verb.
Names(c) == {m.surface : m \in {x \in Range(Draft.mentions) : x.id \in Range(c.names)}} \ {<<>>}
Verbs(c) == Range(c.verbs) \ (Names(c) \cup {<<>>})
Quoted(c) == {t \in {c.quote} \ Range(c.verbs) : Quotes(c)}

\* The claim can be read off the span: its quote, all its names, and one of its verbs.
ProvenBy(c, span) ==
    /\ \A t \in Names(c) \cup Quoted(c) : Met(t, span)
    /\ Verbs(c) # {} => \E v \in Verbs(c) : Met(v, span)

Told(c) == \E s \in Sentences(Scope(c)) :
               ProvenBy(c, <<windows[c.ref][1] + s[1], windows[c.ref][1] + s[2]>>)

Anchored(c) == LET texts == Names(c) \cup Verbs(c) \cup Quoted(c)
               IN texts # {} /\ \A t \in texts : Plain(t) # <<>>

\* Evidence is never found without a reason, nor missed with one: the span of a
\* claim has all that proves the claim and lies in the window the claim refers to,
\* and a claim that one sentence of its window proves does have a span, unless one of
\* its texts is nothing but punctuation.
EvidenceIsProof ==
    evidence # Null =>
        /\ \A c \in DOMAIN evidence :
             /\ ProvenBy(c, evidence[c])
             /\ Inside(evidence[c], windows[c.ref][1], windows[c.ref][2])
        /\ \A c \in Draft.claims :
             c.ref # Null /\ Anchored(c) /\ Told(c) => c \in DOMAIN evidence
=============================================================================
