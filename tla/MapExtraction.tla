---------------------------- MODULE MapExtraction ----------------------------
(***************************************************************************)
(* One chapter on its way from text to evidence: process of                *)
(* extraction/map_pipeline.py with the answers of the model, the checks of *)
(* generation/parser.py, and align_chapter of evidence/service.py.  The    *)
(* windows of a chapter are asked about at the same time (asyncio.gather). *)
(*                                                                         *)
(* An answer is [json, fits, home, mentions, claims]: whether it parses,   *)
(* has the shape of a draft, and names this chapter.  Local events and     *)
(* causes are left out.  The id of a claim is any string the model writes, *)
(* here the sequence of its words: the texts of issues are taken apart at  *)
(* the spaces.                                                             *)
(***************************************************************************)
EXTENDS SpanMatch

CONSTANTS Texts,         \* what a chapter may say
          Window,        \* tokens of a window
          Answers,       \* what the model may answer about a window
          MaxRepairs     \* max_repair_attempts

ASSUME MapAssumption ==
    /\ \A t \in Texts : t \in Seq(Range(t))
    /\ Window \in Nat \ {0} /\ MaxRepairs \in Nat
    /\ \A a \in Answers : a.claims \in Seq(Range(a.claims)) /\ a.mentions \in Seq(Range(a.mentions))
    /\ \A m \in UNION {Range(a.mentions) : a \in Answers} : m.surface \in Seq(Range(m.surface))
    /\ \A c \in UNION {Range(a.claims) : a \in Answers} :
         /\ c.id \in Seq(Range(c.id)) /\ c.id # <<>>
         /\ c.names \in Seq(Range(c.names)) /\ c.quote \in Seq(Range(c.quote))
         /\ c.verbs \in Seq(Range(c.verbs)) /\ \A v \in Range(c.verbs) : v \in Seq(Range(v))

VARIABLES text, windows,
          round,         \* "first" or "repair"
          asked,         \* window -> requests made in this round
          part,          \* window -> its answer, Null before one counts
          again,         \* windows asked in this round
          calls, booked, \* calls the model answered; those in the usage so far
          issues,        \* claims without a quote, or with one that is not there
          result,        \* what process returned
          evidence       \* claim -> its span

vars == <<text, windows, round, asked, part, again, calls, booked, issues, result, evidence>>

Running == [status |-> "running"]
Failed(why) == [status |-> why]
Bad == [json |-> FALSE]

Init ==
    /\ text \in Texts
    /\ windows = Split(text, Window)
    /\ round = "first"
    /\ asked = [i \in DOMAIN windows |-> 0]
    /\ part = [i \in DOMAIN windows |-> Null]
    /\ again = DOMAIN windows
    /\ calls = 0 /\ booked = 0
    /\ issues = [missing |-> {}, lost |-> {}]
    /\ result = Running
    /\ evidence = Null

-----------------------------------------------------------------------------
(* _request_segment: an answer that is no JSON is asked for again *)

Request(i) ==
    /\ i \in again /\ part[i] = Null
    /\ \E a \in Answers \cup {Bad} :
         part' = [part EXCEPT ![i] = IF a.json \/ asked[i] = MaxRepairs THEN a ELSE Null]
    /\ asked' = [asked EXCEPT ![i] = @ + 1]
    /\ calls' = calls + 1
    /\ UNCHANGED <<text, windows, round, again, booked, issues, result, evidence>>

(* The client gives up: gather raises what the first window to fail raised;  *)
(* the other windows go on with nobody to take their answers.               *)
GiveUp(i) ==
    /\ result = Running /\ i \in again /\ part[i] = Null
    /\ result' = Failed("raised")
    /\ again' = again \ {i}
    /\ UNCHANGED <<text, windows, round, asked, part, calls, booked, issues, evidence>>

-----------------------------------------------------------------------------
(* _merge, DraftValidator, LiteralQuoteCheck *)

Merge(ps) ==
    [home |-> ps # <<>> /\ ps[1].home,
     fits |-> \A i \in DOMAIN ps : ps[i].fits,
     mentions |-> FlattenSeq([i \in DOMAIN ps |-> ps[i].mentions]),
     claims |-> FlattenSeq([i \in DOMAIN ps |-> ps[i].claims])]

Distinct(seq) == \A i, j \in DOMAIN seq : seq[i].id = seq[j].id => i = j

(* The windows are asked apart from each other, so two answers may well use *)
(* an id twice.                                                             *)
Valid(m) ==
    /\ m.home /\ m.fits
    /\ Distinct(m.mentions) /\ Distinct(m.claims)
    /\ \A c \in Range(m.claims) : c.ref \in {Null} \cup DOMAIN windows

Scope(c) == IF c.ref \in DOMAIN windows THEN Cut(text, windows[c.ref][1], windows[c.ref][2])
            ELSE text

Within(needle, hay) ==
    \E p \in 0..Len(hay) - Len(needle) : SubSeq(hay, p + 1, p + Len(needle)) = needle

(* Claims of every type but org must quote the chapter. *)
Quotes(c) == Len(c.quote) >= 2
Lost(m) == {c \in Range(m.claims) : c.type # "org" /\ Quotes(c)
                                     /\ ~Within(Plain(c.quote), Plain(Scope(c)))}

(* With a mistake: a claim without a quote is no concern of the check. *)
QuoteIssuesOfQuotes(m) == [missing |-> {}, lost |-> Lost(m)]

QuoteIssues(m) ==
    [missing |-> {c \in Range(m.claims) : c.type # "org" /\ ~Quotes(c)}, lost |-> Lost(m)]

(* The text of the issue with a claim, from its second word: the id, "de",  *)
(* the field (one for each type); the words after that are left out.        *)
Message(c) == c.id \o <<"de", c.type>>

(* _missing_quote_claim_ids: the second word of each text.                  *)
MissingIds(is) == {<<Head(Message(c))>> : c \in is.missing}

-----------------------------------------------------------------------------
(* process, when the answers of a round are complete *)

Complete == result = Running /\ \A i \in again : part[i] # Null
Parsed == \A i \in DOMAIN part : part[i].json
Merged == Merge([i \in DOMAIN windows |-> part[i]])
Return(with) == result' = with /\ UNCHANGED <<text, windows, asked, part, again, calls, evidence>>

(* With a mistake: the repair forgets what the first round has used. *)
UsedLast == FoldFunctionOnSet(+, 0, asked, again)

Used == booked + FoldFunctionOnSet(+, 0, asked, again)

Unparsed ==
    /\ Complete /\ ~Parsed
    /\ booked' = Used
    /\ Return(Failed("invalid"))
    /\ UNCHANGED <<round, issues>>

Invalid ==
    /\ Complete /\ Parsed /\ ~Valid(Merged)
    /\ booked' = Used
    /\ Return(Failed("invalid"))
    /\ UNCHANGED <<round, issues>>

(* One repair: the windows of the claims with whose id the text of an issue *)
(* goes on, or all windows when no such claim says which it is about.       *)
Troubled(is) ==
    {c.ref : c \in {x \in Range(Merged.claims) :
                        \E y \in is.missing \cup is.lost : IsPrefix(x.id, Message(y))}} \ {Null}

Repair ==
    LET is == QuoteIssues(Merged)
    IN /\ Complete /\ Parsed /\ Valid(Merged) /\ round = "first"
       /\ is.missing \cup is.lost # {} /\ MaxRepairs >= 1
       /\ round' = "repair"
       /\ again' = IF Troubled(is) = {} THEN DOMAIN windows ELSE Troubled(is)
       /\ asked' = [i \in DOMAIN windows |-> 0]
       /\ part' = [i \in DOMAIN windows |-> IF i \in again' THEN Null ELSE part[i]]
       /\ booked' = Used
       /\ issues' = is
       /\ UNCHANGED <<text, windows, calls, result, evidence>>

(* What still has no quote is to be left out, by the id its issue seems to  *)
(* have; what has one that cannot be found stays.  Both are kept as issues  *)
(* of the payload, those of the first kind as left out.  Nothing reads the  *)
(* order of the claims, each of which has an id of its own.                 *)
Finish ==
    LET is == QuoteIssues(Merged)
        kept == [Merged EXCEPT !.claims = {c \in Range(@) : c.id \notin MissingIds(is)}]
    IN /\ Complete /\ Parsed /\ Valid(Merged)
       /\ round = "repair" \/ is.missing \cup is.lost = {} \/ MaxRepairs = 0
       /\ issues' = is
       /\ booked' = Used
       /\ Return([status |-> "valid", draft |-> kept, refs |-> Refs(text, windows)])
       /\ UNCHANGED round

-----------------------------------------------------------------------------
(* align_chapter, later and from the stored draft *)

(* A span for every claim that has one; the others are not materialised.    *)
Aligned(d, spans) ==
    LET Proven(c) ==
          IF c.ref \notin DOMAIN spans THEN {}
          ELSE {<<spans[c.ref][1] + p[1], spans[c.ref][1] + p[2]>>
                : p \in Proofs(Cut(text, spans[c.ref][1], spans[c.ref][2]),
                               Anchors(c, Range(d.mentions)))}
        cs == {c \in d.claims : Proven(c) # {}}
    IN {f \in [cs -> UNION {Proven(c) : c \in cs}] : \A c \in cs : f[c] \in Proven(c)}

Align ==
    /\ result.status = "valid" /\ evidence = Null
    /\ LET spans == RefSpans(text, result.refs)
       IN IF spans = Null THEN evidence' = <<>>
          ELSE \E f \in Aligned(result.draft, spans) : evidence' = f
    /\ UNCHANGED <<text, windows, round, asked, part, again, calls, booked, issues, result>>

Next == \/ \E i \in DOMAIN windows : Request(i) \/ GiveUp(i)
        \/ Unparsed \/ Invalid \/ Repair \/ Finish \/ Align

Spec == Init /\ [][Next]_vars
=============================================================================
