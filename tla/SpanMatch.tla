------------------------------ MODULE SpanMatch ------------------------------
(***************************************************************************)
(* Where a claim stands in its chapter: the windows a chapter is cut into  *)
(* (generation/segments.py), the way back from a window to the chapter     *)
(* (evidence/ref_mapper.py), and the span that proves a claim              *)
(* (evidence/span_candidates.py, verifiers.py), which is looked for with   *)
(* punctuation left out.  Texts are sequences of characters; spans are     *)
(* half-open and count from 0, as in the code.                             *)
(*                                                                         *)
(* A claim is [id, type, ref, names, verbs, quote, value]: the window it   *)
(* refers to or Null, the mentions it names in field order, the verbs that *)
(* may express its action (org only), the field that quotes the chapter    *)
(* word by word, and its normalised value.                                 *)
(***************************************************************************)
EXTENDS Integers, Sequences, FiniteSets, SequencesExt, FiniteSetsExt, Sublists

CONSTANTS Null,
          Punctuation,   \* characters that matching skips
          Stops,         \* characters a sentence ends with
          MaxSpan        \* _MAX_SPAN_CHARS

ASSUME SpanAssumption ==
    /\ Stops \subseteq Punctuation /\ MaxSpan \in Nat
    /\ Null \notin {"verbs"} \cup Seq(Nat \X Nat)

Cut(text, lo, hi) == SubSeq(text, lo + 1, hi)
Plain(text) == Only(text, Range(text) \ Punctuation)

(* A run of stops ends a sentence; what is left at the end is one, too. *)
Ends(text) == {i \in 1..Len(text) : /\ i = Len(text) \/ text[i + 1] \notin Stops
                                    /\ i = Len(text) \/ text[i] \in Stops}
Sentences(text) == {<<Max({0} \cup {j \in Ends(text) : j < i}), i>> : i \in Ends(text)}

-----------------------------------------------------------------------------
(* Windows *)

(* The tokenizer; here a character is a token. *)
Count(text) == Len(text)

(* Where the window that begins at lo ends: with the chapter, else with the *)
(* last sentence that fits, else in the middle of a sentence.               *)
WindowEnd(text, lo, max) ==
    LET rest == Cut(text, lo, Len(text))
        fits == {i \in Ends(rest) : \A j \in Ends(rest) : j <= i => Count(Cut(rest, 0, j)) <= max}
        hard == {i \in 1..Len(rest) : Count(Cut(rest, 0, i)) <= max}
    IN IF Count(rest) <= max THEN Len(text)
       ELSE lo + IF fits # {} THEN Max(fits) ELSE Max({1} \cup hard)

(* With a mistake: the character a window was cut at belongs to neither. *)
SplitSkipping(text, max) ==
    LET from[lo \in 0..Len(text) + 1] ==
          IF lo >= Len(text) THEN <<>>
          ELSE <<<<lo, WindowEnd(text, lo, max)>>>> \o from[WindowEnd(text, lo, max) + 1]
    IN from[0]

Split(text, max) ==
    LET from[lo \in 0..Len(text)] ==
          IF lo = Len(text) THEN <<>>
          ELSE <<<<lo, WindowEnd(text, lo, max)>>>> \o from[WindowEnd(text, lo, max)]
    IN from[0]

(* What a draft keeps of its windows, and the span each one stands for: a   *)
(* window ends where the next begins.  Null: some hash does not fit.        *)
Refs(text, windows) == [i \in DOMAIN windows |->
    [offset |-> windows[i][1], hash |-> Cut(text, windows[i][1], windows[i][2])]]

RefSpans(text, refs) ==
    LET End(i) == Min({Len(text)} \cup {refs[j].offset : j \in {k \in DOMAIN refs :
                                               refs[k].offset > refs[i].offset}})
        Same(i) == Cut(text, refs[i].offset, End(i)) = refs[i].hash
    IN IF refs # <<>> /\ \A i \in DOMAIN refs : refs[i].offset <= Len(text) /\ Same(i)
       THEN [i \in DOMAIN refs |-> <<refs[i].offset, End(i)>>] ELSE Null

-----------------------------------------------------------------------------
(* Anchors *)

(* The texts that prove a claim.  Hard ones must all be met, but of a group *)
(* one will do; a name that is no mention of the chapter is no anchor, nor  *)
(* is a quote of less than two characters.  The first of equal texts stays. *)
Anchors(claim, mentions) ==
    LET Surface(m) == (CHOOSE x \in mentions : x.id = m).surface
        Text(t, hard, group) == [text |-> t, hard |-> hard, group |-> group]
        named == Only(claim.names, {x.id : x \in mentions})
        Long(t, hard) == IF Len(t) >= 2 THEN <<Text(t, hard, Null)>> ELSE <<>>
        all == [i \in DOMAIN named |-> Text(Surface(named[i]), TRUE, Null)]
               \o [i \in DOMAIN claim.verbs |-> Text(claim.verbs[i], TRUE, "verbs")]
               \o Long(claim.quote, TRUE) \o Long(claim.value, FALSE)
        first == {i \in DOMAIN all : /\ all[i].text # <<>>
                                     /\ \A j \in 1..i - 1 : all[j].text # all[i].text}
        kept == Only([i \in DOMAIN all |-> i], first)
    IN [k \in DOMAIN kept |-> all[kept[k]]]

(* Every place of a text: it begins and ends with characters that count,   *)
(* and these are those of the text.                                         *)
Places(text, needle) ==
    {s \in (0..Len(text) - 1) \X (1..Len(text)) :
        /\ s[1] < s[2] /\ {text[s[1] + 1], text[s[2]]} \cap Punctuation = {}
        /\ Plain(Cut(text, s[1], s[2])) = Plain(needle)}

-----------------------------------------------------------------------------
(* Candidates for one window, [lo, hi, met], met the anchors found in them *)

Inside(p, lo, hi) == lo <= p[1] /\ p[2] <= hi

BySentence(text, as) ==
    {[lo |-> s[1], hi |-> s[2],
      met |-> {i \in DOMAIN as : \E p \in Places(text, as[i].text) : Inside(p, s[1], s[2])}]
     : s \in Sentences(text)}

(* Around one place of one anchor: the nearest place of every other anchor  *)
(* is taken in, in their order, while the span stays short enough.          *)
Around(text, as, k, place) ==
    LET Gap(c, p) == Max({p[1] - c.hi, c.lo - p[2], 0})
        Nearest(c, i) ==
            LET ps == Places(text, as[i].text)
            IN CHOOSE p \in ps : \A q \in ps :
                   Gap(c, p) < Gap(c, q) \/ (Gap(c, p) = Gap(c, q) /\ p[1] <= q[1])
        Take(c, i) ==
            IF i = k \/ Places(text, as[i].text) = {} THEN c
            ELSE LET p == Nearest(c, i)
                     lo == Min({c.lo, p[1]})
                     hi == Max({c.hi, p[2]})
                 IN IF hi - lo <= MaxSpan THEN [lo |-> lo, hi |-> hi, met |-> c.met \cup {i}] ELSE c
        taken[i \in 0..Len(as)] ==
          IF i = 0 THEN [lo |-> place[1], hi |-> place[2], met |-> {k}] ELSE Take(taken[i - 1], i)
    IN taken[Len(as)]

Candidates(text, as) ==
    {c \in BySentence(text, as) : c.met # {}} \cup
    UNION {{Around(text, as, k, p) : p \in Places(text, as[k].text)} : k \in DOMAIN as}

(* With a mistake: what is met is counted, whichever anchors it is. *)
ProvesByRate(c, as) == Cardinality(c.met) >= Cardinality({i \in DOMAIN as : as[i].hard})

(* LiteralVerifier: every hard anchor, and one of the group. *)
Proves(c, as) ==
    \A i \in DOMAIN as : as[i].hard =>
        \E j \in c.met : j = i \/ (as[i].group # Null /\ as[j].group = as[i].group)

(* The spans the verifier may come to first: of those that prove the claim, *)
(* the best by the share of anchors met, less the length.                   *)
Proofs(text, as) ==
    LET good == {c \in Candidates(text, as) : Proves(c, as)}
        Score(c) == 100 * Cardinality(c.met) - (c.hi - c.lo) * Len(as)
    IN IF as = <<>> THEN {}
       ELSE {<<c.lo, c.hi>> : c \in {d \in good : \A e \in good : Score(e) <= Score(d)}}
=============================================================================
