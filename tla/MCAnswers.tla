------------------------------ MODULE MCAnswers ------------------------------
(* Two chapters.  Lin is met in both, under a title in the second too; Mo is  *)
(* his friend in the first only.  Run ra has read all of it, rb not of Mo.     *)
EXTENDS AnswersProps, TLC
CONSTANTS ra, rb

Lin == <<"Lin", 3>>
LongLin == <<"Lin", 5>>
Mo == <<"Mo", 2>>
Sir == <<"Sir", 3>>
Qi == <<"qi", 2>>
QiSea == <<"qi", 6>>
Jade == <<"jade", 4>>
M(i) == <<"mention", 0, i>>
Said(m, surface, ord, at) == [m |-> m, surface |-> surface, ord |-> ord, at |-> at]
MCDrafts == ra :> <<Said(M(1), Lin, 1, 1), Said(M(2), Mo, 1, 2), Said(M(3), LongLin, 2, 1)>>
         @@ rb :> <<Said(M(1), Lin, 1, 1), Said(M(3), Sir, 2, 1)>>

Proxy(n) == [kind |-> "chapter_proxy", from |-> n, to |-> Null]
Claim(v, fact, type, op, ord, refs, what) ==
    [v |-> v, fact |-> fact, type |-> type, op |-> op, status |-> "supported", ord |-> ord,
     world |-> Proxy(ord), refs |-> refs, what |-> what, seq |-> 1, place |-> Null]
MCClaims == <<Claim("s1", "life", "state", "assert", 1, <<M(1)>>, "well"),
              Claim("e1", "duel", "event", "assert", 1, <<M(1)>>, "duel"),
              Claim("e2", "flight", "event", "assert", 2, <<M(3)>>, "flight"),
              Claim("s2", "life", "state", "update", 2, <<M(3)>>, "hurt"),
              Claim("o1", "guild", "org", "assert", 1, <<M(2), M(1)>>, "join"),
              Claim("o2", "guild", "org", "update", 2, <<M(2), M(1)>>, "leave"),
              Claim("t1", "qi", "term", "assert", 1, <<>>, Qi),
              Claim("t2", "qi", "term", "update", 2, <<>>, Qi),
              Claim("t3", "qi sea", "term", "assert", 2, <<>>, QiSea),
              Claim("k1", "bond", "relation", "assert", 1, <<M(1), M(2)>>, "friend"),
              Claim("k2", "bond", "relation", "retract", 2, <<M(3), M(2)>>, "friend")>>
Seen(v, r, n) == [claim |-> v, run |-> r, stance |-> "supports", chapter |-> n, span |-> 1]
MCBook ==
    [active |-> Null, claims |-> MCClaims,
     observed |-> {<<y.v, ra>> : y \in Range(MCClaims)} \cup
                  {<<v, rb>> : v \in {"s1", "e1", "e2"}},
     evidence |-> {Seen(y.v, ra, y.ord) : y \in Range(MCClaims)} \cup
                  {Seen("e1", rb, 1), Seen("e2", rb, 2), Seen("e2", Null, 2)},
     aliases |-> <<>>, named |-> {}, entities |-> <<>>, resolved |-> <<>>, links |-> {},
     linked |-> {}, verified |-> <<>>, mentions |-> <<>>, met |-> {}, home |-> <<>>,
     unresolved |-> {}, audit |-> {}, primary |-> <<>>]

(* The same without Mo. *)
FewDrafts == [r \in Runs |-> SelectSeq(MCDrafts[r], LAMBDA y : y.m # M(2))]
FewClaims == SelectSeq(MCClaims, LAMBDA y : M(2) \notin Range(y.refs))
FewBook == [MCBook EXCEPT !.claims = FewClaims,
                          !.observed = {o \in @ : o[1] \in {y.v : y \in Range(FewClaims)}},
                          !.evidence = {e \in @ : e.claim \in {y.v : y \in Range(FewClaims)}}]
MCText == <<<<{"e1"}>>, <<{"e2"}, {"e1", "so"}>>>>
MCQuestions == {[words |-> w, says |-> {Lin}, chapter |-> 1]
                  : w \in {{"entity_state"}, {"causal_chain", "relation"}}}
(* Of two terms the second is one of the second chapter, or of another book. *)
AllQuestions == {[words |-> {Types[i]}, says |-> {Lin, Mo, Qi}, chapter |-> 1] : i \in DOMAIN Types}
                \cup {[words |-> {"term_definition"}, says |-> {Qi, x}, chapter |-> Null] : x \in {QiSea, Jade}}
MCOtherTerms == {Jade}
Symmetry == Permutations(Commands) \cup Permutations(Readers)
==============================================================================
