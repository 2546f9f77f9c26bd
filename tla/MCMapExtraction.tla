--------------------------- MODULE MCMapExtraction ---------------------------
(* Chapters of up to eleven characters, in windows of at most five: of two and *)
(* of three sentences, one whose only sentence is too long for a window, and   *)
(* an empty one.  The answers quote, quote nothing, quote what another window  *)
(* says, use each other's ids, some of two words, and name a verb.             *)
EXTENDS MapExtractionProps, TLC

MCPunctuation == {".", ",", "!"}
MCStops == {".", "!"}
MCTexts == {<<>>, <<"a", ",", "b", "c", ".", "b", "d", "a", ".">>,
            <<"d", "b", ".", "a", "c", "b", ".", "d", "a", "b", ".">>,
            <<"b", "a", "!", ".", "d", "b", "c", ",", "a">>, <<"a", "b", "d", "c", "b", "a", "c">>}

Mention(id, surface) == [id |-> id, surface |-> surface]
A == Mention("m1", <<"a">>)
D == Mention("m2", <<"d">>)
Claim(id, type, ref, names, verbs, quote) ==
    [id |-> id, type |-> type, ref |-> ref, names |-> names, verbs |-> verbs,
     quote |-> quote, value |-> <<"a", "c">>]
Answer(mentions, claims) ==
    [json |-> TRUE, fits |-> TRUE, home |-> TRUE, mentions |-> mentions, claims |-> claims]
Fact(id, ref, names, quote) == Claim(id, "state", ref, names, <<>>, quote)
MCAnswers == {Answer(<<A>>, <<Fact(<<"c">>, 1, <<"m1">>, <<"b", ",", "c">>)>>),
              Answer(<<A>>, <<Fact(<<"c", "1">>, 1, <<"m1">>, <<"c">>),
                              Fact(<<"c", "2">>, 2, <<"m1">>, <<"d", "a">>)>>),
              Answer(<<D>>, <<Fact(<<"e">>, 2, <<"m2", "m1">>, <<"b", "d">>), Fact(<<"f">>, 1, <<>>, <<>>)>>),
              Answer(<<D>>, <<Claim(<<"c">>, "org", 2, <<"m2">>, <<<<"c">>, <<"d">>, <<"b">>>>, <<>>)>>),
              Answer(<<>>, <<Fact(<<"g">>, Null, <<>>, <<"c", "b">>)>>),
              Answer(<<>>, <<Fact(<<"h">>, 2, <<>>, <<",", ".">>)>>),
              [Answer(<<>>, <<>>) EXCEPT !.home = FALSE],
              [Answer(<<>>, <<>>) EXCEPT !.fits = FALSE]}
==============================================================================
