------------------------------ MODULE MCResearch ------------------------------
\* Three kinds of instance: two stages that meet in the cache, two that must not, and one
\* stage whose results, merges and citations are enumerated.  Texts are short and every
\* limit is scaled to them.
EXTENDS Research

Word_(money, digits, proper) == [chars |-> 3, money |-> money, digits |-> digits, proper |-> proper]
MCLexicon ==
    [w \in {"car", "day", "old", "big", "low", "eur", "12m", "Kos", "Ana", "Bar", "..."} |->
        CASE w = "eur" -> Word_(1, 0, 0)
          [] w = "12m" -> Word_(0, 2, 0)
          [] w \in {"Kos", "Ana", "Bar"} -> Word_(0, 0, 1)
          [] OTHER -> Word_(0, 0, 0)]

Line(words) == [link |-> FALSE, words |-> words]
Link(words) == [link |-> TRUE, words |-> words]
Page(url, title, body, score, marks, published) ==
    [url |-> url, title |-> title, body |-> body, score |-> score, marks |-> marks,
     published |-> published, absolute |-> TRUE]

\* A long page of high quality, another text of the same page, a weak page behind a menu,
\* a page below the floor and one whose address is no address.
LongPage == Page("a", <<"low">>, <<Line(<<"Ana", "Bar", "Kos", "old">>), Line(<<"car", "eur", "day", "12m", "big">>)>>,
                 <<90>>, {"government"}, <<1>>)
SamePage == Page("a", <<"low">>, <<Line(<<"big", "Kos", "car">>)>>, <<60>>, {"government"}, <<1>>)
MenuPage == Page("b", <<"day">>, <<Link(<<"Ana">>), Link(<<"Bar">>), Link(<<"Kos">>), Line(<<"car", "eur", "day">>)>>,
                 <<40>>, {"blog_or_guide", "news_or_editorial"}, None)
WeakPage == Page("c", <<"old">>, <<Line(<<"car">>)>>, <<29>>, {}, None)
LostPage == [Page("d", <<"old">>, <<Line(<<"car">>)>>, None, {}, <<4>>) EXCEPT !.absolute = FALSE]

Found(results) == [results |-> results, images |-> {}]
Briefs(platform, location) ==
    [entity |-> "rental", market |-> "Kosovo", location |-> location, platform |-> platform, audience |-> "diaspora",
     facts |-> "fleet", place |-> {"Kos"}, subject |-> {"car"}, agrees |-> TRUE]
Same(b) == [r \in Run |-> b]

\* Two stages that ask the same, two that ask of different places, one of all eight kinds
\* of category and one whose citations are enumerated; input may be refused.
Meeting ==
    [briefs |-> Same(Briefs("instagram", "Prishtina")), categories |-> {"audience"},
     responses |-> {Found(<<MenuPage, MenuPage>>), Found(<<WeakPage>>)}, errors |-> {"ProviderQuotaError"},
     drafts |-> "few", invented |-> <<>>]
Apart ==
    [briefs |-> [r \in Run |-> Briefs("instagram", IF r = "g1" THEN "Prishtina" ELSE "Peja")],
     categories |-> {"brand_product"}, responses |-> {Found(<<LongPage>>)}, errors |-> {"ValueError"},
     drafts |-> "few", invented |-> <<>>]
Single(categories, responses, errors, drafts) ==
    [briefs |-> [r \in Run |-> [Briefs("instagram", "Prishtina") EXCEPT !.agrees = (r = "g1")]],
     categories |-> categories, responses |-> responses, errors |-> errors, drafts |-> drafts,
     invented |-> <<"old", "old", "old">>]
Partial == Single({"platform", "brand_product"}, {Found(<<LongPage>>), Found(<<WeakPage>>)},
                  {"ProviderQuotaError"}, "few")
Cited == Single({"platform"}, {Found(<<LongPage, MenuPage>>), Found(<<SamePage>>), Found(<<LostPage>>)}, {}, "all")

\* Its second citation is one word, found nowhere and less than any quote may be.
Curt == [Cited EXCEPT !.responses = {Found(<<MenuPage>>)}, !.invented = <<"big">>]

Pictured == Single({"visual_reference"}, {[results |-> <<>>, images |-> {"i"}]}, {}, "few")

MCScenarios == {Meeting, Apart, Partial, Cited, Curt, Pictured}
=============================================================================
