---------------------------- MODULE MCSpecialists ----------------------------
(***************************************************************************)
(* Small worlds for the specialists: for every agent a few payloads and the    *)
(* answers that make each of its paths happen.                                *)
(***************************************************************************)
EXTENDS Specialists, TLC

MCWord == {"acme", "bakery", "hotel", "bread", "more sales", "visit us", "instagram"}
MCMarker == {"dua", "per"}
MCGoalMarked == {"more sales"}
MCActionMarked == {"visit us"}
MCBusinessTypes == {"bakery", "hotel"}
MCDeclaresProduct == {"bread"}
MCDeclaresBusiness == {"bakery", "hotel"}
MCInside == {<<"more sales", "more sales">>}

Heard(words, named, kind, goal, action) ==
    [words |-> words, platforms |-> words \cap {"instagram"}, named |-> named, kind |-> kind,
     goal |-> goal, action |-> action, markers |-> {}]
Plea == Heard({"acme", "more sales", "instagram"}, "acme", None, "more sales", None)
Order == [Heard({"bakery", "visit us"}, None, "bakery", None, "visit us") EXCEPT !.markers = MCMarker]
Chatter == Heard({}, None, None, None, None)
Advice == Heard({"hotel", "bread"}, None, "hotel", None, None)
From(role, said) == [role |-> role, said |-> said]

KnownFacts ==
    {NoUpdate, [NoUpdate EXCEPT !["business"] = "bakery"], [NoUpdate EXCEPT !["brand"] = "acme"],
     [NoUpdate EXCEPT !["product_service"] = "bread", !["brand"] = "bread"]}
Understandings ==
    {LET context == [NewContext EXCEPT !.facts = facts]
     IN  [context |-> context,
          source |-> [history |-> history, latest |-> latest, verified |-> VerifiedBy(context),
                      constraints |-> {}]] :
        facts \in KnownFacts, latest \in {Order, Chatter},
        history \in {<<>>, <<From("user", Plea), From("assistant", Advice)>>}}

Nothing == [values |-> [f \in ScalarFields |-> None],
            quotes |-> [f \in ScalarFields \cup {"constraints"} |-> {}], constraints |-> {}]
Extractions ==
    {Nothing,
     [Nothing EXCEPT !.values["business"] = "hotel", !.quotes["business"] = {"hotel"},
                     !.constraints = {"bread"}, !.quotes["constraints"] = {"bread"}],
     [Nothing EXCEPT !.values["product_service"] = "acme", !.values["brand"] = "acme",
                     !.values["cta_intent"] = "more sales"]}

----------------------------------------------------------------------------
MCFact == {"warranty", "oven"}
MCTerm == {"two years", "stone", "best", "and", "families"}
MCAssumed == {"families"}
MCSegment == {"locals"}
MCClaim == {"two years", "stone", "best"}
MCConjunction == "and"

ContractOf(audience) ==
    [facts |-> [warranty |-> "two years", oven |-> "stone"], forbidden |-> {"best"},
     identity |-> "stone", given |-> {"market"}, audience |-> audience, fixed |-> "stone", print |-> 1]
Link(fact, outcome) ==
    [source |-> fact, feature |-> {ContractOf({}).facts[fact]}, outcome |-> outcome]
Proposed(brand, product, chains, usps) ==
    [identity |-> {"stone"}, brand_keys |-> brand, product_keys |-> product, chains |-> chains, usps |-> usps]
Candidate(fact) == [text |-> {ContractOf({}).facts[fact]}, sources |-> {fact}]
BrandAnswers ==
    {Proposed({"warranty"}, {"oven"}, <<Link("warranty", {"and"})>>, <<>>),
     Proposed({"oven"}, {"warranty"}, <<Link("oven", {})>>, <<Candidate("warranty")>>),
     Proposed(MCFact, {}, <<>>, <<Candidate("oven")>>),
     Proposed(MCFact, MCFact, <<>>, <<>>),
     Proposed({}, {"oven"}, <<>>, <<>>),
     Proposed(MCFact, {}, <<Link("oven", {"best"})>>, <<>>)}

Held(says, basis, confidence) == [says |-> says, basis |-> basis, confidence |-> confidence]
Readers(says, basis, confidence) ==
    [segments |-> <<Held(says, {BA!Declared}, "medium")>>, target |-> 1,
     insights |-> <<Held({}, basis, confidence)>>]
AudienceAnswers ==
    {Readers({}, {BA!Basis("product", "oven")}, "low"),
     Readers({"families"}, {BA!Declared}, "low"),
     Readers({}, {BA!Basis("product", "price")}, "medium"), Readers({}, {BA!Declared}, "high")}

Ref(kind, item) == [kind |-> kind, item |-> item]
Phrased(joins, promises, claims) ==
    [single |-> TRUE, joins |-> joins, promises |-> promises, claims |-> claims]
Strategic(basis, message, claims, framework) ==
    [basis |-> [d \in ST!Decisions |-> basis], principles |-> TRUE, targets |-> MCSegment,
     repeats_segment |-> FALSE, message |-> message, claims |-> claims, boundary |-> FALSE,
     framework |-> framework, framework_basis |-> <<>>]
StrategyAnswers ==
    {Strategic(<<>>, Phrased(FALSE, {}, {}), {}, "pas"),
     Strategic(<<Ref("feature", 0), Ref("usp", 9)>>, Phrased(TRUE, MCFact, {}), {}, "aida"),
     Strategic(<<Ref("needs", 0)>>, Phrased(FALSE, {}, {"best"}), {}, "none"),
     Strategic(<<Ref("goal", 0)>>, Phrased(FALSE, {}, {}), {"best"}, "none")}

----------------------------------------------------------------------------
Says(notions) == CD!Said(notions)
Nth(i) == <<"first", "second", "third">>[i]
Territory(i) ==
    [id |-> i, angle |-> <<"emotional_transformation", "visual_metaphor", "brand_symbol">>[i],
     basis |-> {CD!MarketingAngle, CD!AudienceTension}, name |-> Says({"name", Nth(i)}),
     premise |-> Says({"premise", Nth(i)}), creative_tension |-> Says({"tension", Nth(i)}),
     strategic_link |-> Says({"link", Nth(i)})]
Hook(i) ==
    [id |-> i, basis |-> {CD!MarketingAngle, CD!BrandIdentity}, description |-> Says({"scene", Nth(i)}),
     symbol |-> Says({"symbol", Nth(i)}), wordless_read |-> Says({"read"}), mechanism |-> Says({"mechanism"})]
Scored(originality, clarity) ==
    [d \in CD!Dimensions |-> CASE d = "originality" -> originality [] d = "clarity" -> clarity
                               [] d \notin {"originality", "clarity"} -> 10]
Idea(i) ==
    [id |-> i, territory_id |-> i, visual_hook_id |-> i, basis |-> {CD!MarketingAngle, CD!AudienceTarget},
     idea |-> Says({"idea", Nth(i)}), territory_link |-> Says({"serves", Nth(i)}),
     hook_link |-> Says({"shows", Nth(i)}), extensions |-> <<Says({"street"}), Says({"window"})>>,
     weakness |-> Says({"weakness", Nth(i)}),
     scores |-> <<Scored(8, 9), Scored(9, 8), Scored(8, 8)>>[i]]
Exploration ==
    [territories |-> [i \in 1 .. 3 |-> Territory(i)], hooks |-> [i \in 1 .. 3 |-> Hook(i)],
     ideas |-> [i \in 1 .. 3 |-> Idea(i)]]
Only(ideas) == [territories |-> <<>>, hooks |-> <<>>, ideas |-> ideas]

CreativeBrief ==
    [allowed |-> {CD!MarketingAngle, CD!AudienceTarget, CD!AudienceTension, CD!BrandIdentity},
     wordings |-> {{"strategy"}}, angle |-> Says({"angle"}), tension |-> Says({"given"}),
     limitations |-> <<"hypotheses">>]

Absolute == CD!Sentence({"promise"}, {"absolute"})
\* Sound; copied from the strategy; a claim beside a sound sentence; nothing but a
\* claim; below the bar; three equal scorecards; extensions that repeat the idea or
\* address the reader; an unknown territory; an edit of one idea; an edit of what no patch may touch.
Explorations ==
    {CD!Object(Exploration),
     CD!Object([Exploration EXCEPT !.ideas[1].idea = Says({"strategy"})]),
     CD!Object([Exploration EXCEPT !.ideas[2].idea = @ \o <<Absolute>>,
                                   !.hooks[1].basis = {}]),
     CD!Object([Exploration EXCEPT !.territories[1].premise = <<Absolute>>]),
     CD!Object([Exploration EXCEPT !.ideas[1].scores = Scored(7, 10), !.ideas[2].scores = Scored(7, 9)]),
     CD!Object([Exploration EXCEPT !.ideas = [i \in 1 .. 3 |-> [Idea(i) EXCEPT !.scores = Scored(8, 8),
                                                                !.weakness = Says({"cost"})]]]),
     CD!Object([Exploration EXCEPT !.ideas[1].extensions[1] = Says({"idea", Nth(1)}),
                                   !.ideas[1].extensions[2] = <<CD!Sentence({"call"}, {"addresses"})>>]),
     CD!Object([Exploration EXCEPT !.ideas[3].territory_id = 9, !.ideas[3].idea = Says({"strategy"})]),
     CD!Object(Only(<<[id |-> 1, idea |-> Says({"edited"})]>>)),
     [CD!Object(Only(<<>>)) EXCEPT !.legal = FALSE]}

----------------------------------------------------------------------------
Word_(n) == CA!Plain(n)
Stop(n, mark) == [Word_(n) EXCEPT !.stop = mark]
Claiming(c) == [Word_(8) EXCEPT !.claim = c]
Dangling(n) == [Word_(n) EXCEPT !.dangles = TRUE]
Shouting(n) == [Word_(n) EXCEPT !.shouts = TRUE]
Many(n, w) == [i \in 1 .. n |-> w]

CopyBriefOf(offer) ==
    [offer |-> offer, approved |-> {"two years"}, source |-> {"two years", "stone"},
     forbidden |-> {"best"}, platform |-> "instagram", print |-> 1]
CopyBriefs == {CopyBriefOf(<<>>), CopyBriefOf(<<Claiming("two years")>>),
               CopyBriefOf(Many(17, Word_(8))), CopyBriefOf(Many(20, Word_(8)))}

GoodCopy ==
    [headline |-> Many(3, Word_(6)), subheadline |-> Many(5, Word_(6)),
     supporting_copy |-> <<Word_(9), Stop(7, ".")>>, cta |-> <<Word_(4), Word_(3)>>,
     caption |-> <<Word_(9), Stop(7, ".")>>, hashtags |-> << <<Word_(6)>> >>]
Drafts ==
    {GoodCopy,
     GoodCopy @@ [offer_copy |-> <<Claiming("two years")>>],
     [GoodCopy EXCEPT !.headline = Many(16, Word_(8)), !.subheadline = Many(20, Word_(9)),
                      !.supporting_copy = Many(35, Word_(9)), !.caption = Many(40, Word_(20)),
                      !.cta = Many(8, Word_(8))],
     [GoodCopy EXCEPT !.headline = <<Word_(5), Claiming("best")>>, !.caption = <<Stop(9, "!"), Stop(4, "!")>>,
                      !.supporting_copy = <<Word_(30), Claiming("stone")>>],
     [GoodCopy EXCEPT !.headline = <<Word_(5), Dangling(3), Claiming("best")>>,
                      !.cta = Many(3, Shouting(5))],
     [GoodCopy EXCEPT !.hashtags = << <<Shouting(9)>> >>, !.headline = Many(13, Word_(5))],
     [GoodCopy EXCEPT !.hashtags = << <<Stop(6, "!")>>, <<Stop(7, "!")>> >>, !.headline = Many(13, Word_(5))],
     [headline |-> <<Claiming("best")>>, caption |-> Many(2, Shouting(9)), hashtags |-> <<>>]}

Attachments ==
    {[attachments |-> <<>>, required |-> {}],
     [attachments |-> [a1 |-> "product", a2 |-> "vehicle"], required |-> {"a2"}],
     [attachments |-> [a1 |-> "logo", a2 |-> "supporting_asset"], required |-> {"a1", "a2"}]}
Role(asset, role, quote) == [asset |-> asset, role |-> role, quote |-> quote]
Classifications ==
    { <<Role("a1", "primary_product", "none"), Role("a2", "vehicle", "none")>>,
      <<Role("a1", "primary_product", "none"), Role("a2", "primary_product", "quoted_as_subject")>>,
      <<Role("a1", "brand_logo", "none"), Role("a2", "environment", "quoted")>>,
      <<Role("a1", "brand_logo", "none"), Role("a2", "environment", "invented")>>,
      <<Role("a1", "brand_logo", "none")>> }

Ranked(hierarchy, dominance, background) ==
    [hierarchy |-> hierarchy, dominance |-> dominance, replaces_identity |-> FALSE, colors |-> {"brand"},
     marks |-> CA!DirectionMarks, texts |-> [photography |-> 900, lighting |-> 500, background |-> background]]
ArtAnswers ==
    {Ranked(<<"product", "headline", "cta", "logo">>, 40, 600),
     Ranked(<<"product", "headline", "offer", "cta", "logo">>, 40, 600),
     Ranked(<<"product", "headline", "offer", "cta", "logo">>, 40, 601),
     Ranked(<<"product", "cta", "headline", "logo">>, 80, 100)}

Grid == [columns |-> 12, rows |-> 15, gutter |-> 20, baseline |-> 8]
Plain == <<CA!Style("headline", 40, 105, 3, 700), CA!Style("cta", 24, 100, 1, 700)>>
Palette == <<CA!Color("background", 9125), CA!Color("text", 86), CA!Color("accent", 1714),
             CA!Color("cta_background", 86), CA!Color("cta_text", 10000)>>
Laid(regions, typography) ==
    [canvas |-> <<1080, 1350>>, safe |-> 60, grid |-> Grid, regions |-> regions, typography |-> typography,
     colors |-> Palette, graphics |-> <<[region |-> <<0, 0, 1080, 40>>, color |-> "accent"]>>,
     texts |-> [photography |-> 10, lighting |-> 10, background |-> 10]]
Places == [product |-> <<0, 0, 1080, 620>>, headline |-> <<60, 640, 900, 165>>,
           cta |-> <<60, 1062, 300, 80>>, logo |-> <<820, 1215, 200, 75>>]
WithOffer == Places @@ [offer |-> <<60, 890, 300, 85>>]
Priced == Plain \o <<CA!Style("offer", 28, 100, 2, 700)>>
SpecAnswers ==
    {Laid(Places, Plain), Laid(WithOffer, Priced),
     Laid([Places EXCEPT !.logo = <<900, 1200, 200, 80>>], Plain)}

----------------------------------------------------------------------------
MCToken == {"acme", "hp", "bread", "fresh", "pristina", "50", "7", "best", "globex"}
MCSize == [t \in MCToken |-> CASE t = "7" -> 1 [] t \in {"hp", "50"} -> 2 [] t \notin {"7", "hp", "50"} -> 5]
MCFigure == {"50", "7"}
MCCapital == {"acme", "pristina", "globex"}

Piece(kind, source, preserved, text) ==
    [kind |-> kind, source |-> source, checksum |-> source # "none", preserved |-> preserved, text |-> text]
Texts == [headline |-> {"fresh", "bread"}, subheadline |-> {}, supporting_copy |-> {"pristina"},
          offer_copy |-> {"50", "bread"}, cta |-> {"fresh"}, caption |-> {"acme", "fresh"}, hashtags |-> {{"bread"}}]
Written == {Piece("typography", "none", FALSE, t) : t \in VR!Approved([copy |-> Texts])}
Logo == Piece("logo", "a1", TRUE, {})
Loaf == Piece("product", "a2", TRUE, {})
Prints == [s \in (UNION {RV!ReadBy[r] : r \in DOMAIN RV!ReadBy}) \cup {"creative_concept"} |-> 1]
Strong == [d \in CD!Dimensions |-> CD!QualityThresholds[d]]
Post ==
    [contract |-> [brand |-> {"acme"}, company |-> {}, product |-> {"bread"}, entity |-> {"bread"},
                   offer |-> {"50"}, facts |-> {{"fresh", "50"}}, forbidden |-> {"best"}, required |-> {"a2"}],
     copy |-> Texts, canvas |-> <<2, 3>>,
     policies |-> {CA!AssetPolicy("a1", "brand_logo", FALSE), CA!AssetPolicy("a2", "primary_product", TRUE)},
     draft |-> [working |-> <<2, 3>>, final |-> <<4, 6>>, components |-> Written \cup {Logo, Loaf},
                checksum |-> "c1", render |-> "r1"],
     prints |-> Prints, bytes |-> "c1", history |-> <<>>, reports |-> <<>>, idea |-> Strong, scoped |-> TRUE]
\* Other exports; assets that are missing, altered, unapproved or in the wrong place;
\* texts that lost a word or gained one; posts for another brand; a stale section.
Variants ==
    {Post}
    \cup {[Post EXCEPT !.draft.final = size] : size \in {<<2, 3>>, <<8, 12>>, <<10, 15>>, <<4, 9>>, <<4, 7>>, <<1, 3>>}}
    \cup {[Post EXCEPT !.draft.working = <<2, 2>>]}
    \cup {[Post EXCEPT !.draft.components = Written \cup pieces] :
             pieces \in {{}, {Loaf}, {Logo}, {Logo, Piece("product", "a2", FALSE, {})},
                        {Loaf, Piece("logo", "a3", TRUE, {})}, {Logo, Loaf, Piece("product", "none", TRUE, {})}}}
    \cup {[Post EXCEPT !.draft.components = (@ \ {Piece("typography", "none", FALSE, {"50", "bread"})}) \cup pieces] :
             pieces \in {{}, {Piece("offer", "none", FALSE, {"50"})}, {Piece("cta", "none", FALSE, {"best"})}}}
    \cup {[Post EXCEPT !.policies = {CA!AssetPolicy("a2", "primary_product", TRUE)}, !.draft.components = @ \ {Logo},
                       !.contract.brand = brand] : brand \in {{}, {"hp"}, {"acme"}}}
    \cup {[Post EXCEPT !.copy.offer_copy = {}], [Post EXCEPT !.contract.offer = {}],
          [Post EXCEPT !.contract.facts = {{"globex"}}], [Post EXCEPT !.prints["copy"] = 2],
          [Post EXCEPT !.prints["creative_concept"] = 2], [Post EXCEPT !.prints["marketing_strategy"] = 2],
          [Post EXCEPT !.bytes = Drifted]}
    \cup {[Post EXCEPT !.contract.required = {}, !.draft.components = @ \ {Loaf}],
          [Post EXCEPT !.contract.required = {}, !.policies = {}, !.draft.components = Written]}

\* What decides later: the scorecard of the concept, the revisions already asked for
\* and the scope of the post.
Asked(by, n) ==
    [i \in 1 .. n |-> [RV!Instruction(<<RV!Finding("layout", "polish", 0)>>, by, <<>>, "r0")
                         EXCEPT !.status = "completed", !.iteration = i]]
Certifiable ==
    {[Post EXCEPT !.idea = idea] :
        idea \in {[Strong EXCEPT !["audience_fit"] = 9], [d \in CD!Dimensions |-> 10]}}
    \cup {[Post EXCEPT !.scoped = FALSE]}
    \cup {[Post EXCEPT !.history = Asked(by, n)] :
             by \in {"quality_review", "design_review"}, n \in {1, 2}}
    \cup {[Post EXCEPT !.history = Asked("quality_scoring", 20)],
          [Post EXCEPT !.history =
              <<RV!Instruction(<<RV!Finding("strategy", "positioning", 0)>>, "quality_review", <<>>, "r1")>>]}

Seen(text, brands, products) == [text |-> text, brands |-> brands, products |-> products]
Readouts ==
    {Seen({}, {}, {}), Seen({{"fresh", "hp"}, {"7"}}, {{"acme"}}, {{"bread"}}), Seen({}, {{"acme"}}, {}),
     Seen({}, {{"pristina"}}, {}), Seen({{"globex"}}, {}, {{"bread"}}), Seen({{}}, {{"globex"}}, {{"globex"}})}

Reviewed(scores) ==
    [i \in DOMAIN RV!MarketingDimensions |->
        LET d == RV!MarketingDimensions[i]
            score == IF d \in DOMAIN scores THEN scores[d] ELSE 8
        IN  [dimension |-> d, score |-> score, diagnosis |-> IF score < 8 THEN "full" ELSE "none"]]
Marketing ==
    {Reviewed([d \in RV!Range(RV!MarketingDimensions) |-> s]) : s \in {8, 9, 10}}
    \cup {Reviewed([positioning |-> 7]), Reviewed([cta |-> 7]), Reviewed([cta |-> 7, positioning |-> 6]),
          Reviewed([d \in RV!Range(RV!MarketingDimensions) |-> IF d = "audience_relevance" THEN 8 ELSE 9]),
          [Reviewed(<<>>) EXCEPT ![1].diagnosis = "part"], SubSeq(Reviewed(<<>>), 1, 7),
          [Reviewed(<<>>) EXCEPT ![2].dimension = "objective_alignment"]}

Checked(failing, diagnosis) ==
    [i \in DOMAIN RV!DesignDimensions |->
        LET bad == RV!DesignDimensions[i] \in failing
        IN  [dimension |-> RV!DesignDimensions[i], severity |-> IF bad THEN "low" ELSE "none",
             diagnosis |-> IF bad THEN diagnosis ELSE "none"]]
Design ==
    {Checked(failing, "full") : failing \in {{}, {"color", "creativity"}, {"brand_consistency", "typography"}}}
    \cup {Checked({"polish"}, "part"), Checked({"polish"}, "blank"), Tail(Checked({}, "none"))}

Issue(dimension, chars) == [dimension |-> dimension, severity |-> "high", chars |-> chars]
Visible(issues) == [assessed |-> RV!VisionDimensions, issues |-> issues]
Vision ==
    {Visible(<<>>), Visible(<<Issue("logo_appearance", 40), Issue("crops", 40)>>),
     Visible(<<Issue("distortion", 40), Issue("readability", 40)>>), Visible(<<Issue("crops", 1600)>>),
     Visible([i \in 1 .. 31 |-> Issue("spacing", i)]), Visible([i \in 1 .. 41 |-> Issue("spacing", i)]),
     [Visible(<<>>) EXCEPT !.assessed = Tail(@)]}

----------------------------------------------------------------------------
\* A planned post: the loaf before its bakery, with the logo.
MCScaffold == {{"light"}}
Sections == (UNION {PR!Reads[r] : r \in DOMAIN PR!Reads}) \cup OR!ReadByReferences
Policies(roles) == [i \in DOMAIN roles |-> CA!AssetPolicy(<<"a1", "a2", "a3", "a4", "a5", "a6">>[i], roles[i], FALSE)]
Holding(p, policies) ==
    [p EXCEPT !.policies = policies,
              !.library = [a \in {policies[i].asset : i \in DOMAIN policies} |-> "stored"],
              !.images = [a \in {policies[i].asset : i \in DOMAIN policies} |-> <<300, 400>>]]
Full == <<"brand_logo", "primary_product", "environment">>
Words(draft) == CA!FilledCopy(draft)
Offering == Words(GoodCopy @@ [offer_copy |-> Many(4, Word_(6))])
Fallback(copy) == CA!DeterministicSpec(Ranked(<<>>, 40, 600), copy)
Shot ==
    Holding([contract |-> [company |-> {}, brand |-> {"acme"}, product |-> {"bread"}, entity |-> {"bread"},
                           offer |-> {}, cta |-> {"fresh"}],
             copy |-> Words(GoodCopy), spec |-> Laid(Places, Plain), policies |-> <<>>,
             prints |-> [s \in Sections |-> 1], chars |-> 900, library |-> <<>>, images |-> <<>>,
             history |-> <<>>, plan |-> None, scene |-> PR!NoScene, bytes |-> PR!Nobody, report |-> None],
            Policies(Full))

\* Layouts: the fallback, texts that just fit and texts that do not, regions too close,
\* at the edge, or on the wrong grid; colours that are missing or too faint; a canvas
\* no export can enlarge.
Supporting == Priced \o <<CA!Style("subheadline", 24, 120, 2, 400), CA!Style("supporting_copy", 20, 130, 3, 400)>>
Offered == [Shot EXCEPT !.copy = Offering, !.spec = Laid(WithOffer, Supporting)]
Layouts ==
    {Offered, [Shot EXCEPT !.spec = Fallback(Words(GoodCopy))],
     [Offered EXCEPT !.spec = Fallback(Offering)],
     [Offered EXCEPT !.copy.headline = Many(9, Word_(9)), !.copy.supporting_copy = Many(22, Word_(8))],
     [Offered EXCEPT !.copy.supporting_copy = Many(90, Word_(8))],
     [Offered EXCEPT !.spec.typography[3].size = 41],
     [Offered EXCEPT !.spec.typography[5] = CA!Style("supporting_copy", 96, 100, 1, 400)],
     [Offered EXCEPT !.spec.typography[3].size = 41, !.spec.regions.cta = <<60, 980, 300, 160>>],
     [Shot EXCEPT !.copy.headline = <<Word_(90)>>],
     [Shot EXCEPT !.copy.cta = Many(4, Word_(9))],
     [Shot EXCEPT !.spec.regions.logo = <<1010, 1200, 10, 90>>],
     [Shot EXCEPT !.spec.grid.gutter = 200],
     [Shot EXCEPT !.spec.colors = SubSeq(Palette, 1, 3)],
     [Shot EXCEPT !.spec.colors = <<CA!Color("background", 300), Palette[2], Palette[3], Palette[4], Palette[5]>>],
     [Shot EXCEPT !.spec.graphics[1].color = "cta"],
     [Shot EXCEPT !.spec.canvas = <<1080, 4200>>]}
\* Originals: several products, two logos, what has no place of its own, none at all.
Libraries ==
    {Holding(Shot, Policies(<<"brand_logo", "vehicle", "packaging", "background_reference">>)),
     Holding(Shot, Policies(<<"brand_logo", "brand_logo", "environment", "supporting_asset">>)),
     Holding(Shot, Policies([i \in 1 .. 6 |-> "packaging"]) \o <<CA!AssetPolicy("a7", "environment", FALSE)>>),
     Holding(Shot, <<CA!AssetPolicy("a1", "supporting_asset", TRUE), CA!AssetPolicy("a2", "environment", FALSE)>>),
     Holding(Shot, <<CA!AssetPolicy("a1", "environment", TRUE), CA!AssetPolicy("a2", "supporting_asset", FALSE)>>),
     [Holding(Shot, Policies([i \in 1 .. 5 |-> "packaging"]) \o <<CA!AssetPolicy("a6", "environment", FALSE)>>)
        EXCEPT !.spec.regions.product = <<0, 0, 40, 640>>, !.spec.grid.columns = 24]}
Generating ==
    {Holding(Shot, Policies(<<"brand_logo", "primary_product">>)), Holding(Shot, Policies(<<"brand_logo">>)),
     Holding(Shot, <<>>)}
Unplannable ==
    {[Shot EXCEPT !.prints["design_spec"] = 2], [Shot EXCEPT !.prints["creative_concept"] = 2],
     [Shot EXCEPT !.prints["copy"] = 2],
     [Holding(Shot, Policies(<<"brand_logo">>)) EXCEPT !.contract.brand = {"light"}],
     [Holding(Shot, <<>>) EXCEPT !.chars = 8001]}

Image(checksum) ==
    [readable |-> TRUE, mime |-> "png", actual |-> "png", size |-> <<1080, 1350>>, checksum |-> checksum]
Images ==
    {Image("p1"), Image("p2"), [Image("p3") EXCEPT !.readable = FALSE], [Image("p3") EXCEPT !.actual = "jpeg"],
     [Image("p3") EXCEPT !.size = <<1024, 1024>>]}
Observed(confidence) ==
    [i \in DOMAIN PR!Contaminations |->
        LET k == PR!Contaminations[i]
        IN  [kind |-> k, confidence |-> IF k \in DOMAIN confidence THEN confidence[k] ELSE 0]]
Inspected(confidence, text, brands, products) ==
    [observations |-> Observed(confidence), text |-> text, brands |-> brands, products |-> products]
Inspections ==
    {Inspected([distortion |-> 59], {{"7"}}, {}, {}), Inspected(<<>>, {}, {}, {{"bread"}}),
     Inspected([watermark |-> 50], {}, {{"acme"}}, {}),
     [Inspected(<<>>, {}, {}, {}) EXCEPT !.observations = Tail(@)]}

----------------------------------------------------------------------------
\* A post that resembles an approved one in three respects, or in two.
DNA(shared, size, other) ==
    [d \in OR!DNADimensions |-> IF d \in shared THEN {<<"kept", i>> : i \in 1 .. size} ELSE {other}]
Three == {"layout", "typography_pattern", "cta_treatment"}
Remembered(print, shared, size) ==
    [readable |-> TRUE, print |-> print, dna |-> DNA(shared, size, <<"old", print>>)]
Planned ==
    [prints |-> [s \in Sections |-> 1], scoped |-> TRUE, urls |-> {"u1", "u2"}, marks |-> {"subject", "gradient"},
     dna |-> DNA(Three, 5, <<"new", 0>>), memory |-> <<>>, history |-> <<>>]
PlannedPosts ==
    {Planned, [Planned EXCEPT !.marks = OR!CommodityMarks], [Planned EXCEPT !.scoped = FALSE],
     [Planned EXCEPT !.prints["research"] = 2],
     [Planned EXCEPT !.memory = <<[Remembered(1, Three, 5) EXCEPT !.readable = FALSE],
                                Remembered(2, {"layout"}, 5), Remembered(3, Three, 7)>>],
     [Planned EXCEPT !.memory = <<Remembered(1, {"layout"}, 5), Remembered(2, Three, 6)>>],
     [Planned EXCEPT !.memory = [i \in 1 .. 11 |-> Remembered(i, Three, 5)]],
     [Planned EXCEPT !.marks = OR!CommodityMarks, !.history = Asked("reference_validation", 2)]}
Rated(scores, chars) ==
    [i \in DOMAIN OR!ReferenceDimensions |->
        LET d == OR!ReferenceDimensions[i]
        IN  [dimension |-> d, score |-> IF d \in DOMAIN scores THEN scores[d] ELSE 9, chars |-> chars]]
Citing(url, use, copied) == [url |-> url, use |-> use, copied |-> copied]
Judged(checks, references) == [checks |-> checks, references |-> references]
ReferenceAnswers ==
    {Judged(Rated(<<>>, 80), <<Citing("u1", "INSPIRATION", 0)>>), Judged(Rated([market_fit |-> 7], 80), <<>>),
     Judged(Rated([layout_similarity |-> 6], 80), <<>>), Judged(Rated([brand_fit |-> 5], 1000), <<>>),
     Judged(Rated(<<>>, 80), <<Citing("u2", "COPY", 1)>>), Judged(Rated(<<>>, 80), <<Citing("u3", "INSPIRATION", 0)>>),
     Judged(Rated(<<>>, 80), <<Citing("u1", "COPY", 0)>>), Judged(Tail(Rated(<<>>, 80)), <<>>)}

MCInputs ==
    [client_understanding |-> Understandings, brand_product |-> {ContractOf({}), ContractOf({"families"})},
     creative_director |-> {CreativeBrief}, copywriter |-> CopyBriefs, asset_intelligence |-> Attachments,
     reference_validation |-> PlannedPosts,
     generation_planning |-> {Shot} \cup Layouts \cup Libraries \cup Generating \cup Unplannable,
     verification |-> Variants \cup Certifiable]
Answering(objects) == {Unparsed} \cup {[form |-> "object", x |-> o] : o \in objects}
MCAnswers ==
    [client_understanding |-> Answering(Extractions), brand_product |-> Answering(BrandAnswers),
     audience_intelligence |-> Answering(AudienceAnswers), marketing_strategist |-> Answering(StrategyAnswers),
     creative_director |-> {Unparsed} \cup Explorations, copywriter |-> Answering(Drafts),
     asset_intelligence |-> Answering(Classifications), art_director |-> Answering(ArtAnswers),
     design_spec |-> Answering(SpecAnswers), reference_validation |-> Answering(ReferenceAnswers),
     production |-> Images, scene_purity |-> Answering(Inspections), verification |-> Answering(Readouts),
     quality_review |-> Answering(Marketing), design_review |-> Answering(Design),
     vision_review |-> Answering(Vision)]
=============================================================================
