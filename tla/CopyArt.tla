------------------------------- MODULE CopyArt -------------------------------
(***************************************************************************)
(* The copywriter, asset_intelligence, art_director and design_spec_compiler   *)
(* agents: the rules their answers must meet and the repairs made without the   *)
(* provider.                                                                *)
(*                                                                          *)
(* A text is a sequence of words; a word has its length, the claim it makes if  *)
(* any, and whether it ends a sentence, dangles at the end of one ("and", "the") *)
(* or shouts.  Shares of attention are percentages.  A colour is its luminance, in   *)
(* ten thousandths; the leading of a text style is in hundredths of its size.     *)
(***************************************************************************)
EXTENDS Integers, Sequences, FiniteSets, Functions, Selection

CONSTANTS Claim,    \* numbers and absolutes a text may contain
          NoClaim   \* a word without one

Words == [chars: Nat \ {0}, claim: Claim \cup {NoClaim}, stop: {"none", ".", "!"},
          dangles: BOOLEAN, shouts: BOOLEAN]
Plain(n) == [chars |-> n, claim |-> NoClaim, stop |-> "none", dangles |-> FALSE, shouts |-> FALSE]

WordChars(w) == w.chars + (IF w.stop = "none" THEN 0 ELSE 1)
Chars(text) ==
    IF text = <<>> THEN 0 ELSE Sum([i \in DOMAIN text |-> WordChars(text[i])]) + Len(text) - 1
Claims(text) == {w.claim : w \in Range(text)} \ {NoClaim}
Ended(text) == text # <<>> /\ text[Len(text)].stop # "none"
Letters(text) == Sum([i \in DOMAIN text |-> text[i].chars])
Shouts(text) ==
    10 * Sum([i \in DOMAIN text |-> IF text[i].shouts THEN text[i].chars ELSE 0]) > 6 * Letters(text)
Loud(text) == Letters(text) >= 6 /\ Shouts(text)
Dangles(text) == text # <<>> /\ text[Len(text)].dangles /\ text[Len(text)].stop = "none"
ExclamationsIn(text) == Sum([i \in DOMAIN text |-> IF text[i].stop = "!" THEN 1 ELSE 0])
Exclamations(texts) == Sum([i \in DOMAIN texts |-> ExclamationsIn(texts[i])])
Preserves(text, offer) ==
    \E i \in 0 .. Len(text) - Len(offer) : SubSeq(text, i + 1, i + Len(offer)) = offer

\* Words between two stops, the longest run of them.
LongSentence(text) ==
    \E i \in DOMAIN text : i + 30 \in DOMAIN text /\ \A j \in i .. i + 29 : text[j].stop = "none"

TextFields == {"headline", "subheadline", "supporting_copy", "cta", "caption"}
OverlayOrder == <<"headline", "subheadline", "supporting_copy", "cta">>
MaxChars == [headline |-> 80, subheadline |-> 140, supporting_copy |-> 240, cta |-> 40, caption |-> 2200]
MaxOfferCopy == 160
MaxOverlay == 420
CaptionLimit(platform) == IF platform \in {"instagram", "facebook"} THEN 500 ELSE 300

\* The contract as the copywriter sees it (offer is <<>> when there is none), with
\* the claims of every approved input (source) and of the offer and the facts.
CopyBrief == [offer: Seq(Words), approved: SUBSET Claim, source: SUBSET Claim,
              forbidden: SUBSET Claim, platform: STRING, print: Nat]

\* CopywriterLLMOutput, a total object: the texts it publishes.
CopyStrings(x) ==
    <<x.headline, x.subheadline, x.supporting_copy, x.offer_copy, x.cta, x.caption>> \o x.hashtags
AllCopy(x) == Range(CopyStrings(x))

CopyWellFormed(x) ==
    /\ \A f \in TextFields : Chars(x[f]) \in 1 .. MaxChars[f]
    /\ Chars(x.offer_copy) <= MaxOfferCopy
    /\ Len(x.hashtags) <= 15 /\ \A h \in Range(x.hashtags) : Len(h) = 1 /\ Chars(h) <= 50

OverlayChars(x) ==
    Chars(x.offer_copy) + Sum([i \in DOMAIN OverlayOrder |-> Chars(x[OverlayOrder[i]])])

\* validate_and_measure_copy
CopyErrors(x, brief) ==
    \/ ~ CopyWellFormed(x)
    \/ \E t \in AllCopy(x) : LongSentence(t)
    \/ Len(x.headline) > 12 \/ Len(x.cta) > 6
    \/ Exclamations(CopyStrings(x)) > 1
    \/ \E t \in AllCopy(x) : Loud(t)
    \/ \E t \in AllCopy(x) : Dangles(t)
    \/ ~ Ended(x.supporting_copy) \/ ~ Ended(x.caption)
    \/ OverlayChars(x) > MaxOverlay
    \/ Chars(x.caption) > CaptionLimit(brief.platform)
    \/ brief.offer = <<>> /\ x.offer_copy # <<>>
    \/ ~ Preserves(x.offer_copy, brief.offer)
    \/ (UNION {Claims(t) : t \in AllCopy(x)}) \cap brief.forbidden # {}
    \/ ~ UNION {Claims(t) : t \in AllCopy(x)} \subseteq brief.source

\* An answer may leave fields out: the offer and the hashtags have defaults.
FilledCopy(x) == [f \in TextFields \cup {"offer_copy", "hashtags"} |->
                    IF f \in DOMAIN x THEN x[f] ELSE <<>>]
CopyInvalid(x, brief) == ~ TextFields \subseteq DOMAIN x \/ CopyErrors(FilledCopy(x), brief)

----------------------------------------------------------------------------
\* text[:chars].rsplit(" ", 1)[0]: the words that end before the limit, or the one
\* word that does not, cut.
CutAt(text, chars) ==
    LET fits == {k \in DOMAIN text : Chars(SubSeq(text, 1, k)) < chars}
    IN  IF Chars(text) <= chars THEN text
        ELSE IF fits # {} THEN SubSeq(text, 1, CHOOSE k \in fits : \A j \in fits : j <= k)
        ELSE IF Chars(<<text[1]>>) = chars THEN <<text[1]>>
        ELSE <<[text[1] EXCEPT !.chars = chars, !.stop = "none"]>>

\* _safe_text; words is a bound on the number of words.
SafeText(text, brief, words, chars) ==
    LET sayable == brief.approved \ brief.forbidden
        kept == Chosen(text, {w \in Range(text) : w.claim \in sayable \cup {NoClaim}})
        loud == Shouts(kept)
        quiet(w) == [w EXCEPT !.stop = IF @ = "!" THEN "." ELSE @, !.shouts = @ /\ ~ loud]
        calm == [i \in DOMAIN kept |-> quiet(kept[i])]
        cut == CutAt(SubSeq(calm, 1, IF Len(calm) < words THEN Len(calm) ELSE words), chars)
    IN  IF cut = <<>> THEN <<Plain(8), Plain(4)>> ELSE cut

\* _safe_sentence
EndedText(text) == IF Ended(text) THEN text ELSE [text EXCEPT ![Len(text)].stop = "."]

\* One turn of the loop that shrinks the longest overlay field; the order of the
\* fields breaks ties.
LongestField(x) ==
    LET at == CHOOSE i \in DOMAIN OverlayOrder : \A j \in DOMAIN OverlayOrder :
                 \/ Chars(x[OverlayOrder[i]]) > Chars(x[OverlayOrder[j]])
                 \/ Chars(x[OverlayOrder[i]]) = Chars(x[OverlayOrder[j]]) /\ i <= j
    IN  OverlayOrder[at]
MinimumChars(f) == IF f \in {"headline", "cta"} THEN 8 ELSE 20

MayShrink(x) == OverlayChars(x) > MaxOverlay
                /\ Chars(x[LongestField(x)]) > MinimumChars(LongestField(x))

\* Mutant: the field is cut to the length it has.
ShrunkInPlace(x) == [x EXCEPT ![LongestField(x)] = CutAt(@, Chars(@))]

ShrunkField(x) ==
    LET f == LongestField(x)
        n == Chars(x[f]) - 20
        cut == CutAt(x[f], IF n < MinimumChars(f) THEN MinimumChars(f) ELSE n)
    IN  [x EXCEPT ![f] = IF f = "supporting_copy" THEN EndedText(cut) ELSE cut]

\* Mutant: a field is taken from the provider as it is.
UnsafeCopy(repair, first, brief) ==
    [f \in TextFields \cup {"offer_copy", "hashtags"} |->
        IF f \in DOMAIN repair THEN repair[f] ELSE IF f \in DOMAIN first THEN first[f] ELSE <<>>]

\* _normalize_copy_output up to the loop: a field of the correction, of the first
\* answer or the default; the offer is the contract's, hashtags are kept.
Defaults == [headline |-> <<Plain(8), Plain(4), Plain(5), Plain(4)>>,
             subheadline |-> <<Plain(1), Plain(7), Plain(10), Plain(6), Plain(6), Plain(4), Plain(5)>>,
             supporting_copy |-> <<Plain(7), Plain(2), Plain(10), Plain(8), Plain(4), [Plain(4) EXCEPT !.stop = "."]>>,
             cta |-> <<Plain(5), Plain(4)>>,
             caption |-> <<Plain(7), Plain(2), Plain(10), Plain(8), Plain(4), [Plain(4) EXCEPT !.stop = "."]>>,
             hashtags |-> <<>>]

NormalizedCopy(repair, first, brief) ==
    LET taken(f) == IF f \in DOMAIN repair THEN repair[f]
                    ELSE IF f \in DOMAIN first THEN first[f] ELSE Defaults[f]
    IN  [headline |-> SafeText(taken("headline"), brief, 12, 80),
         subheadline |-> SafeText(taken("subheadline"), brief, Len(taken("subheadline")), 140),
         supporting_copy |-> EndedText(SafeText(taken("supporting_copy"), brief, 30, 239)),
         cta |-> SafeText(taken("cta"), brief, 6, 40),
         caption |-> EndedText(SafeText(taken("caption"), brief, 30, CaptionLimit(brief.platform) - 1)),
         offer_copy |-> brief.offer,
         hashtags |-> SubSeq(taken("hashtags"), 1, IF Len(taken("hashtags")) < 15
                                                   THEN Len(taken("hashtags")) ELSE 15)]

----------------------------------------------------------------------------
\* The asset_intelligence agent.
Roles == {"brand_logo", "primary_product", "vehicle", "packaging", "environment",
          "background_reference", "style_reference", "supporting_asset", "inspiration_only"}
DeclaredRole ==
    [logo |-> "brand_logo", product |-> "primary_product", vehicle |-> "vehicle",
     packaging |-> "packaging", environment |-> "environment", background |-> "background_reference",
     person |-> "supporting_asset", style_reference |-> "style_reference",
     inspiration |-> "inspiration_only", supporting_asset |-> "supporting_asset"]
Authoritative == DOMAIN DeclaredRole \ {"vehicle", "person", "supporting_asset"}
Protected == {"brand_logo", "primary_product", "vehicle", "packaging"}
Dominance ==
    [brand_logo |-> <<3, 20>>, primary_product |-> <<30, 85>>, vehicle |-> <<25, 85>>,
     packaging |-> <<20, 80>>, environment |-> <<10, 100>>, background_reference |-> <<0, 100>>,
     style_reference |-> <<0, 0>>, supporting_asset |-> <<0, 45>>, inspiration_only |-> <<0, 0>>]

\* A quote of the client: none, invented, theirs, theirs and naming the subject.
Quote == {"none", "invented", "quoted", "quoted_as_subject"}

\* _ground_role
RoleErrors(declared, proposal) ==
    \/ proposal.quote = "invented"
    \/ /\ proposal.role # DeclaredRole[declared]
       /\ \/ declared \in Authoritative
          \/ proposal.quote = "none"
          \/ declared = "vehicle" /\ (proposal.role # "primary_product"
                                      \/ proposal.quote # "quoted_as_subject")

\* Mutant: a required asset may still be replaced.
PolicyWithoutRequired(asset, role, needed) ==
    [asset |-> asset, role |-> role, required |-> needed, preserve |-> role \in Protected,
     crop |-> TRUE, replace |-> role \notin Protected, generate |-> role \notin Protected,
     range |-> Dominance[role]]

\* _build_policies
AssetPolicy(asset, role, needed) ==
    LET required == needed \/ role \in {"brand_logo", "primary_product"}
        preserve == role \in Protected
    IN  [asset |-> asset, role |-> role, required |-> required, preserve |-> preserve,
         crop |-> role \notin {"brand_logo", "style_reference", "inspiration_only"},
         replace |-> ~ preserve /\ ~ required,
         generate |-> ~ preserve /\ ~ required /\ role # "supporting_asset",
         range |-> Dominance[role]]

\* attachments is a function from assets to declared roles, proposals the provider's
\* list of classifications.
PolicyErrors(attachments, proposals) ==
    LET ids == {p.asset : p \in Range(proposals)}
    IN  \/ Cardinality(ids) # Len(proposals)
        \/ ids # DOMAIN attachments
        \/ \E p \in Range(proposals) : RoleErrors(attachments[p.asset], p)

AssetPolicies(attachments, required, proposals) ==
    {AssetPolicy(p.asset, p.role, p.asset \in required) : p \in Range(proposals)}

Uses(asset) == [asset: {asset}, used: BOOLEAN, replaced: BOOLEAN, generated: BOOLEAN,
                preserved: BOOLEAN, cropped: BOOLEAN, dominance: {0, 50, 100}]

\* evaluate_asset_usage: what a composition asserts of its assets.
UsageViolations(policies, uses) ==
    {p \in policies :
        LET of == {u \in uses : u.asset = p.asset}
            use == CHOOSE u \in of : TRUE
        IN  IF of = {} THEN p.required
            ELSE \/ p.required /\ ~ use.used
                 \/ use.replaced /\ ~ p.replace
                 \/ use.generated /\ ~ p.generate
                 \/ use.used /\ p.preserve /\ ~ use.preserved
                 \/ use.cropped /\ ~ p.crop
                 \/ use.used /\ use.dominance \notin p.range[1] .. p.range[2]}

----------------------------------------------------------------------------
\* The art_director agent: the elements in the order of their ranks, the share of
\* the product, and what the patterns find in the texts.
HierarchyElements == {"product", "headline", "supporting_copy", "offer", "cta", "logo"}
RequiredElements == {"product", "headline", "cta", "logo"}
ProductRoles == {"primary_product", "vehicle", "packaging"}
DirectionMarks == {"reserves copy", "readable cta", "clear logo", "carries concept"}
Rank(hierarchy, element) == CHOOSE i \in DOMAIN hierarchy : hierarchy[i] = element

HierarchyErrors(hierarchy, offer) ==
    \/ Len(hierarchy) \notin 4 .. 6 \/ Cardinality(Range(hierarchy)) # Len(hierarchy)
    \/ ~ RequiredElements \subseteq Range(hierarchy)
    \/ Head(hierarchy) # "product" \/ hierarchy[Len(hierarchy)] # "logo"
    \/ offer # ("offer" \in Range(hierarchy))
    \/ Rank(hierarchy, "headline") > Rank(hierarchy, "cta")

\* validate_and_measure_art_direction
ArtErrors(x, copy, policies, colors) ==
    \/ HierarchyErrors(x.hierarchy, copy.offer_copy # <<>>)
    \/ x.dominance \notin 30 .. 75
    \/ \E p \in policies : p.role \in ProductRoles /\ x.dominance \notin p.range[1] .. p.range[2]
    \/ x.replaces_identity
    \/ ~ x.colors \subseteq colors
    \/ ~ DirectionMarks \subseteq x.marks

----------------------------------------------------------------------------
\* The design_spec_compiler agent.  A region is its left, top, width and height.
MaxBackground == 600
Right(b) == b[1] + b[3]
Bottom(b) == b[2] + b[4]
InCanvas(b, canvas) == Right(b) <= canvas[1] /\ Bottom(b) <= canvas[2]
InSafeArea(b, canvas, safe) ==
    /\ b[1] >= safe /\ b[2] >= safe /\ Right(b) <= canvas[1] - safe /\ Bottom(b) <= canvas[2] - safe

\* DesignSpecBody and _validated_spec; safe is one margin for the four sides, texts
\* the lengths of the three directions it carries.
StyleErrors(style) ==
    \/ style.size \notin 8 .. 320 \/ style.leading \notin 80 .. 250 \/ style.max_lines \notin 1 .. 12
    \/ style.weight \notin {100 * n : n \in 1 .. 9} \/ style.tracking \notin -5 .. 20
GridErrors(grid) ==
    \/ grid.columns \notin 1 .. 24 \/ grid.rows \notin 1 .. 24
    \/ grid.gutter \notin 0 .. 512 \/ grid.baseline \notin 1 .. 256
RolesOf(tokens) == {t.role : t \in Range(tokens)}
CanvasErrors(canvas, safe) ==
    \E side \in {canvas[1], canvas[2]} : side \notin 320 .. 8192 \/ 2 * safe >= side
RegionErrors(x, offer) ==
    \/ \E r \in DOMAIN x.regions : ~ InCanvas(x.regions[r], x.canvas)
    \/ \E r \in DOMAIN x.regions \ {"product"} : ~ InSafeArea(x.regions[r], x.canvas, x.safe)
    \/ ~ {"product", "headline", "cta", "logo"} \subseteq DOMAIN x.regions
    \/ offer # ("offer" \in DOMAIN x.regions)
GraphicErrors(x) == Len(x.graphics) > 20 \/ \E e \in Range(x.graphics) : ~ InCanvas(e.region, x.canvas)
TypographyErrors(typography, offer) ==
    \/ Len(typography) \notin 2 .. 5 \/ \E style \in Range(typography) : StyleErrors(style)
    \/ Cardinality(RolesOf(typography)) # Len(typography)
    \/ ~ {"headline", "cta"} \subseteq RolesOf(typography)
    \/ offer # ("offer" \in RolesOf(typography))
ColorErrors(colors) ==
    \/ Len(colors) \notin 3 .. 5 \/ Cardinality(RolesOf(colors)) # Len(colors)
    \/ ~ {"background", "text", "accent"} \subseteq RolesOf(colors)
TextErrors(texts) == texts.photography > 1000 \/ texts.lighting > 600 \/ texts.background > MaxBackground
SpecErrors(x, copy) ==
    LET offer == copy.offer_copy # <<>> IN
    \/ CanvasErrors(x.canvas, x.safe) \/ GridErrors(x.grid)
    \/ RegionErrors(x, offer) \/ GraphicErrors(x)
    \/ TypographyErrors(x.typography, offer) \/ ColorErrors(x.colors) \/ TextErrors(x.texts)

Style(role, size, leading, max_lines, weight) ==
    [role |-> role, size |-> size, leading |-> leading, tracking |-> 0, max_lines |-> max_lines,
     weight |-> weight]
Color(role, luminance) == [role |-> role, luminance |-> luminance]

\* Mutant: the offer keeps its place when there is none.
OfferAlways(art, copy) ==
    [canvas |-> <<1080, 1080>>, safe |-> 64,
     grid |-> [columns |-> 12, rows |-> 12, gutter |-> 24, baseline |-> 8],
     regions |-> [product |-> <<0, 230, 620, 760>>, headline |-> <<640, 96, 360, 250>>,
                  offer |-> <<640, 520, 280, 76>>, cta |-> <<640, 640, 280, 72>>,
                  logo |-> <<820, 920, 180, 72>>],
     typography |-> <<Style("headline", 58, 105, 3, 700), Style("offer", 32, 100, 2, 700),
                      Style("cta", 25, 100, 1, 700)>>,
     colors |-> <<Color("background", 9125), Color("text", 86), Color("accent", 1714)>>,
     graphics |-> <<>>, texts |-> art.texts]

\* _deterministic_spec: a square layout; the colour direction becomes the background.
DeterministicSpec(art, copy) ==
    LET offer == copy.offer_copy # <<>>
        regions == [product |-> <<0, 230, 620, 760>>, headline |-> <<640, 96, 360, 250>>,
                    offer |-> <<640, 520, 280, 76>>, cta |-> <<640, 640, 280, 72>>,
                    logo |-> <<820, 920, 180, 72>>]
        shown == IF offer THEN DOMAIN regions ELSE DOMAIN regions \ {"offer"}
    IN  [canvas |-> <<1080, 1080>>, safe |-> 64,
         grid |-> [columns |-> 12, rows |-> 12, gutter |-> 24, baseline |-> 8],
         regions |-> [r \in shown |-> regions[r]],
         typography |-> <<Style("headline", 58, 105, 3, 700), Style("supporting_copy", 26, 130, 4, 400)>>
                        \o (IF offer THEN <<Style("offer", 32, 100, 2, 700)>> ELSE <<>>)
                        \o <<Style("cta", 25, 100, 1, 700)>>,
         colors |-> <<Color("background", 9125), Color("text", 86), Color("accent", 1714),
                      Color("cta_background", 86), Color("cta_text", 10000)>>,
         graphics |-> <<>>, texts |-> art.texts]
=============================================================================
