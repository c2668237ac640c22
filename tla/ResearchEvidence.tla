--------------------------- MODULE ResearchEvidence ---------------------------
(***************************************************************************)
(* What the research tools make of search results and of a model's analysis:   *)
(* quality.py, analysis.py and the report schemas.  A text is a sequence of     *)
(* words; a cut at a number of characters keeps the whole words before it.      *)
(* Scores are in ten-thousandths.                                              *)
(***************************************************************************)
EXTENDS Integers, Sequences, SequencesExt

CONSTANTS
    Lexicon,              \* word |-> [chars, money, digits, proper]
    ExcerptLimit,         \* SOURCE_EXCERPT_LIMIT
    AnalysisExcerptLimit, AnalysisMaxSources, MaxSources,
    WindowChars,          \* RELEVANCE_WINDOW_CHARS
    WindowTailMin, NavigationRun,
    QuoteLimit, QuoteMin, \* of a ResearchEvidenceQuote
    ReattributionMin,     \* EVIDENCE_REATTRIBUTION_MIN_CHARS
    None

Chars(text) ==
    LET sum[i \in 0 .. Len(text)] == IF i = 0 THEN 0 ELSE sum[i - 1] + Lexicon[text[i]].chars + 1
    IN  IF text = <<>> THEN 0 ELSE sum[Len(text)] - 1

\* text[:size] and, for a span that must end before a space, text[:size].rfind(" ")
Cut(text, size) == SubSeq(text, 1, Max({i \in 0 .. Len(text) : Chars(SubSeq(text, 1, i)) <= size}))
Head_(text, size) ==
    IF Chars(text) <= size THEN text
    ELSE SubSeq(text, 1, Max({i \in 0 .. Len(text) : i = 0 \/ Chars(SubSeq(text, 1, i)) < size}))

ContainsText(text, span) ==
    \E i \in 0 .. Len(text) - Len(span) : SubSeq(text, i + 1, i + Len(span)) = span

WordsOf(text) == {text[i] : i \in 1 .. Len(text)}
Count(text, field) ==
    LET sum[i \in 0 .. Len(text)] == IF i = 0 THEN 0 ELSE sum[i - 1] + Lexicon[text[i]][field]
    IN  sum[Len(text)]
Concatenated(texts) ==
    LET all[i \in 0 .. Len(texts)] == IF i = 0 THEN <<>> ELSE all[i - 1] \o texts[i]
    IN  all[Len(texts)]

----------------------------------------------------------------------------
\* readable_text: runs of lines that carry nothing but links are a menu.
InMenu(lines, i) ==
    \E a \in 1 .. i, b \in i .. Len(lines) :
       b - a + 1 >= NavigationRun /\ \A k \in a .. b : lines[k].link
ReadableText(lines) ==
    Concatenated([i \in 1 .. Len(lines) |-> IF InMenu(lines, i) THEN <<>> ELSE lines[i].words])

\* classify_source: the first rule that fits the address.
SourceTypes == <<"government", "official_platform", "social_post", "marketplace",
                 "industry_report", "news_or_editorial", "blog_or_guide">>
ClassifySource(marks) ==
    LET fits == {i \in 1 .. Len(SourceTypes) : SourceTypes[i] \in marks}
    IN  IF fits = {} THEN "business_or_organization" ELSE SourceTypes[Min(fits)]

AuthorityScore(type) ==
    CASE type \in {"government", "official_platform"} -> 95
      [] type = "industry_report" -> 82
      [] type = "business_or_organization" -> 75
      [] type = "news_or_editorial" -> 72
      [] type = "social_post" -> 68
      [] type = "marketplace" -> 62
      [] type = "blog_or_guide" -> 45

LocalityScore(text, place) ==
    LET matched == place \cap WordsOf(text)
    IN  IF place = {} THEN 50 ELSE IF matched = place THEN 100 ELSE IF matched # {} THEN 75 ELSE 20

FreshnessScore(years) ==
    IF years <= 1 THEN 100 ELSE IF years <= 3 THEN 70 ELSE IF years <= 5 THEN 45 ELSE 20

\* Mutant: an unknown date leaves the sum as it is, over the wrong base.
CompositeUnscaled(relevance, authority, locality, published) ==
    (100 * (relevance * 35 + authority * 30 + locality * 20)) \div 15

\* composite_quality: the weight of an unknown date goes to the other signals.
CompositeQuality(relevance, authority, locality, published) ==
    LET weighted == relevance * 35 + authority * 30 + locality * 20
    IN  IF published = None THEN (200 * weighted + 85) \div 170
        ELSE weighted + FreshnessScore(published[1]) * 15

ConfidenceForQuality(quality) ==
    IF quality >= 8000 THEN "high" ELSE IF quality >= 5000 THEN "medium" ELSE "low"

\* source_from_result: a weak, empty or unusable result is skipped.
MinRelevance == 30
Usable(result) ==
    /\ result.score # None /\ result.score[1] \in MinRelevance .. 100
    /\ result.title # <<>> /\ ReadableText(result.body) # <<>> /\ result.absolute
SourceFromResult(result, dimension, brief) ==
    LET excerpt == Cut(ReadableText(result.body), ExcerptLimit)
        quality == CompositeQuality(result.score[1], AuthorityScore(ClassifySource(result.marks)),
                                    LocalityScore(result.title \o excerpt, brief.place), result.published)
    IN  [url |-> result.url, title |-> result.title, excerpt |-> excerpt, quality |-> quality,
         dimensions |-> {dimension}]

\* merge_source
MergeSource(old, new) ==
    [old EXCEPT !.dimensions = @ \cup new.dimensions,
                !.excerpt = IF ContainsText(@, new.excerpt) THEN @ ELSE Cut(@ \o new.excerpt, ExcerptLimit),
                !.quality = IF new.quality > @ THEN new.quality ELSE @]

AddSource(sources, new) ==
    LET same == {i \in 1 .. Len(sources) : sources[i].url = new.url}
    IN  IF same = {} THEN Append(sources, new)
        ELSE [sources EXCEPT ![CHOOSE i \in same : TRUE] = MergeSource(@, new)]

\* A source for every usable result and every dimension its search answers.
FoundSources(answers, brief) ==
    Concatenated([a \in 1 .. Len(answers) |->
        Concatenated([r \in 1 .. Len(answers[a].results) |->
            IF ~ Usable(answers[a].results[r]) THEN <<>>
            ELSE [d \in 1 .. Len(answers[a].dimensions) |->
                   SourceFromResult(answers[a].results[r], answers[a].dimensions[d], brief)]])])

\* sources_by_url of the structured tools; a plain tool keeps the first of each address.
MergedSources(found) ==
    LET all[i \in 0 .. Len(found)] == IF i = 0 THEN <<>> ELSE AddSource(all[i - 1], found[i])
    IN  all[Len(found)]
FirstSources(found) ==
    LET all[i \in 0 .. Len(found)] ==
          IF i = 0 THEN <<>>
          ELSE IF \E k \in 1 .. Len(all[i - 1]) : all[i - 1][k].url = found[i].url THEN all[i - 1]
          ELSE Append(all[i - 1], found[i])
    IN  all[Len(found)]

\* A stable sort, highest first: the indices in the order of their scores.
Ranked(scores) ==
    LET order[n \in 0 .. Len(scores)] ==
          IF n = 0 THEN <<>>
          ELSE LET last == order[n - 1]
                   ahead == Cardinality({k \in 1 .. n - 1 : scores[last[k]] >= scores[n]})
               IN  [k \in 1 .. n |-> IF k <= ahead THEN last[k] ELSE IF k = ahead + 1 THEN n ELSE last[k - 1]]
    IN  order[Len(scores)]

\* sorted(key=quality_score, reverse=True)[:20]
BestFirst(sources) ==
    LET order == Ranked([i \in 1 .. Len(sources) |-> sources[i].quality])
    IN  [k \in 1 .. (IF Len(sources) < MaxSources THEN Len(sources) ELSE MaxSources) |-> sources[order[k]]]

----------------------------------------------------------------------------
\* relevant_window
Windows(text) ==
    LET cut[i \in 0 .. Len(text)] ==
          IF i = 0 THEN [done |-> <<>>, current |-> <<>>]
          ELSE LET last == cut[i - 1] IN
               IF last.current # <<>> /\ Chars(last.current) + Lexicon[text[i]].chars + 2 > WindowChars
               THEN [done |-> Append(last.done, last.current), current |-> <<text[i]>>]
               ELSE [last EXCEPT !.current = Append(@, text[i])]
    IN  Append(cut[Len(text)].done, cut[Len(text)].current)

\* _window_score in hundredths: a wall of proper nouns is a directory.
WindowScore(window, brief) ==
    LET score == 20 * Cardinality(brief.place \cap WordsOf(window))
                 + 10 * Cardinality(brief.subject \cap WordsOf(window))
                 + 20 * Count(window, "money") + Count(window, "digits")
    IN  IF 2 * Count(window, "proper") > Len(window) THEN 3 * score ELSE 10 * score

Seam == "..."
JoinCost == 5

\* The best windows that fit, and what is left of the limit.
Picked(windows, ranked) ==
    LET pick[k \in 0 .. Len(ranked)] ==
          IF k = 0 THEN [chosen |-> {}, budget |-> AnalysisExcerptLimit]
          ELSE LET last == pick[k - 1]
                   cost == Chars(windows[ranked[k]]) + (IF last.chosen = {} THEN 0 ELSE JoinCost)
               IN  IF cost > last.budget THEN last
                   ELSE [chosen |-> last.chosen \cup {ranked[k]}, budget |-> last.budget - cost]
    IN  pick[Len(ranked)]

\* The first window that did not fit gives as much as the rest of the limit holds.
WithTail(windows, ranked, whole, remaining) ==
    LET left == {k \in 1 .. Len(ranked) : ranked[k] \notin whole}
    IN  [i \in whole \cup (IF remaining < WindowTailMin \/ left = {} THEN {} ELSE {ranked[Min(left)]}) |->
            IF i \in whole THEN windows[i] ELSE Head_(windows[i], remaining)]

\* Mutant: the spans read as continuous prose.
JoinedSeamless(text, span) == text \o span

\* WINDOW_JOIN between the spans, in the order of the page.
Joined(text, span) == IF text = <<>> THEN span ELSE IF span = <<>> THEN text ELSE text \o <<Seam>> \o span
JoinSpans(spans, count) ==
    LET all[i \in 0 .. count] ==
          IF i = 0 THEN <<>> ELSE IF i \in DOMAIN spans THEN Joined(all[i - 1], spans[i]) ELSE all[i - 1]
    IN  all[count]
TailOf(windows, ranked, picked) ==
    WithTail(windows, ranked, picked.chosen, picked.budget - (IF picked.chosen = {} THEN 0 ELSE JoinCost))
SelectSpans(windows, ranked) == JoinSpans(TailOf(windows, ranked, Picked(windows, ranked)), Len(windows))
BestSpans(windows, brief) ==
    SelectSpans(windows, Ranked([i \in 1 .. Len(windows) |-> WindowScore(windows[i], brief)]))

RelevantWindow(text, brief) ==
    IF Chars(text) <= AnalysisExcerptLimit THEN text ELSE BestSpans(Windows(text), brief)

\* The sources an analysis is shown, S1 the best.
ShownSources(sources) ==
    SubSeq(sources, 1, IF Len(sources) < AnalysisMaxSources THEN Len(sources) ELSE AnalysisMaxSources)

----------------------------------------------------------------------------
\* comparable_text(quote) in source_evidence_text(source)
Holds(source, quote) == ContainsText(source.title \o source.excerpt, quote)

\* Mutant: the label the model wrote is believed.
LabelledSource(item, shown) == IF item.id \in 1 .. Len(shown) THEN shown[item.id] ELSE None

\* _evidence_source: a long span in exactly one source is attributed to that one.
EvidenceSource(item, shown) ==
    LET matches == {i \in 1 .. Len(shown) : Holds(shown[i], item.quote)}
    IN  IF item.id \in matches THEN shown[item.id]
        ELSE IF Chars(item.quote) >= ReattributionMin /\ Cardinality(matches) = 1
             THEN shown[CHOOSE i \in matches : TRUE] ELSE None

TrimmedQuote(quote) == Head_(quote, QuoteLimit)

\* _source_confidence of the sources an observation quotes
SourceConfidence(cited) ==
    LET levels == {ConfidenceForQuality(s.quality) : s \in cited}
    IN  IF levels = {"high"} THEN "high" ELSE IF levels = {"low"} THEN "low" ELSE "medium"

\* Mutant: the wording alone corroborates.
CorroboratedByWording(draft, cited) == draft.worded

\* Every page quoted was fetched for this dimension, and the observation speaks of it.
Corroborated(draft, cited) ==
    draft.worded /\ \A s \in cited : draft.dimension \in s.dimensions

\* _ground_insight, given where each item of evidence was found: items that cannot be
\* found are dropped, with nothing left the observation is.
InsightFrom(draft, at, found, cited) ==
    IF found = {} THEN None
    ELSE [dimension |-> draft.dimension,
          confidence |-> IF ~ Corroborated(draft, cited) /\ SourceConfidence(cited) = "high"
                         THEN "medium" ELSE SourceConfidence(cited),
          evidence |-> {[url |-> at[k].url, quote |-> TrimmedQuote(draft.evidence[k].quote)] : k \in found},
          fits |-> draft.fits]
Located(draft, shown) == [k \in 1 .. Len(draft.evidence) |-> EvidenceSource(draft.evidence[k], shown)]
GroundedAt(draft, at) ==
    InsightFrom(draft, at, {k \in DOMAIN at : at[k] # None}, {at[k] : k \in DOMAIN at} \ {None})
GroundInsight(draft, shown) == GroundedAt(draft, Located(draft, shown))

\* The schema of an answer refuses all of it for one quote that is too short, wherever
\* the quote may come from.
Unreadable(drafts) ==
    \E i \in DOMAIN drafts : \E k \in DOMAIN drafts[i].evidence : Chars(drafts[i].evidence[k].quote) < QuoteMin

\* The schemas of a report refuse all of it for one observation that is blank, or tells
\* to copy a competitor, or whose quote was trimmed to less than a quote.
Malformed(category, draft, insight) ==
    \/ draft.blank
    \/ draft.copying /\ category = "competitor"
    \/ \E e \in insight.evidence : Chars(e.quote) < QuoteMin

\* _ground_analysis with the validation of the answer before it and of the report after
\* it: None is ProviderResponseError.
AnalysisFrom(category, drafts, insights) ==
    IF Unreadable(drafts) \/ (\A i \in DOMAIN insights : insights[i] = None)
       \/ \E i \in DOMAIN insights : insights[i] # None /\ Malformed(category, drafts[i], insights[i])
    THEN None ELSE {insights[i] : i \in DOMAIN insights} \ {None}
GroundAnalysis(category, drafts, shown) ==
    AnalysisFrom(category, drafts, [i \in 1 .. Len(drafts) |-> GroundInsight(drafts[i], shown)])

\* _limitations: the dimensions that lost evidence, and those held below "high".
LimitationsAt(drafts, at) ==
    [unverified |-> {drafts[i].dimension : i \in {n \in DOMAIN at :
                        at[n] = <<>> \/ \E k \in DOMAIN at[n] : at[n][k] = None}},
     uncorroborated |-> {drafts[i].dimension : i \in {n \in DOMAIN at :
                        \E k \in DOMAIN at[n] : at[n][k] # None
                           /\ ~ Corroborated(drafts[n], {at[n][m] : m \in DOMAIN at[n]} \ {None})}}]
Limitations(drafts, shown) == LimitationsAt(drafts, [i \in 1 .. Len(drafts) |-> Located(drafts[i], shown)])

\* EvidenceCoverage.status
CoverageStatus(insights, required) ==
    LET covered == Cardinality({i.dimension : i \in insights})
    IN  IF covered = required THEN "complete"
        ELSE IF 2 * covered >= required THEN "partial" ELSE "insufficient"

\* _report_confidence
ReportConfidence(sources) ==
    LET graded(level) == {i \in 1 .. Len(sources) : ConfidenceForQuality(sources[i].quality) = level}
    IN  IF Cardinality(graded("high")) >= 2 THEN "high"
        ELSE IF graded("high") \cup graded("medium") # {} THEN "medium" ELSE "low"
=============================================================================
