------------------------------- MODULE Research -------------------------------
(***************************************************************************)
(* ExternalResearchService: stages of several generations that share a cache.   *)
(* A stage runs one task per category; a task looks its report up, or searches  *)
(* behind the stage's gate, has the sources analysed and stores what it found.  *)
(* The model of the gate lets any waiting search in; asyncio's is first come    *)
(* first served.  The cache is the Redis one: an entry lives for the TTL from   *)
(* when it was written.                                                        *)
(***************************************************************************)
EXTENDS ResearchEvidence

CONSTANTS
    Run,            \* stages, one per generation
    Scenarios,      \* [briefs: Run -> brief, categories, responses, errors, drafts]
    MaxConcurrency, SearchTimeout, ToolTimeout, StageTimeout, CacheTtl,
    LastStart       \* no stage begins later

ASSUME ResearchConstants ==
    /\ {MaxConcurrency, SearchTimeout, ToolTimeout, CacheTtl} \subseteq Nat \ {0}
    /\ StageTimeout \in Nat /\ StageTimeout >= ToolTimeout /\ LastStart \in Nat
    /\ \A s \in Scenarios : IsFiniteSet(s.categories) /\ None \notin s.errors
    /\ None \notin {"refused", "result", "quota", "outage", "TimeoutError", "ValueError",
                    "ProviderError", "ProviderQuotaError", "ProviderResponseError"}

\* What pages and models say is words; limits are numbers, and an analysis is shown a source.
ASSUME ResearchInputs ==
    /\ {ExcerptLimit, QuoteLimit, MaxSources} \subseteq Nat /\ AnalysisMaxSources \in Nat \ {0}
    /\ Seam \in DOMAIN Lexicon
    /\ \A s \in Scenarios :
          /\ s.invented \in Seq(DOMAIN Lexicon)
          /\ \A p \in s.responses :
                /\ Len(p.results) \in Nat
                /\ \A i \in 1 .. Len(p.results) :
                      /\ p.results[i].title \in Seq(DOMAIN Lexicon) /\ Len(p.results[i].body) \in Nat
                      /\ \A k \in 1 .. Len(p.results[i].body) : p.results[i].body[k].words \in Seq(DOMAIN Lexicon)

VARIABLES
    scenario, \* the briefs of the stages and what providers and models may answer
    now,
    stage,    \* [Run -> [phase, at, outcome]]
    task,     \* [Run -> [category -> task]]
    cache     \* key |-> [report, until]

vars == <<scenario, now, stage, task, cache>>

Structured == {"market", "competitor", "social", "visual_reference", "trend", "platform"}
Brief(r) == scenario.briefs[r]
Tasks == {<<r, c>> : r \in Run, c \in scenario.categories}

----------------------------------------------------------------------------
\* build_query: what a category is cached under, next to the place.
CanonicalQuery(c, b) ==
    CASE c \in {"market", "competitor", "trend"} -> <<c, b.entity, b.market>>
      [] c = "audience" -> <<c, b.entity, b.market, b.audience>>
      [] c = "social" -> <<c, b.platform, b.audience, b.entity>>
      [] c = "visual_reference" -> <<c, b.entity, b.market, b.platform>>
      [] c = "platform" -> <<c, b.platform>>
      [] c = "brand_product" -> <<c, b.entity, b.facts>>

\* build_dimension_queries: <<dimension, query>> in order.
MarketDimensions == <<"category", "market_expectations", "offers", "customer_expectations",
                      "positioning_patterns", "opportunities">>
CompetitorDimensions == <<"messaging", "offers", "cta", "visual_language", "differentiation",
                          "overused_patterns">>
SocialDimensions == <<"platform_creative_patterns", "text_density", "cta", "logo_placement",
                      "photography", "graphic_systems", "compositions">>
VisualGroups == <<<<"layout", <<"composition", "subject_scale", "negative_space", "headline_region">>>>,
                  <<"overlay", <<"text_density", "typography", "cta", "logo">>>>,
                  <<"imagery", <<"photography", "lighting", "colors", "texture">>>>,
                  <<"elements", <<"graphic_elements", "energy">>>>>>

Each(c, dims, b) == [i \in 1 .. Len(dims) |-> [query |-> <<c, dims[i]>> \o b, dimensions |-> <<dims[i]>>]]

\* The searches of a task, each with the dimensions that declared its query.
Searches(c, b) ==
    CASE c = "market" -> Each(c, MarketDimensions, <<b.entity, b.market>>)
      [] c = "competitor" -> Each(c, CompetitorDimensions, <<b.entity, b.market>>)
      [] c = "social" -> Each(c, SocialDimensions, <<b.platform, b.entity, b.market>>)
      [] c = "visual_reference" ->
            [i \in 1 .. Len(VisualGroups) |->
               [query |-> <<c, VisualGroups[i][1], b.entity, b.platform, b.market>>, dimensions |-> VisualGroups[i][2]]]
      [] c = "trend" -> Each(c, <<"current">>, <<b.entity>>) \o Each(c, <<"emerging", "overused">>, <<b.platform>>)
                        \o Each(c, <<"declining">>, <<b.entity>>)
      [] c = "platform" -> Each(c, <<"formats", "constraints">>, <<b.platform>>)
      [] OTHER -> <<[query |-> CanonicalQuery(c, b), dimensions |-> <<c>>]>>

DimensionsOf(c, b) == UNION {WordsOf(Searches(c, b)[i].dimensions) : i \in 1 .. Len(Searches(c, b))}

\* research_cache_key with locality_cache_key
Key(c, b) == <<CanonicalQuery(c, b), b.market, b.location>>

----------------------------------------------------------------------------
NoTask == [phase |-> "absent", deadline |-> 0, searches |-> <<>>, report |-> None, drafts |-> None]

\* _failed_report
FailedReport(c, r, error) ==
    [category |-> c, key |-> Key(c, Brief(r)), status |-> "failed", error |-> error, sources |-> <<>>,
     images |-> {}, confidence |-> "low", analysis |-> None, coverage |-> None, limitations |-> None,
     degraded |-> {}, expires |-> stage[r].at + CacheTtl, cached |-> FALSE]

Init ==
    /\ scenario \in Scenarios
    /\ now = 0 /\ cache = [k \in {} |-> None]
    /\ stage = [r \in Run |-> [phase |-> "new", at |-> 0, outcome |-> None]]
    /\ task = [r \in Run |-> [c \in scenario.categories |-> NoTask]]

Phase(p) == task[p[1]][p[2]].phase
SetTask(p, t) == task' = [task EXCEPT ![p[1]][p[2]] = t]
SetCache(report) ==
    cache' = [k \in DOMAIN cache \cup {report.key} |->
                IF k = report.key THEN [report |-> report, until |-> now + CacheTtl] ELSE cache[k]]

\* Mutant: tools share what the stage allows one after another.
DeadlineAfterStage(r) == now + ToolTimeout + StageTimeout

\* min(tool timeout, what remains of the stage): every task begins at once.
Deadline(r) == now + (IF ToolTimeout < StageTimeout THEN ToolTimeout ELSE StageTimeout)

\* run: input that disagrees with its contract is refused before anything starts.
StartStage(r) ==
    /\ stage[r].phase = "new" /\ now <= LastStart
    /\ IF Brief(r).agrees
       THEN /\ stage' = [stage EXCEPT ![r] = [@ EXCEPT !.phase = "running", !.at = now]]
            /\ task' = [task EXCEPT ![r] = [c \in scenario.categories |->
                          [NoTask EXCEPT !.phase = "looking", !.deadline = Deadline(r)]]]
       ELSE stage' = [stage EXCEPT ![r] = [@ EXCEPT !.phase = "ended", !.outcome = "refused"]] /\ UNCHANGED task
    /\ UNCHANGED <<scenario, now, cache>>

\* Mutant: what the cache still holds is good.
FreshEnough(c, r, report) == report.category = c /\ report.key = Key(c, Brief(r))

\* What the service demands of a cached report.
Servable(c, r, report) ==
    report.category = c /\ report.key = Key(c, Brief(r)) /\ report.expires > stage[r].at

\* The cache answers, or cannot be read, and then the task searches.
LookUp(p) ==
    LET r == p[1]  c == p[2]  k == Key(c, Brief(r)) IN
    /\ Phase(p) = "looking"
    /\ \/ /\ k \in DOMAIN cache /\ Servable(c, r, cache[k].report)
          /\ SetTask(p, [task[r][c] EXCEPT !.phase = "done", !.report = [cache[k].report EXCEPT !.cached = TRUE]])
       \/ SetTask(p, [task[r][c] EXCEPT !.phase = "searching",
                        !.searches = [i \in 1 .. Len(Searches(c, Brief(r))) |->
                                        [state |-> "waiting", since |-> 0, results |-> <<>>, images |-> {}, error |-> None]]])
    /\ UNCHANGED <<scenario, now, stage, cache>>

----------------------------------------------------------------------------
\* _search: the gate, then the provider within its own timeout.
InFlight(r) == {q \in scenario.categories \X (1 .. 7) :
                  LET searches == task[r][q[1]].searches IN
                  q[2] \in 1 .. Len(searches) /\ searches[q[2]].state = "flying"}
SetSearch(p, i, s) == task' = [task EXCEPT ![p[1]][p[2]].searches[i] = s]
SearchIn(p, i, state) == Phase(p) = "searching" /\ task[p[1]][p[2]].searches[i].state = state
SearchesOf(p) == 1 .. Len(task[p[1]][p[2]].searches)

EnterGate(p, i) ==
    /\ SearchIn(p, i, "waiting") /\ Cardinality(InFlight(p[1])) < MaxConcurrency
    /\ SetSearch(p, i, [state |-> "flying", since |-> now, results |-> <<>>, images |-> {}, error |-> None])
    /\ UNCHANGED <<scenario, now, stage, cache>>

Fail(i, p, error) == SetSearch(p, i, [state |-> "failed", since |-> 0, results |-> <<>>, images |-> {}, error |-> error])

SearchAnswers(p, i) ==
    /\ SearchIn(p, i, "flying")
    /\ \E response \in scenario.responses :
          SetSearch(p, i, [state |-> "answered", since |-> 0, results |-> response.results,
                           images |-> response.images, error |-> None])
    /\ UNCHANGED <<scenario, now, stage, cache>>
SearchFails(p, i) ==
    /\ SearchIn(p, i, "flying") /\ \E error \in scenario.errors : Fail(i, p, error)
    /\ UNCHANGED <<scenario, now, stage, cache>>
SearchTimesOut(p, i) ==
    /\ SearchIn(p, i, "flying") /\ now = task[p[1]][p[2]].searches[i].since + SearchTimeout
    /\ Fail(i, p, "TimeoutError")
    /\ UNCHANGED <<scenario, now, stage, cache>>

\* Mutant: only a task that lost all of its searches says so.
DegradedWhenLost(searches, t) == {}

\* The dimensions whose own search failed.
Degraded(searches, t) ==
    UNION {WordsOf(searches[i].dimensions) : i \in {j \in 1 .. Len(searches) : t.searches[j].state = "failed"}}

\* The report on what the searches of a task brought.
FoundReport(r, c, sources, images) ==
    [FailedReport(c, r, None) EXCEPT
        !.status = IF sources = <<>> /\ images = {} THEN "no_results" ELSE "succeeded",
        !.sources = sources, !.images = images, !.confidence = ReportConfidence(sources),
        !.degraded = Degraded(Searches(c, Brief(r)), task[r][c])]

\* research, of either kind of tool, once every search has come back
Collected(p) ==
    LET r == p[1]  c == p[2]  t == task[r][c]  asked == Searches(c, Brief(r))
        back == {i \in 1 .. Len(asked) : t.searches[i].state = "answered"}
        found == FoundSources([i \in 1 .. Len(asked) |->
                     [dimensions |-> asked[i].dimensions,
                      results |-> IF i \in back THEN t.searches[i].results ELSE <<>>]], Brief(r))
        images == UNION {t.searches[i].images : i \in back}
    IN  FoundReport(r, c, IF c \in Structured THEN BestFirst(MergedSources(found)) ELSE FirstSources(found),
                    IF c = "visual_reference" THEN images ELSE {})

\* A spent allowance first, then what the provider said first, else a defect.
ErrorOf(t) ==
    LET errors == {t.searches[i].error : i \in 1 .. Len(t.searches)}
        signals == {i \in 1 .. Len(t.searches) : t.searches[i].error # "ValueError"}
    IN  IF "ProviderQuotaError" \in errors THEN "ProviderQuotaError"
        ELSE IF signals = {} THEN (IF Len(t.searches) = 1 THEN "ValueError" ELSE "ProviderError")
        ELSE t.searches[Min(signals)].error

Spent(t) == [t EXCEPT !.searches = [i \in DOMAIN t.searches |-> [t.searches[i] EXCEPT !.results = <<>>, !.images = {}]]]

\* The task's result: evidence is stored before it is handed over.
Reported(t, report) ==
    [t EXCEPT !.report = report, !.phase = IF report.status = "succeeded" THEN "storing" ELSE "done"]

Settled(t) == \A i \in 1 .. Len(t.searches) : t.searches[i].state \in {"answered", "failed"}

Collect(p) ==
    LET t == task[p[1]][p[2]] IN
    /\ Phase(p) = "searching" /\ Settled(t)
    /\ IF \A i \in 1 .. Len(t.searches) : t.searches[i].state = "failed"
       THEN SetTask(p, [t EXCEPT !.phase = "done", !.report = FailedReport(p[2], p[1], ErrorOf(t))])
       ELSE \E report \in {Collected(p)} :
              SetTask(p, IF p[2] \in Structured /\ report.sources # <<>>
                         THEN [Spent(t) EXCEPT !.phase = "analysing", !.report = report]
                         ELSE Reported(Spent(t), report))
    /\ UNCHANGED <<scenario, now, stage, cache>>

----------------------------------------------------------------------------
\* What a model may answer: an observation about one dimension with a quote from the
\* passages it was shown, under whichever label; invented evidence beside it; no
\* evidence; a blank observation.
Observation(dimension, worded, evidence) ==
    [dimension |-> dimension, worded |-> worded, evidence |-> evidence, fits |-> TRUE, blank |-> FALSE,
     copying |-> FALSE]
Item(id, quote) == [id |-> id, quote |-> quote]
Spans(text) == {SubSeq(text, i, j) : i \in 1 .. Len(text), j \in 1 .. Len(text)} \ {<<>>}

FewDrafts(dimension, shown) ==
    {<<Observation(dimension, TRUE, <<Item(1, Cut(shown[1].excerpt, QuoteLimit))>>)>>, <<Observation(dimension, TRUE, <<>>)>>}
AllDrafts(dimensions, dimension, quotes) ==
    {<<Observation(d, TRUE, <<Item(id, q)>>)>> : d \in dimensions, id \in {1, 2}, q \in quotes}
    \cup {<<Observation(dimension, w, <<Item(1, q), Item(1, scenario.invented)>>)>> : w \in BOOLEAN, q \in quotes}
    \cup {<<[Observation(dimension, TRUE, <<Item(1, q)>>) EXCEPT !.blank = TRUE]>> : q \in quotes}
Drafts(c, b, shown) ==
    IF scenario.drafts = "few" THEN FewDrafts(Searches(c, b)[1].dimensions[1], shown)
    ELSE AllDrafts(DimensionsOf(c, b), Searches(c, b)[1].dimensions[1],
                   {scenario.invented} \cup UNION {Spans(RelevantWindow(shown[i].excerpt, b)) : i \in 1 .. Len(shown)})

AnalysedTask(p, t, drafts, insights) ==
    [(IF insights = None
      THEN [t EXCEPT !.phase = "done", !.report = FailedReport(p[2], p[1], "ProviderResponseError")]
      ELSE Reported(t, [t.report EXCEPT !.analysis = insights,
                           !.coverage = CoverageStatus(insights, Cardinality(DimensionsOf(p[2], Brief(p[1])))),
                           !.limitations = Limitations(drafts, ShownSources(t.report.sources))]))
     EXCEPT !.drafts = [given |-> drafts, shown |-> ShownSources(t.report.sources)]]

\* analyze: the model answers with observations, or not at all.
Analyse(p) ==
    LET t == task[p[1]][p[2]] IN
    /\ Phase(p) = "analysing"
    /\ \/ \E drafts \in Drafts(p[2], Brief(p[1]), ShownSources(t.report.sources)) :
             SetTask(p, AnalysedTask(p, t, drafts, GroundAnalysis(p[2], drafts, ShownSources(t.report.sources))))
       \/ \E error \in scenario.errors :
             SetTask(p, [t EXCEPT !.phase = "done", !.report = FailedReport(p[2], p[1], error)])
    /\ UNCHANGED <<scenario, now, stage, cache>>

\* Mutant: whatever came of it is stored.
StoreAnything(p) ==
    /\ Phase(p) \in {"storing", "done"} /\ ~ task[p[1]][p[2]].report.cached
    /\ SetTask(p, [task[p[1]][p[2]] EXCEPT !.phase = "done"])
    /\ SetCache(task[p[1]][p[2]].report)
    /\ UNCHANGED <<scenario, now, stage>>

\* _cache_set: an error of the cache is swallowed.
Store(p) ==
    /\ Phase(p) = "storing"
    /\ SetTask(p, [task[p[1]][p[2]] EXCEPT !.phase = "done"])
    /\ \/ UNCHANGED cache
       \/ SetCache(task[p[1]][p[2]].report)
    /\ UNCHANGED <<scenario, now, stage>>

\* Mutant: searches of a task that is given up stay in flight.
CancelNothing(t) == t.searches

\* Leaving the timeout cancels what the task awaits, and frees the gate.
CancelSearches(t) ==
    [i \in 1 .. Len(t.searches) |->
       IF t.searches[i].state \in {"waiting", "flying"} THEN [t.searches[i] EXCEPT !.state = "cancelled", !.since = 0]
       ELSE t.searches[i]]

\* Mutant: the bound covers the searches.
SearchingTimesOut(p) ==
    LET t == task[p[1]][p[2]] IN
    /\ Phase(p) = "searching" /\ now = t.deadline
    /\ SetTask(p, [t EXCEPT !.phase = "done", !.report = FailedReport(p[2], p[1], "TimeoutError"),
                            !.searches = CancelSearches(t)])
    /\ UNCHANGED <<scenario, now, stage, cache>>

\* guarded: what is not there by the deadline failed, also a report being stored; the
\* cache may have taken it or not.
TaskTimesOut(p) ==
    LET t == task[p[1]][p[2]] IN
    /\ Phase(p) \in {"looking", "searching", "analysing", "storing"} /\ now = t.deadline
    /\ SetTask(p, [t EXCEPT !.phase = "done", !.report = FailedReport(p[2], p[1], "TimeoutError"),
                            !.searches = CancelSearches(t)])
    /\ \/ UNCHANGED cache
       \/ Phase(p) = "storing" /\ SetCache(t.report)
    /\ UNCHANGED <<scenario, now, stage>>

\* Mutant: one category that broke is an outage.
OutcomeOfAny(r) ==
    IF \E c \in scenario.categories : task[r][c].report.status = "failed" THEN "outage" ELSE "result"

\* Total failure is raised; a spent allowance as itself.
OutcomeOf(r) ==
    IF \E c \in scenario.categories : task[r][c].report.status # "failed" THEN "result"
    ELSE IF \E c \in scenario.categories : task[r][c].report.error = "ProviderQuotaError" THEN "quota"
    ELSE "outage"

EndStage(r) ==
    /\ stage[r].phase = "running" /\ \A c \in scenario.categories : task[r][c].phase = "done"
    /\ stage' = [stage EXCEPT ![r] = [@ EXCEPT !.phase = "ended", !.outcome = OutcomeOf(r)]]
    /\ UNCHANGED <<scenario, now, task, cache>>

\* Deadlines, and what the event loop does at once.
Loop ==
    \/ \E r \in Run : EndStage(r)
    \/ \E p \in Tasks : TaskTimesOut(p) \/ \E i \in SearchesOf(p) : SearchTimesOut(p, i) \/ EnterGate(p, i)

Waits(p) ==
    LET t == task[p[1]][p[2]] IN
    /\ now < t.deadline
    /\ \A i \in SearchesOf(p) :
          t.searches[i].state = "flying" => now < t.searches[i].since + SearchTimeout

\* Time passes while tasks wait, or before the last stage begins; entries expire.
Tick ==
    /\ now < LastStart \/ \E r \in Run : stage[r].phase = "running"
    /\ \A r \in Run : stage[r].phase = "running" => \E c \in scenario.categories : Phase(<<r, c>>) # "done"
    /\ \A p \in Tasks : Phase(p) \notin {"absent", "done"} => Waits(p)
    /\ now' = now + 1
    /\ cache' = [k \in {x \in DOMAIN cache : now + 1 < cache[x].until} |-> cache[k]]
    /\ UNCHANGED <<scenario, stage, task>>

Next ==
    \/ \E r \in Run : StartStage(r)
    \/ \E p \in Tasks :
          \/ LookUp(p) \/ Collect(p) \/ Analyse(p) \/ Store(p)
          \/ \E i \in SearchesOf(p) : SearchAnswers(p, i) \/ SearchFails(p, i)
    \/ Loop
    \/ Tick

\* Deadlines are kept; neither the cache, the providers nor the model need answer.
Spec == Init /\ [][Next]_vars /\ WF_vars(Loop) /\ WF_vars(Tick)
----------------------------------------------------------------------------
Reports == {task[p[1]][p[2]].report : p \in {q \in Tasks : Phase(q) = "done"}}
Statuses == {"succeeded", "no_results", "failed"}

TypeOK ==
    /\ now \in 0 .. LastStart + ToolTimeout
    /\ \A r \in Run : /\ stage[r].phase \in {"new", "running", "ended"}
                      /\ stage[r].outcome \in {None, "refused", "result", "quota", "outage"}
    /\ \A report \in Reports : report.status \in Statuses

\* A report served from the cache is evidence about the stage's own category, query and
\* place that had not expired when the stage began, though Redis counts the time to live
\* from when the report was written and not from when it was researched.
ServedIsCurrent ==
    \A p \in Tasks :
       LET report == task[p[1]][p[2]].report  b == Brief(p[1]) IN
       Phase(p) = "done" /\ report.cached =>
          /\ report.status = "succeeded" /\ report.category = p[2]
          /\ report.expires > stage[p[1]].at
          /\ report.key = <<CanonicalQuery(p[2], b), b.market, b.location>>

\* A failed or empty report is never kept, whatever timed out around the writing of it:
\* a momentary problem does not become an hour of empty research.
CacheHoldsEvidence ==
    \A k \in DOMAIN cache :
       LET report == cache[k].report IN
       report.status = "succeeded" /\ (report.sources # <<>> \/ report.images # {}) /\ report.key = k

\* A stage never has more searches in flight than its gate lets in, and a category that
\* is over has none: what timed out no longer holds a slot.
GateHolds ==
    /\ \A r \in Run : Cardinality(InFlight(r)) <= MaxConcurrency
    /\ \A p \in Tasks : Phase(p) = "done" =>
          \A i \in SearchesOf(p) : task[p[1]][p[2]].searches[i].state \notin {"waiting", "flying"}

\* A stage hands over a result exactly when some category was researched; a failed
\* category carries no evidence and says why; a spent allowance is only reported when a
\* provider reported it and no category has anything.
OutcomeIsHonest ==
    /\ \A report \in Reports : report.status = "failed" =>
          report.error # None /\ report.sources = <<>> /\ report.analysis = None
    /\ \A r \in Run :
          LET broke == {c \in scenario.categories : Phase(<<r, c>>) = "done" /\ task[r][c].report.status = "failed"}
          IN  /\ stage[r].outcome = "result" => broke # scenario.categories
              /\ stage[r].outcome \in {"quota", "outage"} => broke = scenario.categories
              /\ stage[r].outcome = "quota" =>
                    "ProviderQuotaError" \in scenario.errors /\ \E c \in broke : task[r][c].report.error = "ProviderQuotaError"

\* The dimensions whose search failed are named on the report, also when the task went
\* on without them, and evidence that was dropped is disclosed.
LossesAreDeclared ==
    \A p \in Tasks :
       LET t == task[p[1]][p[2]]  asked == Searches(p[2], Brief(p[1])) IN
       Phase(p) = "done" /\ t.report.status # "failed" /\ ~ t.report.cached =>
          /\ \A i \in 1 .. Len(asked) : t.searches[i].state = "failed" =>
                WordsOf(asked[i].dimensions) \subseteq t.report.degraded
          /\ t.drafts # None =>
                \A n \in 1 .. Len(t.drafts.given) :
                   LET d == t.drafts.given[n] IN
                   \/ d.dimension \in t.report.limitations.unverified
                   \/ \E i \in t.report.analysis :
                        i.dimension = d.dimension /\ \A k \in 1 .. Len(d.evidence) :
                           \E e \in i.evidence : e.quote = TrimmedQuote(d.evidence[k].quote)

\* The quality of a source is a share of ten thousand, with or without a known date.
QualityInRange ==
    \A report \in Reports : \A i \in 1 .. Len(report.sources) : report.sources[i].quality \in 0 .. 10000

\* Nothing reaches a report without a span that stands, word for word, in the source it
\* names, and that source is on the report.
QuotesAreVerbatim ==
    \A report \in Reports : report.analysis # None =>
        \A insight \in report.analysis : \A e \in insight.evidence :
           \E i \in 1 .. Len(report.sources) :
              report.sources[i].url = e.url /\ Holds(report.sources[i], e.quote)

\* An observation has high confidence only on pages of high quality that the search for
\* its own dimension found; so never on a dimension whose search failed.
HighIsEarned ==
    \A report \in Reports : report.analysis # None =>
        \A insight \in report.analysis : insight.confidence = "high" =>
           /\ insight.dimension \notin report.degraded
           /\ \A e \in insight.evidence : \A i \in 1 .. Len(report.sources) :
                 report.sources[i].url = e.url =>
                    insight.dimension \in report.sources[i].dimensions /\ report.sources[i].quality >= 8000

\* What a model copied from the passages it was shown, and not across a seam, is in the
\* source it was shown from, however that source was merged, cut and windowed.
HonestQuotesSurvive ==
    \A p \in Tasks :
       LET t == task[p[1]][p[2]] IN
       Phase(p) = "done" /\ t.drafts # None =>
          \A n \in 1 .. Len(t.drafts.given) : \A k \in 1 .. Len(t.drafts.given[n].evidence) :
             LET e == t.drafts.given[n].evidence[k]  shown == t.drafts.shown IN
             /\ e.id \in 1 .. Len(shown) /\ Seam \notin WordsOf(e.quote)
             /\ ContainsText(RelevantWindow(shown[e.id].excerpt, Brief(p[1])), e.quote)
             => EvidenceSource(e, shown) = shown[e.id]

\* No stage takes longer than one tool may, however many searches wait for the gate.
StageInTime == \A r \in Run : stage[r].phase = "running" => now <= stage[r].at + ToolTimeout

\* Every stage that begins ends, though no cache, provider or model ever answers.
StageEnds == \A r \in Run : stage[r].phase = "running" ~> stage[r].phase = "ended"

\* Two stages may share an answer only while it is current, and only evidence is shared.
CacheIsSound == ServedIsCurrent /\ CacheHoldsEvidence

\* However its searches hang, a stage keeps to its gate and to its time.
StageIsContained == TypeOK /\ GateHolds /\ StageInTime

\* What a stage and its reports say of what failed is true and complete.
StageIsHonest == OutcomeIsHonest /\ LossesAreDeclared

\* A report holds what its sources say: nothing fabricated gets in, nothing honestly
\* quoted is refused, and confidence rests on the sources.
EvidenceStands == QualityInRange /\ QuotesAreVerbatim /\ HighIsEarned /\ HonestQuotesSurvive
=============================================================================
