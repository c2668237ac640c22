---------------------------- MODULE ResearchProofs ----------------------------
(***************************************************************************)
(* Proofs that a research stage keeps to its gate and its time, that only      *)
(* current evidence is shared through the cache, that what a stage says of its  *)
(* failures is true and that its reports hold what their sources say: for any   *)
(* number of stages, categories and searches, any timeouts, any texts and       *)
(* anything the providers and the models may answer.                           *)
(*                                                                          *)
(* The argument: a task that is under way belongs to a running stage and has   *)
(* that stage's deadline (Timed), so time stops at the deadline until the task *)
(* is over; a task that is over, or past its searches, holds no slot of the    *)
(* gate (Swept); a report becomes evidence only with something found, and only *)
(* evidence is stored (Reporting); what a search lost is on the report before  *)
(* the searches are forgotten (Declared).                                     *)
(*                                                                          *)
(* A report holds what its sources say, for any texts: a second invariant      *)
(* (EvidenceInv) keeps every report, of a task or in the cache, on distinct     *)
(* sources of pages that searches found (Sourced) and its analysis in them      *)
(* (Verbatim, Earned).  It rests on facts about the texts: a cut, a window and  *)
(* a join hold nothing that the page does not (ShownIsOfText), and no two       *)
(* searches of a task answer the same dimension (SearchesApart).               *)
(***************************************************************************)
EXTENDS Research, FiniteSetTheorems, TLAPS

\* None is not an observation (nor is any model value).
NoneIsNoInsight ==
    \A d, k, e, f : None # [dimension |-> d, confidence |-> k, evidence |-> e, fits |-> f]

Busy(t) == t.phase \in {"looking", "searching", "analysing", "storing"}
Reporters == {"analysing", "storing", "done"}

SearchFields == {"state", "since", "results", "images", "error"}
TaskFields == {"phase", "deadline", "searches", "report", "drafts"}
ReportFields == {"category", "key", "status", "error", "sources", "images", "confidence", "analysis",
                 "coverage", "limitations", "degraded", "expires", "cached"}

\* What a search that failed says is an error of the provider's or its timeout.
IsSearch(s) ==
    /\ DOMAIN s = SearchFields
    /\ s.state \in {"waiting", "flying", "answered", "failed", "cancelled"}
    /\ s.state = "failed" => s.error \in scenario.errors \cup {"TimeoutError"}
IsTask(t) ==
    /\ DOMAIN t = TaskFields
    /\ t.phase \in {"absent", "looking", "searching", "analysing", "storing", "done"}
    /\ Len(t.searches) \in Nat /\ DOMAIN t.searches = 1 .. Len(t.searches)
    /\ \A i \in 1 .. Len(t.searches) : IsSearch(t.searches[i])

\* A task under way belongs to a running stage and is not past its deadline.
Timed(r, t) ==
    Busy(t) => /\ stage[r].phase = "running"
               /\ t.deadline = stage[r].at + ToolTimeout /\ now <= t.deadline

\* A task that has its searches behind it holds no slot of the gate.
Swept(t) ==
    /\ t.phase \in Reporters =>
          \A i \in 1 .. Len(t.searches) : t.searches[i].state \notin {"waiting", "flying"}
    /\ t.phase = "looking" => Len(t.searches) = 0

\* What was found, for category c of stage r itself.
Evidence(r, c, report) ==
    /\ report.status = "succeeded" /\ report.cached = FALSE
    /\ report.category = c /\ report.key = Key(c, Brief(r))
    /\ report.sources # <<>> \/ report.images # {}
Served(r, c, report) ==
    /\ report.status = "succeeded" /\ report.category = c /\ report.key = Key(c, Brief(r))
    /\ report.expires > stage[r].at
Broke(report) ==
    /\ report.error # None /\ report.sources = <<>> /\ report.analysis = None
    /\ report.error = "ProviderQuotaError" => "ProviderQuotaError" \in scenario.errors
Reporting(r, c, t) ==
    t.phase \in Reporters =>
       /\ DOMAIN t.report = ReportFields
       /\ t.report.status \in Statuses /\ t.report.cached \in BOOLEAN
       /\ t.phase \in {"analysing", "storing"} => Evidence(r, c, t.report)
       /\ t.phase = "analysing" => t.report.sources # <<>>
       /\ t.report.cached => Served(r, c, t.report)
       /\ t.report.status = "failed" => Broke(t.report)

\* A draft that is on no report was disclosed.
Disclosed(t) ==
    \A n \in 1 .. Len(t.drafts.given) :
       LET d == t.drafts.given[n] IN
       \/ d.dimension \in t.report.limitations.unverified
       \/ \E i \in t.report.analysis :
            i.dimension = d.dimension /\ \A k \in 1 .. Len(d.evidence) :
               \E e \in i.evidence : e.quote = TrimmedQuote(d.evidence[k].quote)
Named(r, c, t) ==
    LET asked == Searches(c, Brief(r)) IN
    \A i \in 1 .. Len(asked) : t.searches[i].state = "failed" =>
       WordsOf(asked[i].dimensions) \subseteq t.report.degraded
Declared(r, c, t) ==
    /\ t.phase \in {"looking", "searching", "analysing"} => t.drafts = None
    /\ t.phase = "searching" => Len(t.searches) = Len(Searches(c, Brief(r)))
    /\ t.phase \in Reporters /\ t.report.status # "failed" /\ t.report.cached = FALSE =>
          Named(r, c, t) /\ (t.drafts # None => Disclosed(t))

TaskInv(r, c, t) == IsTask(t) /\ Timed(r, t) /\ Swept(t) /\ Reporting(r, c, t) /\ Declared(r, c, t)

\* A running stage has no task that did not begin; one with an outcome has none that is
\* not over, and its outcome is what they came to.
StageInv(r) ==
    /\ stage[r].phase = "running" => \A c \in scenario.categories : task[r][c].phase # "absent"
    /\ stage[r].phase # "ended" => stage[r].outcome = None
    /\ stage[r].outcome \in {"result", "quota", "outage"} =>
          /\ \A c \in scenario.categories : task[r][c].phase = "done"
          /\ stage[r].outcome = OutcomeOf(r)

CacheInv ==
    \A k \in DOMAIN cache :
       /\ DOMAIN cache[k].report = ReportFields
       /\ cache[k].report.key = k /\ cache[k].report.status = "succeeded"
       /\ cache[k].report.sources # <<>> \/ cache[k].report.images # {}

Shape ==
    /\ scenario \in Scenarios /\ now \in 0 .. LastStart + ToolTimeout
    /\ stage \in [Run -> [phase: {"new", "running", "ended"}, at: 0 .. LastStart,
                          outcome: {None, "refused", "result", "quota", "outage"}]]
    /\ DOMAIN task = Run /\ \A r \in Run : DOMAIN task[r] = scenario.categories

\* The inductive invariant.
Inv ==
    /\ Shape /\ CacheInv /\ StageInTime
    /\ \A r \in Run : StageInv(r) /\ Cardinality(InFlight(r)) <= MaxConcurrency
    /\ \A r \in Run : \A c \in scenario.categories : TaskInv(r, c, task[r][c])

----------------------------------------------------------------------------
(* Facts about the model's operators. *)

\* Every non-empty set of naturals has a least element.
LEMMA LeastNatural ==
    ASSUME NEW A, A \subseteq Nat, A # {}
    PROVE  \E x \in A : \A y \in A : x <= y
<1> DEFINE R == OpToRel(<, Nat)
<1>1. IsWellFoundedOn(R, Nat)
  BY NatLessThanWellFounded
<1>2. \A x, y \in Nat : <<x, y>> \in R <=> x < y
  BY DEF OpToRel
<1> HIDE DEF R
<1>3. PICK x \in A : \A y \in A : ~ (<<y, x>> \in R)
  BY <1>1, WFMin
<1>4. \A y \in A : ~ (y < x)
  BY <1>2, <1>3
<1> QED BY <1>3, <1>4

LEMMA MinIsMember ==
    ASSUME NEW A, A \subseteq Nat, A # {}
    PROVE  Min(A) \in A
BY LeastNatural DEF Min

\* A function on 1 .. n is a sequence of length n.
LEMMA LengthOf ==
    ASSUME NEW n \in Nat, NEW f, f = [i \in 1 .. n |-> f[i]]
    PROVE  Len(f) = n /\ DOMAIN f = 1 .. n /\ f \in Seq({f[i] : i \in 1 .. n})
OBVIOUS

\* The gate is finite: a stage has finitely many categories.
LEMMA InFlightFinite ==
    ASSUME NEW r, Shape
    PROVE  IsFiniteSet(InFlight(r))
<1>0. IsFiniteSet(1 .. 7)
  BY FS_Interval, 1 \in Int, 7 \in Int
<1>1. IsFiniteSet(scenario.categories) /\ IsFiniteSet(1 .. 7)
  BY <1>0, ResearchConstants DEF Shape
<1>2. IsFiniteSet(scenario.categories \X (1 .. 7))
  BY <1>1, FS_Product
<1>3. InFlight(r) \subseteq scenario.categories \X (1 .. 7)
  BY DEF InFlight
<1> QED BY <1>2, <1>3, FS_Subset

\* What any step of one task must keep.
LEMMA TaskStep ==
    ASSUME Inv, NEW r \in Run, NEW c \in scenario.categories, NEW t,
           Busy(task[r][c]), task' = [task EXCEPT ![r][c] = t], UNCHANGED <<scenario, now, stage>>,
           CacheInv', TaskInv(r, c, t), t.phase # "absent",
           Cardinality(InFlight(r)') <= MaxConcurrency
    PROVE  Inv'
<1>1. Shape /\ StageInTime /\ stage[r].phase = "running" /\ DOMAIN task = Run
      /\ (\A q \in Run : DOMAIN task[q] = scenario.categories)
  BY DEF Inv, TaskInv, Timed, Shape
<1>2. /\ task'[r][c] = t /\ DOMAIN task' = Run
      /\ \A q \in Run : DOMAIN task'[q] = scenario.categories
      /\ \A q \in Run : q # r => task'[q] = task[q]
      /\ \A d \in scenario.categories : d # c => task'[r][d] = task[r][d]
  BY <1>1
<1>3. Shape' /\ StageInTime'
  BY <1>1, <1>2 DEF Shape, StageInTime
<1>4. ASSUME NEW q \in Run PROVE StageInv(q)'
  <2>1. StageInv(q)
    BY DEF Inv
  <2>2. CASE q = r
    <3>1. stage[r].outcome = None
      BY <1>1, <2>1, <2>2 DEF StageInv
    <3>2. \A d \in scenario.categories : task'[r][d].phase # "absent"
      BY <1>1, <1>2, <2>1, <2>2 DEF StageInv
    <3> QED BY <1>1, <2>2, <3>1, <3>2, ResearchConstants DEF StageInv
  <2>3. CASE q # r
    BY <1>2, <2>1, <2>3 DEF StageInv, OutcomeOf
  <2> QED BY <2>2, <2>3
<1>5. ASSUME NEW q \in Run PROVE Cardinality(InFlight(q)') <= MaxConcurrency
  <2>1. CASE q # r
    <3>1. InFlight(q)' = InFlight(q)
      BY <1>2, <2>1 DEF InFlight
    <3> QED BY <3>1 DEF Inv
  <2> QED BY <2>1
<1>6. ASSUME NEW q \in Run, NEW d \in scenario.categories PROVE TaskInv(q, d, task[q][d])'
  <2>1. PICK u : u = task'[q][d]
    OBVIOUS
  <2>2. TaskInv(q, d, u)
    BY <1>2, <2>1 DEF Inv
  <2>3. TaskInv(q, d, u)'
    BY <2>2 DEF TaskInv, IsTask, IsSearch, Timed, Busy, Swept, Reporting, Evidence, Served, Broke, Declared,
                Named, Disclosed, Brief
  <2> QED BY <2>1, <2>3
<1> QED BY <1>3, <1>4, <1>5, <1>6 DEF Inv

\* The same when no further search is in flight.
LEMMA QuietStep ==
    ASSUME Inv, NEW r \in Run, NEW c \in scenario.categories, NEW t,
           Busy(task[r][c]), task' = [task EXCEPT ![r][c] = t], UNCHANGED <<scenario, now, stage>>,
           CacheInv', TaskInv(r, c, t), t.phase # "absent",
           \A i \in 1 .. Len(t.searches) : t.searches[i].state = "flying" =>
              i \in 1 .. Len(task[r][c].searches) /\ task[r][c].searches[i].state = "flying"
    PROVE  Inv'
<1>1. Shape /\ Cardinality(InFlight(r)) <= MaxConcurrency
  BY DEF Inv
<1>2. task'[r][c] = t /\ \A d \in scenario.categories : d # c => task'[r][d] = task[r][d]
  BY <1>1 DEF Shape
<1>3. InFlight(r)' \subseteq InFlight(r)
  BY <1>2 DEF InFlight
<1>4. IsFiniteSet(InFlight(r)) /\ IsFiniteSet(InFlight(r)')
  BY <1>1, <1>3, InFlightFinite, FS_Subset
<1>5. Cardinality(InFlight(r)') <= Cardinality(InFlight(r))
  BY <1>3, <1>4, FS_Subset
<1>6. Cardinality(InFlight(r)) \in Nat /\ Cardinality(InFlight(r)') \in Nat /\ MaxConcurrency \in Nat
  BY <1>4, FS_CardinalityType, ResearchConstants
<1>7. Cardinality(InFlight(r)') <= MaxConcurrency
  BY <1>1, <1>5, <1>6
<1> QED BY <1>7, TaskStep

\* What an unchanged cache, and one that takes a report of evidence, keep.
LEMMA CacheKept ==
    ASSUME CacheInv, cache' = cache
    PROVE  CacheInv'
BY DEF CacheInv

LEMMA CacheTakes ==
    ASSUME CacheInv, NEW report, SetCache(report), DOMAIN report = ReportFields,
           report.status = "succeeded", report.sources # <<>> \/ report.images # {}
    PROVE  CacheInv'
<1>1. DOMAIN cache' = DOMAIN cache \cup {report.key}
  BY DEF SetCache
<1>2. ASSUME NEW k \in DOMAIN cache'
      PROVE  \/ k = report.key /\ cache'[k].report = report
             \/ k \in DOMAIN cache /\ cache'[k].report = cache[k].report
  BY <1>1 DEF SetCache
<1> QED BY <1>2 DEF CacheInv

\* FailedReport is a report of a failure that carries nothing.
LEMMA FailedReportFails ==
    ASSUME NEW c, NEW r, NEW error, error # None,
           error = "ProviderQuotaError" => "ProviderQuotaError" \in scenario.errors
    PROVE  LET report == FailedReport(c, r, error) IN
           /\ DOMAIN report = ReportFields /\ report.status = "failed" /\ report.cached = FALSE
           /\ Broke(report)
BY DEF FailedReport, ReportFields, Broke

\* A task that ends with such a report.
LEMMA GivesUp ==
    ASSUME Inv, NEW r \in Run, NEW c \in scenario.categories, NEW t, NEW error, error # None,
           error = "ProviderQuotaError" => "ProviderQuotaError" \in scenario.errors,
           IsTask(t), t.phase = "done", t.report = FailedReport(c, r, error),
           \A i \in 1 .. Len(t.searches) : t.searches[i].state \notin {"waiting", "flying"}
    PROVE  TaskInv(r, c, t)
<1> DEFINE report == FailedReport(c, r, error)
<1>1. DOMAIN report = ReportFields /\ report.status = "failed" /\ report.cached = FALSE /\ Broke(report)
  BY FailedReportFails
<1> HIDE DEF report
<1>2. t.report = report
  BY DEF report
<1>3. Timed(r, t) /\ Swept(t)
  BY DEF Timed, Busy, Swept
<1>4. Reporting(r, c, t)
  BY <1>1, <1>2 DEF Reporting, Statuses
<1>5. Declared(r, c, t)
  BY <1>1, <1>2 DEF Declared
<1> QED BY <1>3, <1>4, <1>5 DEF TaskInv

\* Each gives one search per dimension.
LEMMA EachLength ==
    ASSUME NEW c, NEW dims, NEW b, Len(dims) \in Nat
    PROVE  /\ Len(Each(c, dims, b)) = Len(dims)
           /\ Each(c, dims, b) \in Seq({Each(c, dims, b)[i] : i \in 1 .. Len(dims)})
<1> DEFINE f == Each(c, dims, b)
<1>1. f = [i \in 1 .. Len(dims) |-> f[i]]
  BY DEF Each
<1> HIDE DEF f
<1>2. Len(f) = Len(dims) /\ f \in Seq({f[i] : i \in 1 .. Len(dims)})
  BY <1>1, LengthOf
<1> QED BY <1>2 DEF f

LEMMA ConcatLength ==
    ASSUME NEW S, NEW T, NEW f \in Seq(S), NEW g \in Seq(T)
    PROVE  f \o g \in Seq(S \cup T) /\ Len(f \o g) = Len(f) + Len(g)
<1>1. f \in Seq(S \cup T) /\ g \in Seq(S \cup T)
  OBVIOUS
<1> QED BY <1>1

\* A task has finitely many searches, one after another.
LEMMA SearchesLength ==
    ASSUME NEW c, NEW b
    PROVE  Len(Searches(c, b)) \in Nat
<1>1. Len(MarketDimensions) \in Nat /\ Len(CompetitorDimensions) \in Nat /\ Len(SocialDimensions) \in Nat
      /\ Len(VisualGroups) \in Nat
  BY DEF MarketDimensions, CompetitorDimensions, SocialDimensions, VisualGroups
<1>2. CASE c \in {"market", "competitor", "social", "platform"}
  <2>1. Len(<<"formats", "constraints">>) \in Nat
    OBVIOUS
  <2>2. Len(Each(c, MarketDimensions, <<b.entity, b.market>>)) \in Nat
    BY <1>1, EachLength
  <2>3. Len(Each(c, CompetitorDimensions, <<b.entity, b.market>>)) \in Nat
    BY <1>1, EachLength
  <2>4. Len(Each(c, SocialDimensions, <<b.platform, b.entity, b.market>>)) \in Nat
    BY <1>1, EachLength
  <2>5. Len(Each(c, <<"formats", "constraints">>, <<b.platform>>)) \in Nat
    BY <2>1, EachLength
  <2> QED BY <1>2, <2>2, <2>3, <2>4, <2>5 DEF Searches
<1>3. CASE c = "visual_reference"
  <2> DEFINE f == Searches(c, b)
  <2>1. f = [i \in 1 .. Len(VisualGroups) |-> f[i]]
    BY <1>3 DEF Searches
  <2> HIDE DEF f
  <2>2. Len(f) = Len(VisualGroups)
    BY <1>1, <2>1, LengthOf
  <2> QED BY <1>1, <2>2 DEF f
<1>4. CASE c = "trend"
  <2> DEFINE f == Each(c, <<"current">>, <<b.entity>>)
             g == Each(c, <<"emerging", "overused">>, <<b.platform>>)
             h == Each(c, <<"declining">>, <<b.entity>>)
  <2>1. Len(<<"current">>) \in Nat /\ Len(<<"emerging", "overused">>) \in Nat /\ Len(<<"declining">>) \in Nat
    OBVIOUS
  <2>2. PICK A, B, C : f \in Seq(A) /\ g \in Seq(B) /\ h \in Seq(C)
    BY <2>1, EachLength
  <2>3. Searches(c, b) = f \o g \o h
    BY <1>4 DEF Searches
  <2> HIDE DEF f, g, h
  <2>4. f \o g \in Seq(A \cup B)
    BY <2>2, ConcatLength
  <2>5. f \o g \o h \in Seq((A \cup B) \cup C)
    BY <2>2, <2>4, ConcatLength
  <2> QED BY <2>3, <2>5
<1>5. CASE c \notin {"market", "competitor", "social", "visual_reference", "trend", "platform"}
  <2>1. Searches(c, b) = <<[query |-> CanonicalQuery(c, b), dimensions |-> <<c>>]>>
    BY <1>5 DEF Searches
  <2> QED BY <2>1
<1> QED BY <1>2, <1>3, <1>4, <1>5

----------------------------------------------------------------------------
(* The steps of a task. *)

LEMMA LookUpStep ==
    ASSUME Inv, NEW p \in Tasks, LookUp(p) PROVE Inv'
<1>1. PICK r \in Run, c \in scenario.categories : p = <<r, c>>
  BY DEF Tasks
<1> DEFINE old == task[r][c]
           k == Key(c, Brief(r))
<1>2. old.phase = "looking" /\ UNCHANGED <<scenario, now, stage, cache>> /\ p[1] = r /\ p[2] = c
  BY <1>1 DEF LookUp, Phase
<1>3. TaskInv(r, c, old) /\ CacheInv /\ CacheInv'
  BY <1>2, CacheKept DEF Inv
<1>4. DOMAIN old = TaskFields /\ Len(old.searches) = 0 /\ DOMAIN old.searches = 1 .. 0 /\ old.drafts = None
  BY <1>2, <1>3 DEF TaskInv, IsTask, Swept, Declared
<1>5. CASE k \in DOMAIN cache /\ Servable(c, r, cache[k].report)
           /\ SetTask(p, [old EXCEPT !.phase = "done", !.report = [cache[k].report EXCEPT !.cached = TRUE]])
  <2>1. PICK report : report = [cache[k].report EXCEPT !.cached = TRUE]
    OBVIOUS
  <2>2. PICK t : t = [old EXCEPT !.phase = "done", !.report = report]
    OBVIOUS
  <2>3. task' = [task EXCEPT ![r][c] = t]
    BY <1>2, <1>5, <2>1, <2>2 DEF SetTask
  <2>4. DOMAIN t = TaskFields /\ t.phase = "done" /\ t.report = report /\ t.searches = old.searches
        /\ t.drafts = None
    BY <1>4, <2>2 DEF TaskFields
  <2>5. DOMAIN report = ReportFields /\ report.status = "succeeded" /\ report.cached = TRUE
        /\ report.category = c /\ report.key = k /\ report.expires > stage[r].at
    BY <1>3, <1>5, <2>1 DEF CacheInv, ReportFields, Servable
  <2>6. IsTask(t) /\ Timed(r, t) /\ Swept(t)
    BY <1>4, <2>4 DEF IsTask, Timed, Swept, Busy
  <2>7. Reporting(r, c, t) /\ Declared(r, c, t)
    BY <2>4, <2>5 DEF Reporting, Served, Statuses, Declared
  <2>8. TaskInv(r, c, t)
    BY <2>6, <2>7 DEF TaskInv
  <2>9. Busy(old) /\ t.phase # "absent" /\ 1 .. Len(t.searches) = {}
    BY <1>2, <1>4, <2>4 DEF Busy
  <2> QED BY <1>2, <1>3, <2>3, <2>8, <2>9, QuietStep
<1>6. CASE SetTask(p, [old EXCEPT !.phase = "searching",
              !.searches = [i \in 1 .. Len(Searches(c, Brief(r))) |->
                 [state |-> "waiting", since |-> 0, results |-> <<>>, images |-> {}, error |-> None]]])
  <2>1. PICK n \in Nat : n = Len(Searches(c, Brief(r)))
    BY SearchesLength
  <2>2. PICK searches : searches = [i \in 1 .. n |->
           [state |-> "waiting", since |-> 0, results |-> <<>>, images |-> {}, error |-> None]]
    OBVIOUS
  <2>3. Len(searches) = n /\ DOMAIN searches = 1 .. n
    <3>1. searches = [i \in 1 .. n |-> searches[i]]
      BY <2>2
    <3> QED BY <3>1, LengthOf
  <2>4. \A i \in 1 .. n : DOMAIN searches[i] = SearchFields /\ searches[i].state = "waiting"
    BY <2>2 DEF SearchFields
  <2>5. PICK t : t = [old EXCEPT !.phase = "searching", !.searches = searches]
    OBVIOUS
  <2>6. task' = [task EXCEPT ![r][c] = t]
    BY <1>2, <1>6, <2>1, <2>2, <2>5 DEF SetTask
  <2>7. DOMAIN t = TaskFields /\ t.phase = "searching" /\ t.searches = searches /\ t.drafts = None
        /\ t.deadline = old.deadline
    BY <1>4, <2>5 DEF TaskFields
  <2>8. IsTask(t)
    BY <2>3, <2>4, <2>7 DEF IsTask, IsSearch
  <2>9. Timed(r, t)
    BY <1>2, <1>3, <2>7 DEF TaskInv, Timed, Busy
  <2>10. Swept(t) /\ Reporting(r, c, t) /\ Declared(r, c, t)
    BY <2>1, <2>3, <2>7 DEF Swept, Reporting, Declared, Reporters
  <2>11. TaskInv(r, c, t) /\ Busy(old) /\ t.phase # "absent"
    BY <1>2, <2>7, <2>8, <2>9, <2>10 DEF TaskInv, Busy
  <2>12. \A i \in 1 .. Len(t.searches) : t.searches[i].state # "flying"
    BY <2>3, <2>4, <2>7
  <2> QED BY <1>2, <1>3, <2>6, <2>11, <2>12, QuietStep
<1> QED BY <1>1, <1>2, <1>5, <1>6 DEF LookUp

\* One search of a task changes.
LEMMA OneSearch ==
    ASSUME Inv, NEW r \in Run, NEW c \in scenario.categories, NEW i \in 1 .. Len(task[r][c].searches), NEW s,
           task[r][c].phase = "searching", IsSearch(s), SetSearch(<<r, c>>, i, s)
    PROVE  \E t : /\ task' = [task EXCEPT ![r][c] = t]
                  /\ TaskInv(r, c, t) /\ t.phase = "searching" /\ Busy(task[r][c])
                  /\ Len(t.searches) = Len(task[r][c].searches) /\ t.searches[i] = s
                  /\ \A j \in 1 .. Len(t.searches) : j # i => t.searches[j] = task[r][c].searches[j]
<1> DEFINE old == task[r][c]
<1>1. TaskInv(r, c, old) /\ Shape
  BY DEF Inv
<1>2. DOMAIN old = TaskFields /\ Len(old.searches) \in Nat /\ DOMAIN old.searches = 1 .. Len(old.searches)
      /\ DOMAIN task = Run /\ DOMAIN task[r] = scenario.categories
  BY <1>1 DEF TaskInv, IsTask, Shape
<1>3. PICK searches : searches = [old.searches EXCEPT ![i] = s]
  OBVIOUS
<1>4. /\ DOMAIN searches = 1 .. Len(old.searches) /\ searches[i] = s
      /\ \A j \in 1 .. Len(old.searches) : j # i => searches[j] = old.searches[j]
  BY <1>2, <1>3
<1>5. Len(searches) = Len(old.searches)
  <2>1. searches = [j \in 1 .. Len(old.searches) |-> searches[j]]
    BY <1>2, <1>3
  <2> QED BY <1>2, <2>1, LengthOf
<1>6. PICK t : t = [old EXCEPT !.searches = searches]
  OBVIOUS
<1>7. task' = [task EXCEPT ![r][c] = t]
  BY <1>2, <1>3, <1>6 DEF SetSearch
<1>8. DOMAIN t = TaskFields /\ t.phase = "searching" /\ t.searches = searches
      /\ t.deadline = old.deadline /\ t.drafts = old.drafts
  BY <1>2, <1>6 DEF TaskFields
<1>9. IsTask(t)
  BY <1>1, <1>2, <1>4, <1>5, <1>8 DEF TaskInv, IsTask
<1>10. Timed(r, t) /\ Swept(t) /\ Reporting(r, c, t) /\ Declared(r, c, t)
  BY <1>1, <1>5, <1>8 DEF TaskInv, Timed, Swept, Busy, Reporting, Reporters, Declared
<1> QED BY <1>4, <1>5, <1>7, <1>8, <1>9, <1>10 DEF TaskInv, Busy

\* A search that comes back leaves the gate.
LEMMA SearchReturns ==
    ASSUME Inv, NEW r \in Run, NEW c \in scenario.categories, NEW i \in 1 .. Len(task[r][c].searches), NEW s,
           task[r][c].phase = "searching", IsSearch(s), SetSearch(<<r, c>>, i, s), s.state # "flying",
           UNCHANGED <<scenario, now, stage, cache>>
    PROVE  Inv'
<1>1. PICK t : /\ task' = [task EXCEPT ![r][c] = t]
               /\ TaskInv(r, c, t) /\ t.phase = "searching" /\ Busy(task[r][c])
               /\ Len(t.searches) = Len(task[r][c].searches) /\ t.searches[i] = s
               /\ \A j \in 1 .. Len(t.searches) : j # i => t.searches[j] = task[r][c].searches[j]
  BY OneSearch
<1>2. CacheInv'
  BY CacheKept DEF Inv
<1> QED BY <1>1, <1>2, QuietStep

LEMMA SearchAnswersStep ==
    ASSUME Inv, NEW p \in Tasks, NEW i \in SearchesOf(p), SearchAnswers(p, i) PROVE Inv'
<1>1. PICK r \in Run, c \in scenario.categories : p = <<r, c>>
  BY DEF Tasks
<1>2. task[r][c].phase = "searching" /\ i \in 1 .. Len(task[r][c].searches)
  BY <1>1 DEF SearchAnswers, SearchIn, Phase, SearchesOf
<1>3. PICK response \in scenario.responses :
         SetSearch(p, i, [state |-> "answered", since |-> 0, results |-> response.results,
                          images |-> response.images, error |-> None])
  BY DEF SearchAnswers
<1>4. PICK s : s = [state |-> "answered", since |-> 0, results |-> response.results,
                    images |-> response.images, error |-> None]
  OBVIOUS
<1>5. IsSearch(s) /\ s.state # "flying"
  BY <1>4 DEF IsSearch, SearchFields
<1> QED BY <1>1, <1>2, <1>3, <1>4, <1>5, SearchReturns DEF SearchAnswers

\* A search fails with an error of the provider's or of its own timeout.
LEMMA FailStep ==
    ASSUME Inv, NEW r \in Run, NEW c \in scenario.categories, NEW i \in 1 .. Len(task[r][c].searches),
           NEW error \in scenario.errors \cup {"TimeoutError"}, task[r][c].phase = "searching",
           Fail(i, <<r, c>>, error), UNCHANGED <<scenario, now, stage, cache>>
    PROVE  Inv'
<1>1. PICK s : s = [state |-> "failed", since |-> 0, results |-> <<>>, images |-> {}, error |-> error]
  OBVIOUS
<1>2. IsSearch(s) /\ s.state # "flying"
  BY <1>1 DEF IsSearch, SearchFields
<1> QED BY <1>1, <1>2, SearchReturns DEF Fail

LEMMA SearchFailsStep ==
    ASSUME Inv, NEW p \in Tasks, NEW i \in SearchesOf(p), SearchFails(p, i) \/ SearchTimesOut(p, i)
    PROVE  Inv'
<1>1. PICK r \in Run, c \in scenario.categories : p = <<r, c>>
  BY DEF Tasks
<1>2. task[r][c].phase = "searching" /\ i \in 1 .. Len(task[r][c].searches)
  BY <1>1 DEF SearchFails, SearchTimesOut, SearchIn, Phase, SearchesOf
<1>3. PICK error \in scenario.errors \cup {"TimeoutError"} : Fail(i, p, error)
  BY DEF SearchFails, SearchTimesOut
<1> QED BY <1>1, <1>2, <1>3, FailStep DEF SearchFails, SearchTimesOut

\* The gate lets a search in only while there is room for one more.
LEMMA EnterGateStep ==
    ASSUME Inv, NEW p \in Tasks, NEW i \in SearchesOf(p), EnterGate(p, i) PROVE Inv'
<1>1. PICK r \in Run, c \in scenario.categories : p = <<r, c>>
  BY DEF Tasks
<1>2. /\ task[r][c].phase = "searching" /\ i \in 1 .. Len(task[r][c].searches)
      /\ Cardinality(InFlight(r)) < MaxConcurrency
      /\ UNCHANGED <<scenario, now, stage, cache>>
  BY <1>1 DEF EnterGate, SearchIn, Phase, SearchesOf
<1>3. PICK s : s = [state |-> "flying", since |-> now, results |-> <<>>, images |-> {}, error |-> None]
  OBVIOUS
<1>4. IsSearch(s) /\ SetSearch(<<r, c>>, i, s)
  BY <1>1, <1>3 DEF IsSearch, SearchFields, EnterGate
<1>5. PICK t : /\ task' = [task EXCEPT ![r][c] = t]
               /\ TaskInv(r, c, t) /\ t.phase = "searching" /\ Busy(task[r][c])
               /\ Len(t.searches) = Len(task[r][c].searches) /\ t.searches[i] = s
               /\ \A j \in 1 .. Len(t.searches) : j # i => t.searches[j] = task[r][c].searches[j]
  BY <1>2, <1>4, OneSearch
<1>6. Shape /\ CacheInv'
  BY <1>2, CacheKept DEF Inv
<1>7. task'[r][c] = t /\ \A d \in scenario.categories : d # c => task'[r][d] = task[r][d]
  BY <1>5, <1>6 DEF Shape
<1>8. InFlight(r)' \subseteq InFlight(r) \cup {<<c, i>>}
  <2>1. SUFFICES ASSUME NEW q \in InFlight(r)', q # <<c, i>> PROVE q \in InFlight(r)
    OBVIOUS
  <2>2. /\ q \in scenario.categories \X (1 .. 7)
        /\ q[2] \in 1 .. Len(task'[r][q[1]].searches) /\ task'[r][q[1]].searches[q[2]].state = "flying"
    BY <1>2, <2>1 DEF InFlight
  <2>3. CASE q[1] = c
    BY <1>5, <1>7, <2>1, <2>2, <2>3 DEF InFlight
  <2>4. CASE q[1] # c
    BY <1>7, <2>2, <2>4 DEF InFlight
  <2> QED BY <2>3, <2>4
<1>9. IsFiniteSet(InFlight(r)) /\ IsFiniteSet(InFlight(r) \cup {<<c, i>>})
  BY <1>6, InFlightFinite, FS_AddElement
<1>10. Cardinality(InFlight(r)) \in Nat
       /\ Cardinality(InFlight(r) \cup {<<c, i>>}) \in Nat
       /\ Cardinality(InFlight(r) \cup {<<c, i>>}) <= Cardinality(InFlight(r)) + 1
  <2>1. Cardinality(InFlight(r)) \in Nat /\ Cardinality(InFlight(r) \cup {<<c, i>>}) \in Nat
    BY <1>9, FS_CardinalityType
  <2>2. \/ Cardinality(InFlight(r) \cup {<<c, i>>}) = Cardinality(InFlight(r))
        \/ Cardinality(InFlight(r) \cup {<<c, i>>}) = Cardinality(InFlight(r)) + 1
    BY <1>9, FS_AddElement
  <2> QED BY <2>1, <2>2
<1>11. Cardinality(InFlight(r)') \in Nat
       /\ Cardinality(InFlight(r)') <= Cardinality(InFlight(r) \cup {<<c, i>>})
  BY <1>8, <1>9, FS_Subset, FS_CardinalityType
<1>12. Cardinality(InFlight(r)') <= MaxConcurrency
  BY <1>2, <1>10, <1>11, ResearchConstants
<1> QED BY <1>2, <1>5, <1>6, <1>12, TaskStep

\* What the searches of a task came to when all of them failed: a spent allowance is
\* named only when a provider named it.
LEMMA ErrorOfFailures ==
    ASSUME Shape, NEW t, IsTask(t), \A i \in 1 .. Len(t.searches) : t.searches[i].state = "failed"
    PROVE  /\ ErrorOf(t) # None
           /\ ErrorOf(t) = "ProviderQuotaError" => "ProviderQuotaError" \in scenario.errors
<1> DEFINE errors == {t.searches[i].error : i \in 1 .. Len(t.searches)}
           signals == {i \in 1 .. Len(t.searches) : t.searches[i].error # "ValueError"}
<1>1. \A i \in 1 .. Len(t.searches) : t.searches[i].error \in scenario.errors \cup {"TimeoutError"}
  BY DEF IsTask, IsSearch
<1>2. None \notin scenario.errors
  BY ResearchConstants DEF Shape
<1>3. CASE "ProviderQuotaError" \in errors
  <2>1. "ProviderQuotaError" \in scenario.errors
    BY <1>1, <1>3
  <2> QED BY <1>2, <1>3, <2>1 DEF ErrorOf
<1>4. CASE "ProviderQuotaError" \notin errors /\ signals = {}
  <2>1. ErrorOf(t) \in {"ValueError", "ProviderError"}
    BY <1>4 DEF ErrorOf
  <2> QED BY <2>1, ResearchConstants
<1>5. CASE "ProviderQuotaError" \notin errors /\ signals # {}
  <2>1. ErrorOf(t) = t.searches[Min(signals)].error
    BY <1>5 DEF ErrorOf
  <2>2. Min(signals) \in signals
    <3>1. signals \subseteq Nat
      BY DEF IsTask
    <3> QED BY <1>5, <3>1, MinIsMember
  <2>3. ErrorOf(t) \in errors /\ ErrorOf(t) \in scenario.errors \cup {"TimeoutError"}
    BY <1>1, <2>1, <2>2
  <2> QED BY <1>2, <1>5, <2>3, ResearchConstants
<1> QED BY <1>3, <1>4, <1>5

\* Spent forgets what the searches found and nothing else.
LEMMA SpentTask ==
    ASSUME NEW t, IsTask(t)
    PROVE  /\ IsTask(Spent(t)) /\ DOMAIN Spent(t) = TaskFields
           /\ Spent(t).phase = t.phase /\ Spent(t).drafts = t.drafts /\ Spent(t).deadline = t.deadline
           /\ Len(Spent(t).searches) = Len(t.searches)
           /\ \A i \in 1 .. Len(t.searches) : Spent(t).searches[i].state = t.searches[i].state
<1>1. DOMAIN t = TaskFields /\ Len(t.searches) \in Nat /\ DOMAIN t.searches = 1 .. Len(t.searches)
      /\ \A i \in 1 .. Len(t.searches) : IsSearch(t.searches[i])
  BY DEF IsTask
<1>2. PICK searches : searches = [i \in DOMAIN t.searches |-> [t.searches[i] EXCEPT !.results = <<>>, !.images = {}]]
  OBVIOUS
<1>3. Len(searches) = Len(t.searches) /\ DOMAIN searches = 1 .. Len(t.searches)
  <2>1. searches = [i \in 1 .. Len(t.searches) |-> searches[i]]
    BY <1>1, <1>2
  <2> QED BY <1>1, <2>1, LengthOf
<1>4. \A i \in 1 .. Len(t.searches) :
         IsSearch(searches[i]) /\ searches[i].state = t.searches[i].state
  BY <1>1, <1>2 DEF IsSearch, SearchFields
<1>5. Spent(t) = [t EXCEPT !.searches = searches]
  BY <1>2 DEF Spent
<1>6. PICK u : u = Spent(t)
  OBVIOUS
<1>7. DOMAIN u = TaskFields /\ u.phase = t.phase /\ u.drafts = t.drafts /\ u.deadline = t.deadline
      /\ u.searches = searches
  BY <1>1, <1>5, <1>6 DEF TaskFields
<1>8. IsTask(u)
  BY <1>3, <1>4, <1>7 DEF IsTask
<1> QED BY <1>3, <1>4, <1>6, <1>7, <1>8

\* What the searches that came back add up to.
LEMMA CollectedReport ==
    ASSUME NEW r \in Run, NEW c \in scenario.categories
    PROVE  LET report == Collected(<<r, c>>) IN
           /\ DOMAIN report = ReportFields
           /\ report.category = c /\ report.key = Key(c, Brief(r)) /\ report.cached = FALSE
           /\ \/ report.status = "succeeded" /\ (report.sources # <<>> \/ report.images # {})
              \/ report.status = "no_results" /\ report.sources = <<>>
           /\ report.degraded = Degraded(Searches(c, Brief(r)), task[r][c])
<1>1. PICK sources, images : Collected(<<r, c>>) = FoundReport(r, c, sources, images)
  <2>1. \A p : \E sources, images : Collected(p) = FoundReport(p[1], p[2], sources, images)
    BY Zenon DEF Collected
  <2> QED BY <2>1
<1> DEFINE status == IF sources = <<>> /\ images = {} THEN "no_results" ELSE "succeeded"
           confidence == ReportConfidence(sources)
<1>2. PICK report : report = Collected(<<r, c>>)
  OBVIOUS
<1>3. PICK degraded : degraded = Degraded(Searches(c, Brief(r)), task[r][c])
  OBVIOUS
<1>4. report = [category |-> c, key |-> Key(c, Brief(r)), status |-> status, error |-> None, sources |-> sources,
                images |-> images, confidence |-> confidence, analysis |-> None, coverage |-> None,
                limitations |-> None, degraded |-> degraded, expires |-> stage[r].at + CacheTtl, cached |-> FALSE]
  BY <1>1, <1>2, <1>3, ZenonT(60) DEF FailedReport, FoundReport
<1>5. DOMAIN report = ReportFields /\ report.category = c /\ report.key = Key(c, Brief(r))
      /\ report.cached = FALSE /\ report.status = status /\ report.sources = sources
      /\ report.images = images /\ report.degraded = degraded
  BY <1>4 DEF ReportFields
<1> QED BY <1>1, <1>2, <1>3, <1>5

\* A task whose report has just been made of its searches.
LEMMA ReportMade ==
    ASSUME Inv, NEW r \in Run, NEW c \in scenario.categories, NEW t, NEW report,
           task[r][c].phase = "searching", Settled(task[r][c]), report = Collected(<<r, c>>),
           DOMAIN t = TaskFields, t.searches = Spent(task[r][c]).searches, t.drafts = task[r][c].drafts,
           t.deadline = task[r][c].deadline, t.report = report,
           \/ t.phase = "analysing" /\ report.sources # <<>>
           \/ t.phase = (IF report.status = "succeeded" THEN "storing" ELSE "done")
    PROVE  TaskInv(r, c, t) /\ \A i \in 1 .. Len(t.searches) : t.searches[i].state # "flying"
<1> DEFINE old == task[r][c]
           asked == Searches(c, Brief(r))
<1>1. TaskInv(r, c, old)
  BY DEF Inv
<1>2. /\ IsTask(Spent(old)) /\ Len(t.searches) = Len(old.searches)
      /\ \A i \in 1 .. Len(old.searches) : t.searches[i].state = old.searches[i].state
  BY <1>1, SpentTask DEF TaskInv
<1>3. Len(t.searches) = Len(asked) /\ t.drafts = None
  BY <1>1, <1>2 DEF TaskInv, Declared
<1>4. /\ DOMAIN report = ReportFields
      /\ report.category = c /\ report.key = Key(c, Brief(r)) /\ report.cached = FALSE
      /\ \/ report.status = "succeeded" /\ (report.sources # <<>> \/ report.images # {})
         \/ report.status = "no_results" /\ report.sources = <<>>
      /\ report.degraded = Degraded(asked, old)
  <2> DEFINE R == Collected(<<r, c>>)
  <2>1. /\ DOMAIN R = ReportFields
        /\ R.category = c /\ R.key = Key(c, Brief(r)) /\ R.cached = FALSE
        /\ \/ R.status = "succeeded" /\ (R.sources # <<>> \/ R.images # {})
           \/ R.status = "no_results" /\ R.sources = <<>>
        /\ R.degraded = Degraded(asked, old)
    BY CollectedReport
  <2> QED BY <2>1
<1>5. IsTask(t)
  BY <1>2 DEF IsTask
<1>6. Timed(r, t)
  BY <1>1 DEF TaskInv, Timed, Busy
<1>7. \A i \in 1 .. Len(t.searches) : t.searches[i].state \notin {"waiting", "flying"}
  BY <1>2 DEF Settled
<1>8. Swept(t)
  BY <1>7 DEF Swept
<1>9. Reporting(r, c, t)
  BY <1>4 DEF Reporting, Evidence, Statuses
<1>10. Named(r, c, t)
  <2>1. SUFFICES ASSUME NEW i \in 1 .. Len(asked), t.searches[i].state = "failed"
                 PROVE  WordsOf(asked[i].dimensions) \subseteq report.degraded
    BY DEF Named
  <2>2. old.searches[i].state = "failed"
    BY <1>2, <1>3, <2>1
  <2> HIDE DEF asked
  <2> QED BY <1>4, <2>1, <2>2 DEF Degraded
<1>11. Declared(r, c, t)
  BY <1>3, <1>10 DEF Declared
<1> QED BY <1>5, <1>6, <1>7, <1>8, <1>9, <1>11 DEF TaskInv

LEMMA CollectStep ==
    ASSUME Inv, NEW p \in Tasks, Collect(p) PROVE Inv'
<1>1. PICK r \in Run, c \in scenario.categories : p = <<r, c>>
  BY DEF Tasks
<1> DEFINE old == task[r][c]
<1>2. /\ old.phase = "searching" /\ Settled(old) /\ UNCHANGED <<scenario, now, stage, cache>>
      /\ p[1] = r /\ p[2] = c
  BY <1>1 DEF Collect, Phase
<1>3. TaskInv(r, c, old) /\ CacheInv' /\ Busy(old) /\ Shape
  BY <1>2, CacheKept DEF Inv, Busy
<1>4. DOMAIN old = TaskFields /\ IsTask(old)
  BY <1>3 DEF TaskInv, IsTask
<1>5. CASE \A i \in 1 .. Len(old.searches) : old.searches[i].state = "failed"
  <2>1. PICK t : t = [old EXCEPT !.phase = "done", !.report = FailedReport(c, r, ErrorOf(old))]
    OBVIOUS
  <2>2. task' = [task EXCEPT ![r][c] = t]
    BY <1>2, <1>5, <2>1 DEF Collect, SetTask
  <2>3. DOMAIN t = TaskFields /\ t.phase = "done" /\ t.report = FailedReport(c, r, ErrorOf(old))
        /\ t.searches = old.searches
    BY <1>4, <2>1 DEF TaskFields
  <2>4. ErrorOf(old) # None
        /\ (ErrorOf(old) = "ProviderQuotaError" => "ProviderQuotaError" \in scenario.errors)
    BY <1>3, <1>4, <1>5, ErrorOfFailures
  <2>5. IsTask(t) /\ \A i \in 1 .. Len(t.searches) : t.searches[i].state \notin {"waiting", "flying"}
    BY <1>4, <1>5, <2>3 DEF IsTask
  <2>6. TaskInv(r, c, t)
    BY <2>3, <2>4, <2>5, GivesUp
  <2> QED BY <1>2, <1>3, <2>2, <2>3, <2>5, <2>6, QuietStep
<1>6. CASE ~ \A i \in 1 .. Len(old.searches) : old.searches[i].state = "failed"
  <2>1. PICK report : report = Collected(p)
    OBVIOUS
  <2>2. PICK u : u = Spent(old)
    OBVIOUS
  <2>3. PICK t : t = IF c \in Structured /\ report.sources # <<>>
                     THEN [u EXCEPT !.phase = "analysing", !.report = report]
                     ELSE Reported(u, report)
    OBVIOUS
  <2>4. task' = [task EXCEPT ![r][c] = t]
    BY <1>2, <1>6, <2>1, <2>2, <2>3 DEF Collect, SetTask
  <2>5. DOMAIN u = TaskFields /\ u.drafts = old.drafts /\ u.deadline = old.deadline
    BY <1>4, <2>2, SpentTask
  <2>6. /\ DOMAIN t = TaskFields /\ t.searches = u.searches /\ t.drafts = u.drafts
        /\ t.deadline = u.deadline /\ t.report = report
        /\ \/ t.phase = "analysing" /\ report.sources # <<>>
           \/ t.phase = (IF report.status = "succeeded" THEN "storing" ELSE "done")
    BY <2>3, <2>5 DEF Reported, TaskFields
  <2>7. TaskInv(r, c, t) /\ \A i \in 1 .. Len(t.searches) : t.searches[i].state # "flying"
    BY <1>1, <1>2, <2>1, <2>2, <2>5, <2>6, ReportMade
  <2>8. t.phase # "absent"
    BY <2>6
  <2> QED BY <1>2, <1>3, <2>4, <2>7, <2>8, QuietStep
<1> QED BY <1>5, <1>6

\* What a model said is on the report, or the dimension is named as unverified.
LEMMA GroundingDiscloses ==
    ASSUME NoneIsNoInsight, NEW category, NEW drafts, NEW shown,
           GroundAnalysis(category, drafts, shown) # None, NEW n \in 1 .. Len(drafts)
    PROVE  \/ drafts[n].dimension \in Limitations(drafts, shown).unverified
           \/ \E i \in GroundAnalysis(category, drafts, shown) :
                i.dimension = drafts[n].dimension /\ \A k \in 1 .. Len(drafts[n].evidence) :
                   \E e \in i.evidence : e.quote = TrimmedQuote(drafts[n].evidence[k].quote)
<1> DEFINE d == drafts[n]
           at == Located(d, shown)
           insights == [i \in 1 .. Len(drafts) |-> GroundInsight(drafts[i], shown)]
<1>1. DOMAIN at = 1 .. Len(d.evidence) /\ (DOMAIN at = {} => at = <<>>)
  BY DEF Located
<1>2. CASE at = <<>> \/ \E k \in DOMAIN at : at[k] = None
  <2> DEFINE ats == [i \in 1 .. Len(drafts) |-> Located(drafts[i], shown)]
             lost == {m \in DOMAIN ats : ats[m] = <<>> \/ \E k \in DOMAIN ats[m] : ats[m][k] = None}
  <2>1. n \in lost
    BY <1>2
  <2>2. Limitations(drafts, shown).unverified = {drafts[i].dimension : i \in lost}
    BY DEF Limitations, LimitationsAt
  <2> HIDE DEF lost, d, at
  <2> QED BY <2>1, <2>2
<1>3. CASE at # <<>> /\ \A k \in DOMAIN at : at[k] # None
  <2>1. PICK found, cited : GroundInsight(d, shown) = InsightFrom(d, at, found, cited)
                            /\ found = {k \in DOMAIN at : at[k] # None}
    BY DEF GroundInsight, GroundedAt
  <2>2. found = 1 .. Len(d.evidence) /\ found # {}
    BY <1>1, <1>3, <2>1
  <2>3. PICK confidence :
          GroundInsight(d, shown) =
             [dimension |-> d.dimension, confidence |-> confidence,
              evidence |-> {[url |-> at[k].url, quote |-> TrimmedQuote(d.evidence[k].quote)] : k \in found},
              fits |-> d.fits]
    BY <2>1, <2>2 DEF InsightFrom
  <2>4. GroundInsight(d, shown) # None
    BY <2>3 DEF NoneIsNoInsight
  <2>5. GroundAnalysis(category, drafts, shown) = {insights[i] : i \in DOMAIN insights} \ {None}
    BY DEF GroundAnalysis, AnalysisFrom
  <2>6. insights[n] = GroundInsight(d, shown) /\ n \in DOMAIN insights
    OBVIOUS
  <2>7. GroundInsight(d, shown) \in GroundAnalysis(category, drafts, shown)
    BY <2>4, <2>5, <2>6
  <2>8. PICK i : i = GroundInsight(d, shown)
    OBVIOUS
  <2>9. i.dimension = d.dimension
        /\ i.evidence = {[url |-> at[k].url, quote |-> TrimmedQuote(d.evidence[k].quote)] : k \in found}
    BY <2>3, <2>8
  <2>10. \A k \in 1 .. Len(d.evidence) : \E e \in i.evidence : e.quote = TrimmedQuote(d.evidence[k].quote)
    <3>1. SUFFICES ASSUME NEW k \in 1 .. Len(d.evidence)
                   PROVE  \E e \in i.evidence : e.quote = TrimmedQuote(d.evidence[k].quote)
      OBVIOUS
    <3>2. PICK e : e = [url |-> at[k].url, quote |-> TrimmedQuote(d.evidence[k].quote)]
      OBVIOUS
    <3>3. e \in i.evidence
      <4> HIDE DEF d, at
      <4> QED BY <2>2, <2>9, <3>1, <3>2
    <3> QED BY <3>2, <3>3
  <2> QED BY <2>7, <2>8, <2>9, <2>10
<1> QED BY <1>2, <1>3

\* A task that has its searches behind it goes on with the report it has.
LEMMA GoesOn ==
    ASSUME Inv, NEW r \in Run, NEW c \in scenario.categories, task[r][c].phase \in {"analysing", "storing"}
    PROVE  LET old == task[r][c] IN
           /\ IsTask(old) /\ DOMAIN old = TaskFields /\ Busy(old)
           /\ \A i \in 1 .. Len(old.searches) : old.searches[i].state \notin {"waiting", "flying"}
           /\ DOMAIN old.report = ReportFields /\ Evidence(r, c, old.report)
           /\ Named(r, c, old) /\ (old.drafts # None => Disclosed(old))
BY DEF Inv, TaskInv, IsTask, Busy, Swept, Reporting, Declared, Reporters, Evidence

LEMMA AnalysedReport ==
    ASSUME Inv, NoneIsNoInsight, NEW r \in Run, NEW c \in scenario.categories,
           task[r][c].phase = "analysing", NEW drafts, NEW shown, NEW t, NEW report,
           GroundAnalysis(c, drafts, shown) # None,
           DOMAIN t = TaskFields, t.phase = "storing", t.searches = task[r][c].searches,
           t.deadline = task[r][c].deadline, t.report = report, t.drafts = [given |-> drafts, shown |-> shown],
           DOMAIN report = ReportFields,
           \A f \in ReportFields \ {"analysis", "coverage", "limitations"} : report[f] = task[r][c].report[f],
           report.analysis = GroundAnalysis(c, drafts, shown),
           report.limitations = Limitations(drafts, shown)
    PROVE  TaskInv(r, c, t)
<1> DEFINE old == task[r][c]
<1>1. /\ IsTask(old) /\ DOMAIN old = TaskFields
      /\ \A i \in 1 .. Len(old.searches) : old.searches[i].state \notin {"waiting", "flying"}
      /\ DOMAIN old.report = ReportFields /\ Evidence(r, c, old.report)
      /\ Named(r, c, old)
  BY GoesOn
<1>2. /\ report.status = old.report.status /\ report.cached = old.report.cached
      /\ report.category = old.report.category /\ report.key = old.report.key
      /\ report.sources = old.report.sources /\ report.images = old.report.images
      /\ report.degraded = old.report.degraded
  BY DEF ReportFields
<1>5. t.drafts.given = drafts
  OBVIOUS
<1>6. IsTask(t) /\ Swept(t)
  BY <1>1 DEF IsTask, Swept
<1>7. Timed(r, t)
  BY DEF Inv, TaskInv, Timed, Busy
<1>8. Reporting(r, c, t)
  BY <1>1, <1>2 DEF Reporting, Evidence, Statuses
<1>9. Named(r, c, t)
  BY <1>1, <1>2 DEF Named
<1>10. Disclosed(t)
  <2>1. SUFFICES ASSUME NEW n \in 1 .. Len(drafts)
                 PROVE  \/ drafts[n].dimension \in report.limitations.unverified
                        \/ \E i \in report.analysis :
                             i.dimension = drafts[n].dimension /\ \A k \in 1 .. Len(drafts[n].evidence) :
                                \E e \in i.evidence : e.quote = TrimmedQuote(drafts[n].evidence[k].quote)
    BY <1>5, Zenon DEF Disclosed
  <2> QED BY <2>1, GroundingDiscloses
<1>11. Declared(r, c, t)
  BY <1>9, <1>10 DEF Declared
<1> QED BY <1>6, <1>7, <1>8, <1>11 DEF TaskInv

LEMMA AnalyseStep ==
    ASSUME Inv, NoneIsNoInsight, NEW p \in Tasks, Analyse(p) PROVE Inv'
<1>1. PICK r \in Run, c \in scenario.categories : p = <<r, c>>
  BY DEF Tasks
<1> DEFINE old == task[r][c]
<1>2. old.phase = "analysing" /\ UNCHANGED <<scenario, now, stage, cache>> /\ p[1] = r /\ p[2] = c
  BY <1>1 DEF Analyse, Phase
<1>3. /\ IsTask(old) /\ DOMAIN old = TaskFields /\ Busy(old)
      /\ \A i \in 1 .. Len(old.searches) : old.searches[i].state \notin {"waiting", "flying"}
      /\ CacheInv' /\ Shape
  BY <1>2, GoesOn, CacheKept DEF Inv
<1>4. ASSUME NEW error, error # None, NEW t, task' = [task EXCEPT ![r][c] = t],
             error = "ProviderQuotaError" => "ProviderQuotaError" \in scenario.errors,
             DOMAIN t = TaskFields, t.phase = "done", t.report = FailedReport(c, r, error),
             t.searches = old.searches
      PROVE  Inv'
  <2>1. IsTask(t)
    BY <1>3, <1>4 DEF IsTask
  <2>2. TaskInv(r, c, t) /\ t.phase # "absent"
    BY <1>3, <1>4, <2>1, GivesUp
  <2> QED BY <1>2, <1>3, <1>4, <2>2, QuietStep
<1>5. CASE \E error \in scenario.errors :
              SetTask(p, [old EXCEPT !.phase = "done", !.report = FailedReport(c, r, error)])
  <2>1. PICK error \in scenario.errors :
              SetTask(p, [old EXCEPT !.phase = "done", !.report = FailedReport(c, r, error)])
    BY <1>5
  <2>2. PICK t : t = [old EXCEPT !.phase = "done", !.report = FailedReport(c, r, error)]
    OBVIOUS
  <2>3. task' = [task EXCEPT ![r][c] = t] /\ error # None
    BY <1>2, <1>3, <2>1, <2>2, ResearchConstants DEF SetTask, Shape
  <2>4. DOMAIN t = TaskFields /\ t.phase = "done" /\ t.report = FailedReport(c, r, error)
        /\ t.searches = old.searches
    BY <1>3, <2>2 DEF TaskFields
  <2> QED BY <1>4, <2>1, <2>3, <2>4
<1>6. ASSUME NEW drafts, NEW shown, shown = ShownSources(old.report.sources),
             SetTask(p, AnalysedTask(p, old, drafts, GroundAnalysis(c, drafts, shown)))
      PROVE  Inv'
  <2>1. PICK insights : insights = GroundAnalysis(c, drafts, shown)
    OBVIOUS
  <2>2. PICK coverage : coverage = CoverageStatus(insights, Cardinality(DimensionsOf(c, Brief(r))))
    OBVIOUS
  <2>3. PICK t : t = AnalysedTask(p, old, drafts, insights)
    OBVIOUS
  <2>4. task' = [task EXCEPT ![r][c] = t]
    BY <1>2, <1>6, <2>1, <2>3 DEF SetTask
  <2>5. CASE insights = None
    <3>1. t = [[old EXCEPT !.phase = "done", !.report = FailedReport(c, r, "ProviderResponseError")]
               EXCEPT !.drafts = [given |-> drafts, shown |-> shown]]
      BY <1>2, <1>6, <2>3, <2>5 DEF AnalysedTask
    <3>2. DOMAIN t = TaskFields /\ t.phase = "done" /\ t.report = FailedReport(c, r, "ProviderResponseError")
          /\ t.searches = old.searches
      BY <1>3, <3>1 DEF TaskFields
    <3>3. "ProviderResponseError" # None /\ "ProviderResponseError" # "ProviderQuotaError"
      BY ResearchConstants
    <3> QED BY <1>4, <2>4, <3>2, <3>3
  <2>6. CASE insights # None
    <3>1. t = [Reported(old, [old.report EXCEPT !.analysis = insights, !.coverage = coverage,
                                 !.limitations = Limitations(drafts, shown)])
               EXCEPT !.drafts = [given |-> drafts, shown |-> shown]]
      BY <1>2, <1>6, <2>2, <2>3, <2>6 DEF AnalysedTask
    <3>2. PICK report : report = [old.report EXCEPT !.analysis = insights, !.coverage = coverage,
                                     !.limitations = Limitations(drafts, shown)]
      OBVIOUS
    <3>3. DOMAIN old.report = ReportFields /\ Evidence(r, c, old.report)
      BY <1>2, GoesOn
    <3>4. /\ DOMAIN report = ReportFields /\ report.analysis = insights
          /\ report.limitations = Limitations(drafts, shown)
          /\ \A f \in ReportFields \ {"analysis", "coverage", "limitations"} : report[f] = old.report[f]
      BY <3>2, <3>3 DEF ReportFields
    <3>5. report.status = "succeeded"
      BY <3>3, <3>4 DEF ReportFields, Evidence
    <3>6. /\ DOMAIN t = TaskFields /\ t.phase = "storing" /\ t.searches = old.searches
          /\ t.deadline = old.deadline /\ t.report = report
          /\ t.drafts = [given |-> drafts, shown |-> shown]
      BY <1>3, <3>1, <3>2, <3>5 DEF TaskFields, Reported
    <3>7. TaskInv(r, c, t)
      BY <1>2, <2>1, <2>6, <3>4, <3>6, AnalysedReport
    <3> QED BY <1>2, <1>3, <2>4, <3>6, <3>7, QuietStep
  <2> QED BY <2>5, <2>6
<1>7. \/ \E error \in scenario.errors :
            SetTask(p, [old EXCEPT !.phase = "done", !.report = FailedReport(c, r, error)])
      \/ \E drafts : SetTask(p, AnalysedTask(p, old, drafts,
                                             GroundAnalysis(c, drafts, ShownSources(old.report.sources))))
  BY <1>2 DEF Analyse
<1> QED BY <1>5, <1>6, <1>7

LEMMA StoreStep ==
    ASSUME Inv, NEW p \in Tasks, Store(p) PROVE Inv'
<1>1. PICK r \in Run, c \in scenario.categories : p = <<r, c>>
  BY DEF Tasks
<1> DEFINE old == task[r][c]
<1>2. old.phase = "storing" /\ UNCHANGED <<scenario, now, stage>> /\ p[1] = r /\ p[2] = c
      /\ SetTask(p, [old EXCEPT !.phase = "done"]) /\ (cache' = cache \/ SetCache(old.report))
  BY <1>1 DEF Store, Phase
<1>3. /\ IsTask(old) /\ DOMAIN old = TaskFields /\ Busy(old)
      /\ \A i \in 1 .. Len(old.searches) : old.searches[i].state \notin {"waiting", "flying"}
      /\ DOMAIN old.report = ReportFields /\ Evidence(r, c, old.report)
      /\ Named(r, c, old) /\ (old.drafts # None => Disclosed(old))
  BY <1>2, GoesOn
<1>4. CacheInv'
  BY <1>2, <1>3, CacheKept, CacheTakes DEF Inv, Evidence
<1>5. PICK t : t = [old EXCEPT !.phase = "done"]
  OBVIOUS
<1>6. task' = [task EXCEPT ![r][c] = t]
  BY <1>2, <1>5 DEF SetTask
<1>7. DOMAIN t = TaskFields /\ t.phase = "done" /\ t.report = old.report /\ t.searches = old.searches
      /\ t.drafts = old.drafts
  BY <1>3, <1>5 DEF TaskFields
<1>8. IsTask(t) /\ Swept(t) /\ Timed(r, t)
  BY <1>3, <1>7 DEF IsTask, Swept, Timed, Busy
<1>9. Reporting(r, c, t)
  BY <1>3, <1>7 DEF Reporting, Evidence, Statuses
<1>10. Declared(r, c, t)
  <2>1. Named(r, c, t)
    BY <1>3, <1>7 DEF Named
  <2>2. ASSUME t.drafts # None PROVE Disclosed(t)
    <3>1. Disclosed(old)
      BY <1>3, <1>7, <2>2
    <3>2. t.drafts = old.drafts /\ t.report = old.report
      BY <1>7
    <3> HIDE DEF old
    <3> QED BY <3>1, <3>2 DEF Disclosed
  <2>3. t.phase \notin {"looking", "searching", "analysing"}
    BY <1>7
  <2> HIDE DEF old
  <2> QED BY <2>1, <2>2, <2>3 DEF Declared
<1>11. TaskInv(r, c, t) /\ t.phase # "absent"
  BY <1>7, <1>8, <1>9, <1>10 DEF TaskInv
<1>12. UNCHANGED <<scenario, now, stage>> /\ Busy(task[r][c])
  BY <1>2, <1>3
<1>13. ASSUME NEW i \in 1 .. Len(t.searches), t.searches[i].state = "flying" PROVE FALSE
  BY <1>3, <1>7, <1>13
<1> HIDE DEF old
<1> QED BY <1>4, <1>6, <1>11, <1>12, <1>13, QuietStep

\* A task that is given up holds no slot, whatever it waited for.
LEMMA TaskTimesOutStep ==
    ASSUME Inv, NEW p \in Tasks, TaskTimesOut(p) PROVE Inv'
<1>1. PICK r \in Run, c \in scenario.categories : p = <<r, c>>
  BY DEF Tasks
<1> DEFINE old == task[r][c]
<1>2. /\ Busy(old) /\ UNCHANGED <<scenario, now, stage>> /\ p[1] = r /\ p[2] = c
      /\ SetTask(p, [old EXCEPT !.phase = "done", !.report = FailedReport(c, r, "TimeoutError"),
                                !.searches = CancelSearches(old)])
      /\ (cache' = cache \/ (old.phase = "storing" /\ SetCache(old.report)))
  BY <1>1 DEF TaskTimesOut, Phase, Busy
<1>3. IsTask(old) /\ DOMAIN old = TaskFields /\ Len(old.searches) \in Nat
  BY DEF Inv, TaskInv, IsTask
<1>4. CacheInv'
  <2>1. CASE cache' = cache
    BY <2>1, CacheKept DEF Inv
  <2>2. CASE old.phase = "storing" /\ SetCache(old.report)
    <3>1. DOMAIN old.report = ReportFields /\ Evidence(r, c, old.report)
      BY <2>2, GoesOn
    <3> QED BY <2>2, <3>1, CacheTakes DEF Inv, Evidence
  <2> QED BY <1>2, <2>1, <2>2
<1>5. PICK searches : searches = CancelSearches(old)
  OBVIOUS
<1>6. Len(searches) = Len(old.searches) /\ DOMAIN searches = 1 .. Len(old.searches)
  <2>1. searches = [i \in 1 .. Len(old.searches) |-> searches[i]]
    BY <1>5 DEF CancelSearches
  <2> QED BY <1>3, <2>1, LengthOf
<1>7. ASSUME NEW i \in 1 .. Len(old.searches)
      PROVE  IsSearch(searches[i]) /\ searches[i].state \notin {"waiting", "flying"}
  <2>1. IsSearch(old.searches[i])
    BY <1>3 DEF IsTask
  <2>2. CASE old.searches[i].state \in {"waiting", "flying"}
    <3>1. searches[i] = [old.searches[i] EXCEPT !.state = "cancelled", !.since = 0]
      BY <1>5, <2>2 DEF CancelSearches
    <3>2. DOMAIN searches[i] = SearchFields /\ searches[i].state = "cancelled"
      BY <2>1, <3>1 DEF IsSearch, SearchFields
    <3> QED BY <3>2 DEF IsSearch
  <2>3. CASE old.searches[i].state \notin {"waiting", "flying"}
    BY <1>5, <2>1, <2>3 DEF CancelSearches
  <2> QED BY <2>2, <2>3
<1>8. PICK t : t = [old EXCEPT !.phase = "done", !.report = FailedReport(c, r, "TimeoutError"),
                               !.searches = searches]
  OBVIOUS
<1>9. task' = [task EXCEPT ![r][c] = t]
  BY <1>2, <1>5, <1>8 DEF SetTask
<1>10. DOMAIN t = TaskFields /\ t.phase = "done" /\ t.report = FailedReport(c, r, "TimeoutError")
       /\ t.searches = searches
  BY <1>3, <1>8 DEF TaskFields
<1>11. IsTask(t) /\ \A i \in 1 .. Len(t.searches) : t.searches[i].state \notin {"waiting", "flying"}
  BY <1>3, <1>6, <1>7, <1>10 DEF IsTask
<1>12. "TimeoutError" # None /\ "TimeoutError" # "ProviderQuotaError"
  BY ResearchConstants
<1>13. TaskInv(r, c, t) /\ t.phase # "absent"
  BY <1>10, <1>11, <1>12, GivesUp
<1> QED BY <1>2, <1>4, <1>9, <1>11, <1>13, QuietStep

----------------------------------------------------------------------------
(* The steps of a stage, and time. *)

\* A stage changes and the tasks stay as they are.
LEMMA StageChanges ==
    ASSUME Inv, NEW r \in Run, NEW new \in [phase: {"ended"}, at: {stage[r].at},
                                            outcome: {"refused", "result", "quota", "outage"}],
           stage' = [stage EXCEPT ![r] = new], UNCHANGED <<scenario, now, task, cache>>,
           \A c \in scenario.categories : ~ Busy(task[r][c]),
           new.outcome # "refused" =>
              /\ \A c \in scenario.categories : task[r][c].phase = "done"
              /\ new.outcome = OutcomeOf(r)
    PROVE  Inv'
<1>1. Shape /\ StageInTime /\ CacheInv
  BY DEF Inv
<1>2. stage'[r] = new /\ \A q \in Run : q # r => stage'[q] = stage[q]
  BY <1>1 DEF Shape
<1>3. Shape'
  BY <1>1 DEF Shape
<1>4. CacheInv'
  BY <1>1, CacheKept
<1>5. StageInTime'
  BY <1>1, <1>2 DEF StageInTime
<1>6. ASSUME NEW q \in Run PROVE StageInv(q)' /\ Cardinality(InFlight(q)') <= MaxConcurrency
  <2>1. StageInv(q) /\ Cardinality(InFlight(q)) <= MaxConcurrency
    BY DEF Inv
  <2>2. InFlight(q)' = InFlight(q) /\ OutcomeOf(q)' = OutcomeOf(q)
    BY DEF InFlight, OutcomeOf
  <2>3. StageInv(q)'
    BY <1>2, <2>1, <2>2 DEF StageInv
  <2> QED BY <2>1, <2>2, <2>3
<1>7. ASSUME NEW q \in Run, NEW d \in scenario.categories PROVE TaskInv(q, d, task[q][d])'
  <2>1. PICK u : u = task[q][d]
    OBVIOUS
  <2>2. TaskInv(q, d, u) /\ (q = r => ~ Busy(u)) /\ stage'[q].at = stage[q].at
    BY <1>2, <2>1 DEF Inv
  <2>3. Timed(q, u)'
    BY <1>2, <2>2 DEF TaskInv, Timed, Busy
  <2>4. IsTask(u)' /\ Swept(u)' /\ Reporting(q, d, u)' /\ Declared(q, d, u)'
    BY <2>2 DEF TaskInv, IsTask, IsSearch, Swept, Reporting, Evidence, Served, Broke, Declared,
                Named, Disclosed, Brief
  <2> QED BY <2>1, <2>3, <2>4 DEF TaskInv
<1> QED BY <1>3, <1>4, <1>5, <1>6, <1>7 DEF Inv

LEMMA EndStageStep ==
    ASSUME Inv, NEW r \in Run, EndStage(r) PROVE Inv'
<1>1. stage[r] \in [phase: {"new", "running", "ended"}, at: 0 .. LastStart,
                    outcome: {None, "refused", "result", "quota", "outage"}]
  BY DEF Inv, Shape
<1>2. PICK new : new = [stage[r] EXCEPT !.phase = "ended", !.outcome = OutcomeOf(r)]
  OBVIOUS
<1>3. OutcomeOf(r) \in {"result", "quota", "outage"}
  BY DEF OutcomeOf
<1>4. new \in [phase: {"ended"}, at: {stage[r].at}, outcome: {"refused", "result", "quota", "outage"}]
      /\ new.outcome = OutcomeOf(r)
  BY <1>1, <1>2, <1>3
<1>5. stage' = [stage EXCEPT ![r] = new]
  BY <1>2 DEF EndStage, Inv, Shape
<1>6. \A c \in scenario.categories : task[r][c].phase = "done" /\ ~ Busy(task[r][c])
  BY DEF EndStage, Busy
<1> QED BY <1>4, <1>5, <1>6, StageChanges DEF EndStage

LEMMA StartStageStep ==
    ASSUME Inv, NEW r \in Run, StartStage(r) PROVE Inv'
<1>1. /\ stage[r] \in [phase: {"new", "running", "ended"}, at: 0 .. LastStart,
                       outcome: {None, "refused", "result", "quota", "outage"}]
      /\ Shape /\ StageInTime /\ CacheInv
  BY DEF Inv, Shape
<1>2. stage[r].phase = "new" /\ stage[r].outcome = None /\ now <= LastStart /\ now \in Nat
      /\ UNCHANGED <<scenario, now, cache>>
  BY <1>1, ResearchConstants DEF StartStage, Inv, StageInv, Shape
<1>3. CASE ~ Brief(r).agrees
  <2>1. PICK new : new = [stage[r] EXCEPT !.phase = "ended", !.outcome = "refused"]
    OBVIOUS
  <2>2. new \in [phase: {"ended"}, at: {stage[r].at}, outcome: {"refused", "result", "quota", "outage"}]
        /\ new.outcome = "refused"
    BY <1>1, <2>1
  <2>3. stage' = [stage EXCEPT ![r] = new] /\ task' = task
    BY <1>1, <1>3, <2>1 DEF StartStage, Shape
  <2>4. \A c \in scenario.categories : ~ Busy(task[r][c])
    BY <1>2 DEF Inv, TaskInv, Timed
  <2> QED BY <1>2, <2>2, <2>3, <2>4, StageChanges
<1>4. CASE Brief(r).agrees
  <2>1. PICK new : new = [stage[r] EXCEPT !.phase = "running", !.at = now]
    OBVIOUS
  <2>2. new \in [phase: {"running"}, at: 0 .. LastStart, outcome: {None}]
        /\ new.phase = "running" /\ new.at = now /\ new.outcome = None
    <3>1. now \in 0 .. LastStart
      BY <1>2, ResearchConstants
    <3> QED BY <1>1, <1>2, <2>1, <3>1
  <2>3. PICK t : t = [NoTask EXCEPT !.phase = "looking", !.deadline = Deadline(r)]
    OBVIOUS
  <2>4. stage' = [stage EXCEPT ![r] = new] /\ task' = [task EXCEPT ![r] = [c \in scenario.categories |-> t]]
    BY <1>1, <1>4, <2>1, <2>3 DEF StartStage, Shape
  <2>5. /\ stage'[r] = new /\ \A q \in Run : q # r => stage'[q] = stage[q] /\ task'[q] = task[q]
        /\ DOMAIN task' = Run /\ task'[r] = [c \in scenario.categories |-> t]
    BY <1>1, <2>4 DEF Shape
  <2>6. Shape'
    BY <1>1, <1>2, <2>2, <2>4, <2>5 DEF Shape
  <2>7. CacheInv'
    BY <1>1, <1>2, CacheKept
  <2>8. StageInTime'
    BY <1>1, <1>2, <2>2, <2>5, ResearchConstants DEF StageInTime
  <2>9. /\ DOMAIN t = TaskFields /\ t.phase = "looking" /\ t.deadline = Deadline(r) /\ t.drafts = None
        /\ Len(t.searches) = 0 /\ DOMAIN t.searches = 1 .. Len(t.searches)
    BY <2>3 DEF NoTask, TaskFields
  <2>10. t.deadline = now + ToolTimeout /\ now <= t.deadline
    BY <1>2, <2>9, ResearchConstants DEF Deadline
  <2>11. ASSUME NEW q \in Run PROVE StageInv(q)' /\ Cardinality(InFlight(q)') <= MaxConcurrency
    <3>1. CASE q = r
      <4>1. StageInv(q)'
        BY <1>2, <2>2, <2>5, <2>9, <3>1, ResearchConstants DEF StageInv
      <4>2. InFlight(q)' = {}
        BY <1>2, <2>5, <2>9, <3>1 DEF InFlight
      <4> QED BY <4>1, <4>2, FS_EmptySet, ResearchConstants
    <3>2. CASE q # r
      <4>1. StageInv(q) /\ Cardinality(InFlight(q)) <= MaxConcurrency
        BY DEF Inv
      <4>2. InFlight(q)' = InFlight(q) /\ OutcomeOf(q)' = OutcomeOf(q)
        BY <1>2, <2>5, <3>2 DEF InFlight, OutcomeOf
      <4> QED BY <1>2, <2>5, <3>2, <4>1, <4>2 DEF StageInv
    <3> QED BY <3>1, <3>2
  <2>12. ASSUME NEW q \in Run, NEW d \in scenario.categories PROVE TaskInv(q, d, task[q][d])'
    <3>1. PICK u : u = task'[q][d]
      OBVIOUS
    <3>2. CASE q = r
      <4>1. u = t
        BY <2>5, <3>1, <3>2
      <4>2. IsTask(u)'
        BY <2>9, <4>1 DEF IsTask
      <4>3. Timed(q, u)'
        BY <1>2, <2>2, <2>5, <2>10, <3>2, <4>1 DEF Timed
      <4>4. Swept(u)' /\ Reporting(q, d, u)' /\ Declared(q, d, u)'
        BY <2>9, <4>1 DEF Swept, Reporting, Declared, Reporters
      <4> QED BY <3>1, <4>2, <4>3, <4>4 DEF TaskInv
    <3>3. CASE q # r
      <4>1. TaskInv(q, d, u) /\ stage'[q] = stage[q]
        BY <2>5, <3>1, <3>3 DEF Inv
      <4>2. TaskInv(q, d, u)'
        BY <1>2, <4>1 DEF TaskInv, IsTask, IsSearch, Timed, Busy, Swept, Reporting, Evidence, Served, Broke,
                          Declared, Named, Disclosed, Brief
      <4> QED BY <3>1, <4>2
    <3> QED BY <3>2, <3>3
  <2> QED BY <1>2, <2>6, <2>7, <2>8, <2>11, <2>12 DEF Inv
<1> QED BY <1>3, <1>4

\* Time stops at a deadline until what it bounds is over.
LEMMA TickStep ==
    ASSUME Inv, Tick PROVE Inv'
<1>1. Shape /\ StageInTime /\ CacheInv /\ now \in Nat /\ UNCHANGED <<scenario, stage, task>> /\ now' = now + 1
  BY ResearchConstants DEF Inv, Shape, Tick
<1>2. ASSUME NEW r \in Run, NEW c \in scenario.categories, Busy(task[r][c])
      PROVE  stage[r].phase = "running" /\ task[r][c].deadline = stage[r].at + ToolTimeout
             /\ now < task[r][c].deadline
  <2>1. <<r, c>> \in Tasks /\ Phase(<<r, c>>) \notin {"absent", "done"}
    BY <1>2 DEF Tasks, Phase, Busy
  <2>2. Waits(<<r, c>>)
    BY <2>1 DEF Tick
  <2> QED BY <1>2, <2>2 DEF Waits, Inv, TaskInv, Timed
<1>3. ASSUME NEW r \in Run, stage[r].phase = "running" PROVE now + 1 <= stage[r].at + ToolTimeout
  <2>1. PICK c \in scenario.categories : Phase(<<r, c>>) # "done"
    BY <1>3 DEF Tick
  <2>2. Busy(task[r][c])
    BY <1>3, <2>1 DEF Phase, Busy, Inv, StageInv, TaskInv, IsTask
  <2>3. stage[r].at \in Nat /\ ToolTimeout \in Nat
    BY <1>1, ResearchConstants DEF Shape
  <2> QED BY <1>1, <1>2, <2>2, <2>3
<1>4. now + 1 \in 0 .. LastStart + ToolTimeout
  <2>1. CASE now < LastStart
    BY <1>1, <2>1, ResearchConstants
  <2>2. CASE \E r \in Run : stage[r].phase = "running"
    <3>1. PICK r \in Run : stage[r].phase = "running"
      BY <2>2
    <3>2. stage[r].at \in 0 .. LastStart
      BY <1>1 DEF Shape
    <3> QED BY <1>1, <1>3, <3>1, <3>2, ResearchConstants
  <2> QED BY <2>1, <2>2 DEF Tick
<1>5. Shape'
  BY <1>1, <1>4 DEF Shape
<1>6. StageInTime'
  BY <1>1, <1>3 DEF StageInTime
<1>7. CacheInv'
  <2>1. \A k \in DOMAIN cache' : k \in DOMAIN cache /\ cache'[k] = cache[k]
    BY DEF Tick
  <2> QED BY <1>1, <2>1 DEF CacheInv
<1>8. ASSUME NEW q \in Run PROVE StageInv(q)' /\ Cardinality(InFlight(q)') <= MaxConcurrency
  <2>1. StageInv(q) /\ Cardinality(InFlight(q)) <= MaxConcurrency
    BY DEF Inv
  <2>2. InFlight(q)' = InFlight(q) /\ OutcomeOf(q)' = OutcomeOf(q)
    BY <1>1 DEF InFlight, OutcomeOf
  <2> QED BY <1>1, <2>1, <2>2 DEF StageInv
<1>9. ASSUME NEW q \in Run, NEW d \in scenario.categories PROVE TaskInv(q, d, task[q][d])'
  <2>1. PICK u : u = task[q][d]
    OBVIOUS
  <2>2. TaskInv(q, d, u)
    BY <2>1 DEF Inv
  <2>3. Timed(q, u)'
    <3>1. ASSUME Busy(u) PROVE stage[q].phase = "running" /\ u.deadline = stage[q].at + ToolTimeout
                               /\ now + 1 <= u.deadline
      <4>1. stage[q].at \in Nat /\ ToolTimeout \in Nat
        BY <1>1, ResearchConstants DEF Shape
      <4> QED BY <1>1, <1>2, <2>1, <3>1, <4>1
    <3> QED BY <1>1, <3>1 DEF Timed, Busy
  <2>4. IsTask(u)' /\ Swept(u)' /\ Reporting(q, d, u)' /\ Declared(q, d, u)'
    BY <1>1, <2>2 DEF TaskInv, IsTask, IsSearch, Swept, Reporting, Evidence, Served, Broke, Declared,
                      Named, Disclosed, Brief
  <2> QED BY <1>1, <2>1, <2>3, <2>4 DEF TaskInv
<1> QED BY <1>1, <1>5, <1>6, <1>7, <1>8, <1>9 DEF Inv

LEMMA InitInv == Init => Inv
<1> SUFFICES ASSUME Init PROVE Inv
  OBVIOUS
<1>1. Shape
  BY ResearchConstants DEF Init, Shape
<1>2. CacheInv
  BY DEF Init, CacheInv
<1>3. StageInTime
  BY DEF Init, StageInTime
<1>4. ASSUME NEW r \in Run PROVE StageInv(r) /\ Cardinality(InFlight(r)) <= MaxConcurrency
  <2>1. StageInv(r)
    BY ResearchConstants DEF Init, StageInv
  <2>2. \A c \in scenario.categories : task[r][c].searches = <<>>
    BY DEF Init, NoTask
  <2>3. InFlight(r) = {}
    BY <2>2 DEF InFlight
  <2> QED BY <2>1, <2>3, FS_EmptySet, ResearchConstants
<1>5. ASSUME NEW r \in Run, NEW c \in scenario.categories PROVE TaskInv(r, c, task[r][c])
  <2>1. PICK t : t = task[r][c]
    OBVIOUS
  <2>2. DOMAIN t = TaskFields /\ t.phase = "absent" /\ Len(t.searches) = 0 /\ DOMAIN t.searches = 1 .. Len(t.searches)
    BY <2>1 DEF Init, NoTask, TaskFields
  <2> QED BY <2>1, <2>2 DEF TaskInv, IsTask, Timed, Busy, Swept, Reporting, Declared, Reporters
<1> QED BY <1>1, <1>2, <1>3, <1>4, <1>5 DEF Inv

LEMMA NextInv ==
    ASSUME NoneIsNoInsight, Inv, [Next]_vars PROVE Inv'
<1>1. CASE \E r \in Run : StartStage(r) \/ EndStage(r)
  BY <1>1, StartStageStep, EndStageStep
<1>2. CASE \E p \in Tasks : LookUp(p) \/ Collect(p) \/ Analyse(p) \/ Store(p) \/ TaskTimesOut(p)
  BY <1>2, LookUpStep, CollectStep, AnalyseStep, StoreStep, TaskTimesOutStep
<1>3. CASE \E p \in Tasks : \E i \in SearchesOf(p) :
              SearchAnswers(p, i) \/ SearchFails(p, i) \/ SearchTimesOut(p, i) \/ EnterGate(p, i)
  BY <1>3, SearchAnswersStep, SearchFailsStep, EnterGateStep
<1>4. CASE Tick
  BY <1>4, TickStep
<1>5. CASE UNCHANGED vars
  <2>1. UNCHANGED <<scenario, now, stage, task, cache>>
    BY <1>5 DEF vars
  <2>2. Shape' /\ CacheInv' /\ StageInTime'
    BY <2>1 DEF Inv, Shape, CacheInv, StageInTime
  <2>3. ASSUME NEW q \in Run PROVE StageInv(q)' /\ Cardinality(InFlight(q)') <= MaxConcurrency
    <3>1. StageInv(q) /\ Cardinality(InFlight(q)) <= MaxConcurrency
      BY DEF Inv
    <3>2. InFlight(q)' = InFlight(q) /\ OutcomeOf(q)' = OutcomeOf(q)
      BY <2>1 DEF InFlight, OutcomeOf
    <3> QED BY <2>1, <3>1, <3>2 DEF StageInv
  <2>4. ASSUME NEW q \in Run, NEW d \in scenario.categories PROVE TaskInv(q, d, task[q][d])'
    <3>1. PICK u : u = task[q][d]
      OBVIOUS
    <3>2. TaskInv(q, d, u)
      BY <3>1 DEF Inv
    <3>3. TaskInv(q, d, u)'
      BY <2>1, <3>2 DEF TaskInv, IsTask, IsSearch, Timed, Busy, Swept, Reporting, Evidence, Served, Broke,
                        Declared, Named, Disclosed, Brief
    <3> QED BY <2>1, <3>1, <3>3
  <2> QED BY <2>1, <2>2, <2>3, <2>4 DEF Inv
<1> QED BY <1>1, <1>2, <1>3, <1>4, <1>5 DEF Next, Loop

LEMMA AlwaysInv == NoneIsNoInsight => (Spec => []Inv)
<1> SUFFICES ASSUME NoneIsNoInsight PROVE Spec => []Inv
  OBVIOUS
<1>1. Inv /\ [Next]_vars => Inv'
  BY NextInv
<1> QED BY <1>1, InitInv, PTL DEF Spec

----------------------------------------------------------------------------
(* What follows. *)

\* A report in Reports is the report of a task that is over.
LEMMA ReportsAreOfTasks ==
    ASSUME NEW report \in Reports
    PROVE  \E r \in Run, c \in scenario.categories : task[r][c].phase = "done" /\ report = task[r][c].report
BY DEF Reports, Tasks, Phase

LEMMA InvContains == Inv => StageIsContained
<1> SUFFICES ASSUME Inv PROVE StageIsContained
  OBVIOUS
<1>1. TypeOK
  <2>1. \A report \in Reports : report.status \in Statuses
    BY ReportsAreOfTasks DEF Inv, TaskInv, Reporting, Reporters
  <2> QED BY <2>1 DEF TypeOK, Inv, Shape
<1>2. GateHolds
  <2>1. ASSUME NEW p \in Tasks, Phase(p) = "done", NEW i \in SearchesOf(p)
        PROVE  task[p[1]][p[2]].searches[i].state \notin {"waiting", "flying"}
    BY <2>1 DEF Tasks, Phase, SearchesOf, Inv, TaskInv, Swept, Reporters
  <2> QED BY <2>1 DEF GateHolds, Inv
<1> QED BY <1>1, <1>2 DEF StageIsContained, Inv

LEMMA InvCacheSound == Inv => CacheIsSound
<1> SUFFICES ASSUME Inv PROVE CacheIsSound
  OBVIOUS
<1>1. CacheHoldsEvidence
  BY DEF CacheHoldsEvidence, Inv, CacheInv
<1>2. ServedIsCurrent
  <2>1. SUFFICES ASSUME NEW r \in Run, NEW c \in scenario.categories, task[r][c].phase = "done",
                        task[r][c].report.cached
                 PROVE  Served(r, c, task[r][c].report)
    BY DEF ServedIsCurrent, Tasks, Phase, Served, Key
  <2> QED BY <2>1 DEF Inv, TaskInv, Reporting, Reporters
<1> QED BY <1>1, <1>2 DEF CacheIsSound

LEMMA InvHonest == Inv => StageIsHonest
<1> SUFFICES ASSUME Inv PROVE StageIsHonest
  OBVIOUS
<1>1. ASSUME NEW report \in Reports, report.status = "failed" PROVE Broke(report)
  BY <1>1, ReportsAreOfTasks DEF Inv, TaskInv, Reporting, Reporters
<1>2. ASSUME NEW r \in Run
      PROVE  LET broke == {c \in scenario.categories : Phase(<<r, c>>) = "done" /\ task[r][c].report.status = "failed"}
             IN  /\ stage[r].outcome = "result" => broke # scenario.categories
                 /\ stage[r].outcome \in {"quota", "outage"} => broke = scenario.categories
                 /\ stage[r].outcome = "quota" =>
                       "ProviderQuotaError" \in scenario.errors
                       /\ \E c \in broke : task[r][c].report.error = "ProviderQuotaError"
  <2> DEFINE broke == {c \in scenario.categories : Phase(<<r, c>>) = "done" /\ task[r][c].report.status = "failed"}
  <2>1. \A c \in scenario.categories : c \in broke <=> task[r][c].phase = "done" /\ task[r][c].report.status = "failed"
    BY DEF Phase
  <2>2. broke \subseteq scenario.categories
    OBVIOUS
  <2>3. \A c \in broke : Broke(task[r][c].report)
    BY <2>1, <2>2 DEF Inv, TaskInv, Reporting, Reporters
  <2> HIDE DEF broke
  <2>4. stage[r].outcome \in {"result", "quota", "outage"} =>
          /\ \A c \in scenario.categories : task[r][c].phase = "done"
          /\ stage[r].outcome = OutcomeOf(r)
    BY DEF Inv, StageInv
  <2>5. stage[r].outcome = "result" => broke # scenario.categories
    BY <2>1, <2>4 DEF OutcomeOf
  <2>6. stage[r].outcome \in {"quota", "outage"} => broke = scenario.categories
    BY <2>1, <2>2, <2>4 DEF OutcomeOf
  <2>7. stage[r].outcome = "quota" => \E c \in broke : task[r][c].report.error = "ProviderQuotaError"
    BY <2>4, <2>6 DEF OutcomeOf
  <2>8. stage[r].outcome = "quota" => "ProviderQuotaError" \in scenario.errors
    BY <2>3, <2>7 DEF Broke
  <2> QED BY <2>5, <2>6, <2>7, <2>8 DEF broke
<1>3. OutcomeIsHonest
  BY <1>1, <1>2 DEF OutcomeIsHonest, Broke
<1>4. LossesAreDeclared
  <2>1. SUFFICES ASSUME NEW p \in Tasks, Phase(p) = "done", task[p[1]][p[2]].report.status # "failed",
                        ~ task[p[1]][p[2]].report.cached
                 PROVE  /\ Named(p[1], p[2], task[p[1]][p[2]])
                        /\ task[p[1]][p[2]].drafts # None => Disclosed(task[p[1]][p[2]])
    BY Zenon DEF LossesAreDeclared, Named, Disclosed
  <2>2. PICK r \in Run, c \in scenario.categories : p = <<r, c>>
    BY DEF Tasks
  <2>3. TaskInv(r, c, task[r][c]) /\ task[r][c].phase = "done" /\ task[r][c].report.status # "failed"
        /\ ~ task[r][c].report.cached /\ p[1] = r /\ p[2] = c
    BY <2>1, <2>2 DEF Inv, Phase
  <2>4. task[r][c].report.cached = FALSE
    BY <2>3 DEF TaskInv, Reporting, Reporters
  <2>5. Named(r, c, task[r][c]) /\ (task[r][c].drafts # None => Disclosed(task[r][c]))
    BY <2>3, <2>4 DEF TaskInv, Declared, Reporters
  <2> QED BY <2>3, <2>5
<1> QED BY <1>3, <1>4 DEF StageIsHonest

\* However its searches hang, a stage keeps to its gate and to its time, and a task that
\* is over holds no slot: for every number of stages, categories and slots, and all
\* timeouts with the stage's no shorter than the tool's (service.py, guarded and _search).
THEOREM StageContained ==
    ASSUME NoneIsNoInsight PROVE Spec => []StageIsContained
<1>1. Spec => []Inv
  BY AlwaysInv
<1> QED BY <1>1, InvContains, PTL

\* Only evidence enters the cache the stages share, under its own query and place, and
\* what a stage is served from it had not expired when the stage began (_cache_get,
\* _cache_set), whatever timed out around the writing of it.
THEOREM CacheSound ==
    ASSUME NoneIsNoInsight PROVE Spec => []CacheIsSound
<1>1. Spec => []Inv
  BY AlwaysInv
<1> QED BY <1>1, InvCacheSound, PTL

\* A stage fails only when every category did, blames a spent allowance only when a
\* provider did, and names every dimension whose search failed and every observation
\* whose evidence was dropped (run, _failed_report, _limitations).
THEOREM StageHonest ==
    ASSUME NoneIsNoInsight PROVE Spec => []StageIsHonest
<1>1. Spec => []Inv
  BY AlwaysInv
<1> QED BY <1>1, InvHonest, PTL

----------------------------------------------------------------------------
(* Texts: loops over them, what contains what, and joined spans. *)

\* What a text is made of.
Word == DOMAIN Lexicon

\* Induction over a finite range, on a set of numbers.
LEMMA Counting ==
    ASSUME NEW N \in Nat, NEW T, 0 \in T, \A n \in 1 .. N : n - 1 \in T => n \in T
    PROVE  \A n \in 0 .. N : n \in T
<1> DEFINE A == {n \in 0 .. N : n \notin T}
<1>1. SUFFICES ASSUME A # {} PROVE FALSE
  OBVIOUS
<1>2. PICK x \in A : \A y \in A : x <= y
  <2>1. A \subseteq Nat
    OBVIOUS
  <2> HIDE DEF A
  <2> QED BY <1>1, <2>1, LeastNatural
<1>3. x # 0 /\ x \in 1 .. N /\ x - 1 \in 0 .. N
  BY <1>2
<1>4. x - 1 \in T
  BY <1>2, <1>3
<1> QED BY <1>2, <1>3, <1>4

\* A loop over 1 .. N that stays within what E says of each step, and a run of it.
Stepping(step, E, N) == \A n \in 1 .. N : \A x \in E[n - 1] : step[<<x, n>>] \in E[n]
RunOf(g, N, E, base, step) ==
    /\ g = [n \in 0 .. N |-> g[n]] /\ g[0] = base
    /\ \A n \in 0 .. N : g[n] \in E[n]
    /\ \A n \in 1 .. N : g[n] = step[<<g[n - 1], n>>]

\* A loop that keeps to E has a run, so the recursive function that states it is one.
LEMMA LoopExists ==
    ASSUME NEW N \in Nat, NEW E, NEW base, base \in E[0], NEW step, Stepping(step, E, N)
    PROVE  \E g : RunOf(g, N, E, base, step)
<1> DEFINE T == {m \in 0 .. N : \E g : RunOf(g, m, E, base, step)}
<1>1. 0 \in T
  <2>1. PICK g : g = [n \in 0 .. 0 |-> base]
    OBVIOUS
  <2>2. RunOf(g, 0, E, base, step)
    BY <2>1 DEF RunOf
  <2> QED BY <2>2
<1>2. ASSUME NEW m \in 1 .. N, m - 1 \in T PROVE m \in T
  <2>1. PICK g : RunOf(g, m - 1, E, base, step)
    BY <1>2
  <2>2. PICK h : h = [n \in 0 .. m |-> IF n = m THEN step[<<g[m - 1], m>>] ELSE g[n]]
    OBVIOUS
  <2>3. h = [n \in 0 .. m |-> h[n]] /\ h[0] = base
    BY <2>1, <2>2 DEF RunOf
  <2>4. g[m - 1] \in E[m - 1] /\ h[m] = step[<<g[m - 1], m>>] /\ h[m] \in E[m]
    BY <2>1, <2>2 DEF RunOf, Stepping
  <2>5. ASSUME NEW n \in 0 .. m PROVE h[n] \in E[n]
    BY <2>1, <2>2, <2>4 DEF RunOf
  <2>6. ASSUME NEW n \in 1 .. m PROVE h[n] = step[<<h[n - 1], n>>]
    <3>1. n - 1 \in 0 .. m /\ n - 1 # m /\ h[n - 1] = g[n - 1]
      BY <2>2
    <3>2. CASE n = m
      BY <2>4, <3>1, <3>2
    <3>3. CASE n # m
      <4>1. n \in 1 .. m - 1 /\ h[n] = g[n]
        BY <2>2, <3>3
      <4> QED BY <2>1, <3>1, <4>1 DEF RunOf
    <3> QED BY <3>2, <3>3
  <2>7. RunOf(h, m, E, base, step)
    BY <2>3, <2>5, <2>6 DEF RunOf
  <2> QED BY <2>7
<1> HIDE DEF T
<1>3. N \in T
  BY <1>1, <1>2, Counting
<1> QED BY <1>3 DEF T

\* What a concatenation is made of.
LEMMA ConcatenatedIn ==
    ASSUME NEW S, NEW texts, Len(texts) \in Nat, \A i \in 1 .. Len(texts) : texts[i] \in Seq(S)
    PROVE  Concatenated(texts) \in Seq(S)
<1> DEFINE N == Len(texts)
           E(i) == Seq(S)
           Then(x, i) == x \o texts[i]
           Step(f, i) == IF i = 0 THEN <<>> ELSE Then(f[i - 1], i)
           IsLoop(f) == f = [i \in 0 .. N |-> Step(f, i)]
           inv == [i \in 0 .. N |-> E(i)]
           step == [y \in (UNION {E(i) : i \in 0 .. N}) \X (1 .. N) |-> Then(y[1], y[2])]
<1>1. N \in Nat
  OBVIOUS
<1>2. <<>> \in E(0)
  OBVIOUS
<1>3. ASSUME NEW i \in 1 .. N, NEW x \in E(i - 1) PROVE Then(x, i) \in E(i)
  OBVIOUS
<1>4. PICK f : f = CHOOSE h : IsLoop(h)
  OBVIOUS
<1>5. Concatenated(texts) = f[N]
  BY <1>4 DEF Concatenated
<1> HIDE DEF Then, E, N
<1>6. Stepping(step, inv, N) /\ <<>> \in inv[0]
  <2>1. <<>> \in inv[0]
    BY <1>1, <1>2
  <2>2. ASSUME NEW i \in 1 .. N, NEW x \in inv[i - 1] PROVE step[<<x, i>>] \in inv[i]
    <3>1. i \in 0 .. N /\ i - 1 \in 0 .. N
      BY <1>1
    <3>2. x \in E(i - 1) /\ inv[i] = E(i)
      BY <3>1
    <3>3. <<x, i>> \in (UNION {E(n) : n \in 0 .. N}) \X (1 .. N)
      BY <3>1, <3>2
    <3>4. step[<<x, i>>] = Then(x, i)
      BY <3>3
    <3> QED BY <1>3, <3>2, <3>4
  <2> HIDE DEF step, inv
  <2> QED BY <2>1, <2>2 DEF Stepping
<1>7. PICK g : RunOf(g, N, inv, <<>>, step)
  <2> HIDE DEF step, inv
  <2> QED BY <1>1, <1>6, LoopExists
<1>8. ASSUME NEW i \in 1 .. N PROVE g[i] = Then(g[i - 1], i)
  <2>1. i - 1 \in 0 .. N
    BY <1>1
  <2>2. g[i - 1] \in E(i - 1)
    BY <1>7, <2>1 DEF RunOf
  <2>3. <<g[i - 1], i>> \in (UNION {E(n) : n \in 0 .. N}) \X (1 .. N)
    BY <2>1, <2>2
  <2>4. step[<<g[i - 1], i>>] = Then(g[i - 1], i)
    BY <2>3
  <2> QED BY <1>7, <2>4 DEF RunOf
<1>9. ASSUME NEW i \in 0 .. N PROVE g[i] = Step(g, i)
  <2>1. i = 0 \/ (i \in 1 .. N /\ i # 0)
    BY <1>1
  <2>2. g[0] = <<>>
    BY <1>7 DEF RunOf
  <2> QED BY <1>8, <2>1, <2>2
<1>10. IsLoop(g)
  <2> HIDE DEF Step
  <2> QED BY <1>7, <1>9 DEF RunOf
<1>11. IsLoop(f)
  <2> HIDE DEF IsLoop
  <2> QED BY <1>4, <1>10
<1>12. f[0] = <<>> /\ \A i \in 1 .. N : f[i] = Then(f[i - 1], i)
  <2>1. \A i \in 0 .. N : f[i] = Step(f, i)
    <3> HIDE DEF Step
    <3> QED BY <1>11
  <2> QED BY <1>1, <2>1
<1> DEFINE T == {i \in 0 .. N : f[i] \in E(i)}
<1>13. \A i \in 0 .. N : i \in T
  <2>1. 0 \in T
    BY <1>1, <1>2, <1>12
  <2>2. ASSUME NEW i \in 1 .. N, i - 1 \in T PROVE i \in T
    BY <1>1, <1>3, <1>12, <2>2
  <2> HIDE DEF T
  <2> QED BY <1>1, <2>1, <2>2, Counting
<1>14. f[N] \in E(N)
  BY <1>1, <1>13
<1> QED BY <1>5, <1>14 DEF N, E
\* A text holds another when it reads the same from some word on.
LEMMA ContainsWords ==
    ASSUME NEW text \in Seq(Word), NEW span \in Seq(Word)
    PROVE  ContainsText(text, span) <=>
              \E i \in 0 .. Len(text) - Len(span) : \A k \in 1 .. Len(span) : text[i + k] = span[k]
<1>1. ASSUME NEW i \in 0 .. Len(text) - Len(span)
      PROVE  SubSeq(text, i + 1, i + Len(span)) = span <=> \A k \in 1 .. Len(span) : text[i + k] = span[k]
  <2>1. PICK cut : cut = SubSeq(text, i + 1, i + Len(span))
    OBVIOUS
  <2>2. cut \in Seq(Word) /\ Len(cut) = Len(span)
    BY <2>1
  <2>4. ASSUME NEW k \in 1 .. Len(span) PROVE cut[k] = text[i + k]
    <3>1. k \in 1 .. ((i + Len(span)) - (i + 1) + 1) /\ i + 1 + k - 1 = i + k
      OBVIOUS
    <3> QED BY <2>1, <3>1
  <2>3. cut = span <=> \A k \in 1 .. Len(span) : cut[k] = span[k]
    BY <2>2
  <2> QED BY <2>1, <2>3, <2>4
<1> QED BY <1>1 DEF ContainsText

\* A part of a part of a text is a part of it.
LEMMA ContainsTransitive ==
    ASSUME NEW a \in Seq(Word), NEW b \in Seq(Word), NEW c \in Seq(Word), ContainsText(a, b), ContainsText(b, c)
    PROVE  ContainsText(a, c)
<1>1. PICK i \in 0 .. Len(a) - Len(b) : \A k \in 1 .. Len(b) : a[i + k] = b[k]
  BY ContainsWords
<1>2. PICK j \in 0 .. Len(b) - Len(c) : \A k \in 1 .. Len(c) : b[j + k] = c[k]
  BY ContainsWords
<1>3. i + j \in 0 .. Len(a) - Len(c)
  OBVIOUS
<1>4. ASSUME NEW k \in 1 .. Len(c) PROVE a[(i + j) + k] = c[k]
  <2>1. j + k \in 1 .. Len(b) /\ i + (j + k) = (i + j) + k
    OBVIOUS
  <2> QED BY <1>1, <1>2, <2>1
<1> QED BY <1>3, <1>4, ContainsWords

\* A span of a text is a part of it.
LEMMA ContainsPart ==
    ASSUME NEW text \in Seq(Word), NEW i \in 1 .. Len(text) + 1, NEW j \in 0 .. Len(text), i <= j + 1
    PROVE  SubSeq(text, i, j) \in Seq(Word) /\ ContainsText(text, SubSeq(text, i, j))
<1>1. PICK span : span = SubSeq(text, i, j)
  OBVIOUS
<1>2. span \in Seq(Word) /\ Len(span) = j - i + 1 /\ \A k \in 1 .. Len(span) : span[k] = text[(i - 1) + k]
  BY <1>1
<1>3. i - 1 \in 0 .. Len(text) - Len(span)
  BY <1>2
<1> QED BY <1>1, <1>2, <1>3, ContainsWords

\* A part of either half of a text is a part of the whole.
LEMMA ContainsEither ==
    ASSUME NEW a \in Seq(Word), NEW b \in Seq(Word), NEW c \in Seq(Word), ContainsText(a, c) \/ ContainsText(b, c)
    PROVE  a \o b \in Seq(Word) /\ ContainsText(a \o b, c)
<1>1. a \o b \in Seq(Word) /\ Len(a \o b) = Len(a) + Len(b)
      /\ (\A k \in 1 .. Len(a) : (a \o b)[k] = a[k]) /\ \A k \in 1 .. Len(b) : (a \o b)[Len(a) + k] = b[k]
  OBVIOUS
<1>2. CASE ContainsText(a, c)
  <2>1. PICK i \in 0 .. Len(a) - Len(c) : \A k \in 1 .. Len(c) : a[i + k] = c[k]
    BY <1>2, ContainsWords
  <2>2. i \in 0 .. Len(a \o b) - Len(c) /\ \A k \in 1 .. Len(c) : (a \o b)[i + k] = c[k]
    BY <1>1, <2>1
  <2> QED BY <1>1, <2>2, ContainsWords
<1>3. CASE ContainsText(b, c)
  <2>1. PICK i \in 0 .. Len(b) - Len(c) : \A k \in 1 .. Len(c) : b[i + k] = c[k]
    BY <1>3, ContainsWords
  <2>2. Len(a) + i \in 0 .. Len(a \o b) - Len(c)
    BY <1>1, <2>1
  <2>3. ASSUME NEW k \in 1 .. Len(c) PROVE (a \o b)[(Len(a) + i) + k] = c[k]
    <3>1. i + k \in 1 .. Len(b) /\ Len(a) + (i + k) = (Len(a) + i) + k
      BY <2>1
    <3> QED BY <1>1, <2>1, <3>1
  <2> QED BY <1>1, <2>2, <2>3, ContainsWords
<1> QED BY <1>2, <1>3

\* Spans that are joined make a text.
LEMMA JoinedWords ==
    ASSUME NEW text \in Seq(Word), NEW span \in Seq(Word), Seam \in Word
    PROVE  Joined(text, span) \in Seq(Word)
BY DEF Joined

\* What is not quoted across a seam is on one side of it.
LEMMA SeamSeparates ==
    ASSUME NEW text \in Seq(Word), NEW span \in Seq(Word), NEW q \in Seq(Word), Seam \in Word,
           Seam \notin WordsOf(q), q # <<>>, ContainsText(Joined(text, span), q)
    PROVE  ContainsText(text, q) \/ ContainsText(span, q)
<1>1. CASE text = <<>> \/ span = <<>>
  BY <1>1 DEF Joined
<1>2. CASE text # <<>> /\ span # <<>>
  <2>1. PICK seam \in Word : seam = Seam
    OBVIOUS
  <2>2. PICK whole : whole = (text \o <<seam>>) \o span
    OBVIOUS
  <2>3. whole \in Seq(Word) /\ Len(whole) = Len(text) + 1 + Len(span)
        /\ (\A k \in 1 .. Len(text) : whole[k] = text[k]) /\ whole[Len(text) + 1] = seam
        /\ \A k \in 1 .. Len(span) : whole[Len(text) + 1 + k] = span[k]
    BY <2>2
  <2>4. Joined(text, span) = whole
    BY <1>2, <2>1, <2>2 DEF Joined
  <2>5. PICK i \in 0 .. Len(whole) - Len(q) : \A k \in 1 .. Len(q) : whole[i + k] = q[k]
    BY <2>3, <2>4, ContainsWords
  <2>6. \A k \in 1 .. Len(q) : q[k] # seam
    BY <2>1 DEF WordsOf
  <2>7. i + Len(q) <= Len(text) \/ i >= Len(text) + 1
    <3>1. SUFFICES ASSUME i + Len(q) > Len(text), i < Len(text) + 1 PROVE FALSE
      BY <2>3
    <3>2. Len(text) + 1 - i \in 1 .. Len(q) /\ i + (Len(text) + 1 - i) = Len(text) + 1
      BY <3>1
    <3> QED BY <2>3, <2>5, <2>6, <3>2
  <2>8. CASE i + Len(q) <= Len(text)
    <3>1. i \in 0 .. Len(text) - Len(q)
      BY <2>3, <2>5, <2>8
    <3>2. ASSUME NEW k \in 1 .. Len(q) PROVE text[i + k] = q[k]
      <4>1. i + k \in 1 .. Len(text)
        BY <3>1
      <4> QED BY <2>3, <2>5, <4>1
    <3> QED BY <3>1, <3>2, ContainsWords
  <2>9. CASE i >= Len(text) + 1
    <3>1. PICK j : j = i - (Len(text) + 1)
      OBVIOUS
    <3>2. j \in 0 .. Len(span) - Len(q)
      BY <2>3, <2>5, <2>9, <3>1
    <3>3. ASSUME NEW k \in 1 .. Len(q) PROVE span[j + k] = q[k]
      <4>1. j + k \in 1 .. Len(span) /\ Len(text) + 1 + (j + k) = i + k
        BY <3>1, <3>2
      <4> QED BY <2>3, <2>5, <4>1
    <3> QED BY <3>2, <3>3, ContainsWords
  <2> QED BY <2>7, <2>8, <2>9
<1> QED BY <1>1, <1>2

\* Joined passages are words of a page and seams.
LEMMA JoinedIn ==
    ASSUME NEW spans, NEW count \in Nat, \A i \in 1 .. count : i \in DOMAIN spans => spans[i] \in Seq(Word),
           Seam \in Word
    PROVE  /\ JoinSpans(spans, count) \in Seq(Word)
            /\ \A q \in Seq(Word) : Seam \notin WordsOf(q) /\ ContainsText(JoinSpans(spans, count), q) /\ q # <<>> =>
                  \E k \in 1 .. count : k \in DOMAIN spans /\ ContainsText(spans[k], q)
<1> DEFINE N == count
           E(i) == {t \in Seq(Word) : \A q \in Seq(Word) :
                     Seam \notin WordsOf(q) /\ ContainsText(t, q) =>
                        q = <<>> \/ \E k \in 1 .. i : k \in DOMAIN spans /\ ContainsText(spans[k], q)}
           Then(x, i) == IF i \in DOMAIN spans THEN Joined(x, spans[i]) ELSE x
           Step(f, i) == IF i = 0 THEN <<>> ELSE Then(f[i - 1], i)
           IsLoop(f) == f = [i \in 0 .. N |-> Step(f, i)]
           inv == [i \in 0 .. N |-> E(i)]
           step == [y \in (UNION {E(i) : i \in 0 .. N}) \X (1 .. N) |-> Then(y[1], y[2])]
<1>1. N \in Nat
  OBVIOUS
<1>2. <<>> \in E(0)
  <2>1. ASSUME NEW q \in Seq(Word), ContainsText(<<>>, q) PROVE q = <<>>
    BY <2>1 DEF ContainsText
  <2> QED BY <2>1
<1>3. ASSUME NEW i \in 1 .. N, NEW x \in E(i - 1) PROVE Then(x, i) \in E(i)
  <2>1. CASE i \notin DOMAIN spans
    BY <2>1
  <2>2. CASE i \in DOMAIN spans
    <3>1. PICK s : s = spans[i]
      OBVIOUS
    <3>2. x \in Seq(Word) /\ s \in Seq(Word)
      BY <2>2, <3>1
    <3>3. Joined(x, s) \in Seq(Word)
      BY <3>2, JoinedWords
    <3>4. ASSUME NEW q \in Seq(Word), Seam \notin WordsOf(q), ContainsText(Joined(x, s), q), q # <<>>
          PROVE  ContainsText(x, q) \/ ContainsText(s, q)
      BY <3>2, <3>4, SeamSeparates
    <3> QED BY <2>2, <3>1, <3>3, <3>4
  <2> QED BY <2>1, <2>2
<1>4. PICK f : f = CHOOSE h : IsLoop(h)
  OBVIOUS
<1>5. JoinSpans(spans, count) = f[N]
  BY <1>4 DEF JoinSpans
<1> HIDE DEF Then, E, N
<1>6. Stepping(step, inv, N) /\ <<>> \in inv[0]
  <2>1. <<>> \in inv[0]
    BY <1>1, <1>2
  <2>2. ASSUME NEW i \in 1 .. N, NEW x \in inv[i - 1] PROVE step[<<x, i>>] \in inv[i]
    <3>1. i \in 0 .. N /\ i - 1 \in 0 .. N
      BY <1>1
    <3>2. x \in E(i - 1) /\ inv[i] = E(i)
      BY <3>1
    <3>3. <<x, i>> \in (UNION {E(n) : n \in 0 .. N}) \X (1 .. N)
      BY <3>1, <3>2
    <3>4. step[<<x, i>>] = Then(x, i)
      BY <3>3
    <3> QED BY <1>3, <3>2, <3>4
  <2> HIDE DEF step, inv
  <2> QED BY <2>1, <2>2 DEF Stepping
<1>7. PICK g : RunOf(g, N, inv, <<>>, step)
  <2> HIDE DEF step, inv
  <2> QED BY <1>1, <1>6, LoopExists
<1>8. ASSUME NEW i \in 1 .. N PROVE g[i] = Then(g[i - 1], i)
  <2>1. i - 1 \in 0 .. N
    BY <1>1
  <2>2. g[i - 1] \in E(i - 1)
    BY <1>7, <2>1 DEF RunOf
  <2>3. <<g[i - 1], i>> \in (UNION {E(n) : n \in 0 .. N}) \X (1 .. N)
    BY <2>1, <2>2
  <2>4. step[<<g[i - 1], i>>] = Then(g[i - 1], i)
    BY <2>3
  <2> QED BY <1>7, <2>4 DEF RunOf
<1>9. ASSUME NEW i \in 0 .. N PROVE g[i] = Step(g, i)
  <2>1. i = 0 \/ (i \in 1 .. N /\ i # 0)
    BY <1>1
  <2>2. g[0] = <<>>
    BY <1>7 DEF RunOf
  <2> QED BY <1>8, <2>1, <2>2
<1>10. IsLoop(g)
  <2> HIDE DEF Step
  <2> QED BY <1>7, <1>9 DEF RunOf
<1>11. IsLoop(f)
  <2> HIDE DEF IsLoop
  <2> QED BY <1>4, <1>10
<1>12. f[0] = <<>> /\ \A i \in 1 .. N : f[i] = Then(f[i - 1], i)
  <2>1. \A i \in 0 .. N : f[i] = Step(f, i)
    <3> HIDE DEF Step
    <3> QED BY <1>11
  <2> QED BY <1>1, <2>1
<1> DEFINE T == {i \in 0 .. N : f[i] \in E(i)}
<1>13. \A i \in 0 .. N : i \in T
  <2>1. 0 \in T
    BY <1>1, <1>2, <1>12
  <2>2. ASSUME NEW i \in 1 .. N, i - 1 \in T PROVE i \in T
    BY <1>1, <1>3, <1>12, <2>2
  <2> HIDE DEF T
  <2> QED BY <1>1, <2>1, <2>2, Counting
<1>14. f[N] \in E(N)
  BY <1>1, <1>13
<1> QED BY <1>5, <1>14 DEF N, E

\* A non-empty set of bounded numbers has its greatest.
LEMMA MaxIsMember ==
    ASSUME NEW n \in Nat, NEW A, A \subseteq 0 .. n, A # {}
    PROVE  Max(A) \in A
<1> DEFINE B == {n - x : x \in A}
<1>1. B \subseteq Nat /\ B # {}
  <2>1. ASSUME NEW x \in A PROVE n - x \in Nat
    OBVIOUS
  <2>2. PICK x : x \in A
    OBVIOUS
  <2> QED BY <2>1, <2>2
<1> HIDE DEF B
<1>2. PICK y \in B : \A z \in B : y <= z
  BY <1>1, LeastNatural
<1>3. PICK x \in A : y = n - x
  BY DEF B
<1>4. \A z \in A : n - z \in B
  BY DEF B
<1>5. \A z \in A : x >= z
  <2> TAKE z \in A
  <2>1. y <= n - z
    BY <1>2, <1>4
  <2>2. x \in Int /\ z \in Int
    OBVIOUS
  <2> QED BY <1>3, <2>1, <2>2
<1> QED BY <1>5 DEF Max

\* A cut text is the beginning of the text.
LEMMA CutIsPart ==
    ASSUME NEW text \in Seq(Word), NEW size \in Nat
    PROVE  Cut(text, size) \in Seq(Word) /\ ContainsText(text, Cut(text, size))
<1> DEFINE A == {i \in 0 .. Len(text) : Chars(SubSeq(text, 1, i)) <= size}
<1>1. 0 \in A
  <2>1. PICK empty : empty = SubSeq(text, 1, 0)
    OBVIOUS
  <2>2. empty = <<>>
    BY <2>1
  <2>3. Chars(empty) = 0
    BY <2>2 DEF Chars
  <2>4. Chars(empty) <= size /\ 0 \in 0 .. Len(text)
    BY <2>3
  <2> QED BY <2>1, <2>4
<1>2. A \subseteq 0 .. Len(text) /\ A # {} /\ Len(text) \in Nat
  BY <1>1
<1>3. PICK i : i = Max(A)
  OBVIOUS
<1>4. Cut(text, size) = SubSeq(text, 1, i)
  BY <1>3 DEF Cut
<1> HIDE DEF A
<1>5. i \in 0 .. Len(text)
  BY <1>2, <1>3, MaxIsMember
<1>6. 1 \in 1 .. Len(text) + 1 /\ 1 <= i + 1
  BY <1>5
<1> QED BY <1>4, <1>5, <1>6, ContainsPart

\* What a cut keeps is a part of the text.
LEMMA HeadIsPart ==
    ASSUME NEW text \in Seq(Word), NEW size
    PROVE  Head_(text, size) \in Seq(Word) /\ ContainsText(text, Head_(text, size))
<1> DEFINE A == {i \in 0 .. Len(text) : i = 0 \/ Chars(SubSeq(text, 1, i)) < size}
<1>1. A \subseteq 0 .. Len(text) /\ A # {} /\ Len(text) \in Nat
  BY 0 \in 0 .. Len(text)
<1>2. PICK i : i = Max(A)
  OBVIOUS
<1>3. CASE Chars(text) <= size
  <2>1. Head_(text, size) = text
    BY <1>3 DEF Head_
  <2>2. 0 \in 0 .. Len(text) - Len(text) /\ \A k \in 1 .. Len(text) : text[0 + k] = text[k]
    OBVIOUS
  <2> QED BY <2>1, <2>2, ContainsWords
<1>4. CASE ~ (Chars(text) <= size)
  <2>1. Head_(text, size) = SubSeq(text, 1, i)
    BY <1>2, <1>4 DEF Head_
  <2> HIDE DEF A
  <2>2. i \in 0 .. Len(text)
    BY <1>1, <1>2, MaxIsMember
  <2>3. 1 \in 1 .. Len(text) + 1 /\ 1 <= i + 1
    BY <2>2
  <2> QED BY <2>1, <2>2, <2>3, ContainsPart
<1> QED BY <1>3, <1>4

\* One window more, or one word more on the last.
LEMMA WindowGrows ==
    ASSUME NEW text \in Seq(Word), NEW i \in 1 .. Len(text), NEW j \in 1 .. i
    PROVE  /\ SubSeq(text, j, i - 1) \in Seq(Word) /\ Append(SubSeq(text, j, i - 1), text[i]) = SubSeq(text, j, i)
           /\ <<text[i]>> = SubSeq(text, i, i)
<1>1. PICK a, b : a = SubSeq(text, j, i - 1) /\ b = SubSeq(text, j, i)
  OBVIOUS
<1>2. a \in Seq(Word) /\ b \in Seq(Word) /\ Len(a) = i - j /\ Len(b) = i - j + 1
  BY <1>1
<1>3. /\ \A k \in 1 .. i - j : a[k] = text[j + k - 1]
      /\ \A k \in 1 .. i - j + 1 : b[k] = text[j + k - 1]
  BY <1>1
<1>4. Append(a, text[i]) \in Seq(Word) /\ Len(Append(a, text[i])) = i - j + 1
  BY <1>2
<1>5. ASSUME NEW k \in 1 .. i - j + 1 PROVE Append(a, text[i])[k] = b[k]
  <2>1. CASE k = i - j + 1
    BY <1>2, <1>3, <2>1
  <2>2. CASE k # i - j + 1
    <3>1. k \in 1 .. i - j
      BY <2>2
    <3> QED BY <1>2, <1>3, <3>1
  <2> QED BY <2>1, <2>2
<1>6. Append(a, text[i]) = b
  BY <1>2, <1>4, <1>5
<1>7. <<text[i]>> = SubSeq(text, i, i)
  OBVIOUS
<1> QED BY <1>1, <1>2, <1>6, <1>7

\* The passages of a text up to a word: those that are done, and the one that ends there.
Passage(text, i, w) ==
    /\ \A k \in 1 .. Len(w.done) : ContainsText(text, w.done[k])
    /\ \E j \in 1 .. i + 1 : w.current = SubSeq(text, j, i)

\* The states of cutting text into windows after its first i words.
Passages(text, i) == {w \in [done : Seq(Seq(Word)), current : Seq(Word)] : Passage(text, i, w)}

\* The windows of a page are passages of it.
LEMMA WindowsAreParts ==
    ASSUME NEW text \in Seq(Word)
    PROVE  /\ Windows(text) \in Seq(Seq(Word))
            /\ \A k \in 1 .. Len(Windows(text)) : ContainsText(text, Windows(text)[k])
<1> DEFINE N == Len(text)
           E(i) == Passages(text, i)
           Then(x, i) == IF x.current # <<>> /\ Chars(x.current) + Lexicon[text[i]].chars + 2 > WindowChars
                          THEN [done |-> Append(x.done, x.current), current |-> <<text[i]>>]
                          ELSE [x EXCEPT !.current = Append(@, text[i])]
           Step(f, i) == IF i = 0 THEN [done |-> <<>>, current |-> <<>>] ELSE Then(f[i - 1], i)
           IsLoop(f) == f = [i \in 0 .. N |-> Step(f, i)]
           inv == [i \in 0 .. N |-> E(i)]
           step == [y \in (UNION {E(i) : i \in 0 .. N}) \X (1 .. N) |-> Then(y[1], y[2])]
<1>1. N \in Nat
  OBVIOUS
<1>2. [done |-> <<>>, current |-> <<>>] \in E(0)
  <2>1. <<>> = SubSeq(text, 1, 0)
    OBVIOUS
  <2>2. <<>> \in Seq(Word) /\ <<>> \in Seq(Seq(Word)) /\ Len(<<>>) = 0 /\ 1 \in 1 .. 0 + 1
    OBVIOUS
  <2>3. PICK w : w = [done |-> <<>>, current |-> <<>>]
    OBVIOUS
  <2>4. w \in [done : Seq(Seq(Word)), current : Seq(Word)] /\ w.done = <<>> /\ w.current = <<>>
    BY <2>2, <2>3
  <2>5. Passage(text, 0, w)
    BY <2>1, <2>2, <2>4 DEF Passage
  <2> QED BY <2>3, <2>4, <2>5 DEF Passages
<1>3. ASSUME NEW i \in 1 .. N, NEW x \in E(i - 1) PROVE Then(x, i) \in E(i)
  <2>1. PICK j \in 1 .. i : x.current = SubSeq(text, j, i - 1)
    BY DEF Passages, Passage
  <2>2. /\ x.done \in Seq(Seq(Word)) /\ x.current \in Seq(Word) /\ DOMAIN x = {"done", "current"}
        /\ \A k \in 1 .. Len(x.done) : ContainsText(text, x.done[k])
    BY DEF Passages, Passage
  <2>3. x.current \in Seq(Word) /\ ContainsText(text, x.current)
    <3>1. j \in 1 .. Len(text) + 1 /\ i - 1 \in 0 .. Len(text) /\ j <= (i - 1) + 1
      OBVIOUS
    <3> QED BY <2>1, <3>1, ContainsPart
  <2>4. Append(x.current, text[i]) = SubSeq(text, j, i) /\ <<text[i]>> = SubSeq(text, i, i)
    BY <2>1, WindowGrows
  <2>5. Append(x.current, text[i]) \in Seq(Word) /\ <<text[i]>> \in Seq(Word)
    BY <2>3
  <2>6. PICK y : y = Append(x.done, x.current)
    OBVIOUS
  <2>7. y \in Seq(Seq(Word)) /\ \A k \in 1 .. Len(y) : ContainsText(text, y[k])
    BY <2>2, <2>3, <2>6
  <2>8. [done |-> y, current |-> <<text[i]>>] \in Passages(text, i)
    <3>1. PICK w : w = [done |-> y, current |-> <<text[i]>>]
      OBVIOUS
    <3>2. w \in [done : Seq(Seq(Word)), current : Seq(Word)] /\ w.done = y /\ w.current = SubSeq(text, i, i)
      BY <2>4, <2>5, <2>7, <3>1
    <3>3. Passage(text, i, w)
      BY <2>7, <3>2 DEF Passage
    <3> QED BY <3>1, <3>2, <3>3 DEF Passages  <2>9. PICK z : z = [x EXCEPT !.current = Append(x.current, text[i])]
    OBVIOUS
  <2>10. z \in Passages(text, i)
    <3>1. z \in [done : Seq(Seq(Word)), current : Seq(Word)] /\ z.done = x.done /\ z.current = SubSeq(text, j, i)
      BY <2>4, <2>5, <2>9 DEF Passages
    <3>2. Passage(text, i, z)
      BY <2>2, <3>1 DEF Passage
    <3> QED BY <3>1, <3>2 DEF Passages  <2> QED BY <2>6, <2>8, <2>9, <2>10
<1>4. PICK f : f = CHOOSE h : IsLoop(h)
  OBVIOUS
<1>5. Windows(text) = Append(f[N].done, f[N].current)
  BY <1>4 DEF Windows
<1> HIDE DEF Then, E, N
<1>6. Stepping(step, inv, N) /\ [done |-> <<>>, current |-> <<>>] \in inv[0]
  <2>1. [done |-> <<>>, current |-> <<>>] \in inv[0]
    BY <1>1, <1>2
  <2>2. ASSUME NEW i \in 1 .. N, NEW x \in inv[i - 1] PROVE step[<<x, i>>] \in inv[i]
    <3>1. i \in 0 .. N /\ i - 1 \in 0 .. N
      BY <1>1
    <3>2. x \in E(i - 1) /\ inv[i] = E(i)
      BY <3>1
    <3>3. <<x, i>> \in (UNION {E(n) : n \in 0 .. N}) \X (1 .. N)
      BY <3>1, <3>2
    <3>4. step[<<x, i>>] = Then(x, i)
      BY <3>3
    <3> QED BY <1>3, <3>2, <3>4
  <2> HIDE DEF step, inv
  <2> QED BY <2>1, <2>2 DEF Stepping
<1>7. PICK g : RunOf(g, N, inv, [done |-> <<>>, current |-> <<>>], step)
  <2> HIDE DEF step, inv
  <2> QED BY <1>1, <1>6, LoopExists
<1>8. ASSUME NEW i \in 1 .. N PROVE g[i] = Then(g[i - 1], i)
  <2>1. i - 1 \in 0 .. N
    BY <1>1
  <2>2. g[i - 1] \in E(i - 1)
    BY <1>7, <2>1 DEF RunOf
  <2>3. <<g[i - 1], i>> \in (UNION {E(n) : n \in 0 .. N}) \X (1 .. N)
    BY <2>1, <2>2
  <2>4. step[<<g[i - 1], i>>] = Then(g[i - 1], i)
    BY <2>3
  <2> QED BY <1>7, <2>4 DEF RunOf
<1>9. ASSUME NEW i \in 0 .. N PROVE g[i] = Step(g, i)
  <2>1. i = 0 \/ (i \in 1 .. N /\ i # 0)
    BY <1>1
  <2>2. g[0] = [done |-> <<>>, current |-> <<>>]
    BY <1>7 DEF RunOf
  <2> QED BY <1>8, <2>1, <2>2
<1>10. IsLoop(g)
  <2> HIDE DEF Step
  <2> QED BY <1>7, <1>9 DEF RunOf
<1>11. IsLoop(f)
  <2> HIDE DEF IsLoop
  <2> QED BY <1>4, <1>10
<1>12. f[0] = [done |-> <<>>, current |-> <<>>] /\ \A i \in 1 .. N : f[i] = Then(f[i - 1], i)
  <2>1. \A i \in 0 .. N : f[i] = Step(f, i)
    <3> HIDE DEF Step
    <3> QED BY <1>11
  <2> QED BY <1>1, <2>1
<1> DEFINE T == {i \in 0 .. N : f[i] \in E(i)}
<1>13. \A i \in 0 .. N : i \in T
  <2>1. 0 \in T
    BY <1>1, <1>2, <1>12
  <2>2. ASSUME NEW i \in 1 .. N, i - 1 \in T PROVE i \in T
    BY <1>1, <1>3, <1>12, <2>2
  <2> HIDE DEF T
  <2> QED BY <1>1, <2>1, <2>2, Counting
<1>14. f[N] \in E(N)
  BY <1>1, <1>13
<1> QED 
  <2>1. PICK w \in Passages(text, Len(text)) : Windows(text) = Append(w.done, w.current)
    BY <1>5, <1>14 DEF N, E
  <2>2. /\ w.done \in Seq(Seq(Word)) /\ w.current \in Seq(Word)
        /\ \A k \in 1 .. Len(w.done) : ContainsText(text, w.done[k])
    BY DEF Passages, Passage
  <2>3. PICK j \in 1 .. Len(text) + 1 : w.current = SubSeq(text, j, Len(text))
    BY DEF Passages, Passage
  <2>4. ContainsText(text, w.current)
    BY <2>3, ContainsPart
  <2> QED BY <2>1, <2>2, <2>4

\* The empty span is a part of every text.
LEMMA ContainsNothing ==
    ASSUME NEW text \in Seq(Word)
    PROVE  ContainsText(text, <<>>)
<1>1. <<>> \in Seq(Word) /\ 0 \in 0 .. Len(text) - Len(<<>>) /\ \A k \in 1 .. Len(<<>>) : text[0 + k] = <<>>[k]
  OBVIOUS
<1>2. PICK empty \in Seq(Word) : empty = <<>>
  BY <1>1
<1> QED BY <1>1, <1>2, ContainsWords

\* Every passage chosen is a window, or the beginning of one.
LEMMA TailIsOfWindows ==
    ASSUME NEW windows \in Seq(Seq(Word)), NEW ranked, NEW picked, NEW i \in 1 .. Len(windows),
           i \in DOMAIN TailOf(windows, ranked, picked)
    PROVE  /\ TailOf(windows, ranked, picked)[i] \in Seq(Word)
           /\ ContainsText(windows[i], TailOf(windows, ranked, picked)[i])
<1>1. PICK remaining : remaining = picked.budget - (IF picked.chosen = {} THEN 0 ELSE JoinCost)
  OBVIOUS
<1>2. PICK spans : spans = TailOf(windows, ranked, picked)
  OBVIOUS
<1>3. PICK dom : spans = [k \in dom |-> IF k \in picked.chosen THEN windows[k] ELSE Head_(windows[k], remaining)]
  BY <1>1, <1>2 DEF TailOf, WithTail
<1>4. spans[i] = windows[i] \/ spans[i] = Head_(windows[i], remaining)
  BY <1>2, <1>3
<1>5. PICK w \in Seq(Word) : w = windows[i]
  OBVIOUS
<1>6. Head_(w, remaining) \in Seq(Word) /\ ContainsText(w, Head_(w, remaining))
  BY HeadIsPart
<1>7. ContainsText(w, w)
  <2>1. 0 \in 0 .. Len(w) - Len(w) /\ \A k \in 1 .. Len(w) : w[0 + k] = w[k]
    OBVIOUS
  <2> QED BY <2>1, ContainsWords
<1> QED BY <1>2, <1>4, <1>5, <1>6, <1>7

\* What the model is shown of a page, between the seams, is on the page.
LEMMA ShownIsOfText ==
    ASSUME NEW text \in Seq(Word), NEW brief, Seam \in Word
    PROVE  /\ RelevantWindow(text, brief) \in Seq(Word)
           /\ \A q \in Seq(Word) :
                 Seam \notin WordsOf(q) /\ ContainsText(RelevantWindow(text, brief), q) => ContainsText(text, q)
<1>1. CASE Chars(text) <= AnalysisExcerptLimit
  BY <1>1 DEF RelevantWindow
<1>2. CASE ~ (Chars(text) <= AnalysisExcerptLimit)
  <2>1. PICK windows : windows = Windows(text)
    OBVIOUS
  <2>2. windows \in Seq(Seq(Word)) /\ \A k \in 1 .. Len(windows) : ContainsText(text, windows[k])
    BY <2>1, WindowsAreParts
  <2>3. PICK ranked : ranked = Ranked([i \in 1 .. Len(windows) |-> WindowScore(windows[i], brief)])
    OBVIOUS
  <2>4. PICK picked : picked = Picked(windows, ranked)
    OBVIOUS
  <2>5. PICK spans : spans = TailOf(windows, ranked, picked)
    OBVIOUS
  <2>6. RelevantWindow(text, brief) = JoinSpans(spans, Len(windows))
    BY <1>2, <2>1, <2>3, <2>4, <2>5 DEF RelevantWindow, BestSpans, SelectSpans
  <2>7. ASSUME NEW i \in 1 .. Len(windows), i \in DOMAIN spans
        PROVE  spans[i] \in Seq(Word) /\ ContainsText(windows[i], spans[i])
    BY <2>2, <2>5, <2>7, TailIsOfWindows
  <2>8. Len(windows) \in Nat
    BY <2>2
  <2>9. /\ JoinSpans(spans, Len(windows)) \in Seq(Word)
        /\ \A q \in Seq(Word) : Seam \notin WordsOf(q) /\ ContainsText(JoinSpans(spans, Len(windows)), q) /\ q # <<>> =>
              \E k \in 1 .. Len(windows) : k \in DOMAIN spans /\ ContainsText(spans[k], q)
    <3>1. PICK count \in Nat : count = Len(windows)
      BY <2>8
    <3>2. \A i \in 1 .. count : i \in DOMAIN spans => spans[i] \in Seq(Word)
      BY <2>7, <3>1
    <3> QED BY <3>1, <3>2, JoinedIn
  <2>10. ASSUME NEW q \in Seq(Word), Seam \notin WordsOf(q), ContainsText(JoinSpans(spans, Len(windows)), q)
         PROVE  ContainsText(text, q)
    <3>1. CASE q = <<>>
      BY <3>1, ContainsNothing
    <3>2. CASE q # <<>>
      <4>1. PICK k \in 1 .. Len(windows) : k \in DOMAIN spans /\ ContainsText(spans[k], q)
        BY <2>9, <2>10, <3>2
      <4>2. PICK w, v : w = windows[k] /\ v = spans[k]
        OBVIOUS
      <4>3. w \in Seq(Word) /\ v \in Seq(Word) /\ ContainsText(w, v) /\ ContainsText(v, q) /\ ContainsText(text, w)
        BY <2>2, <2>7, <4>1, <4>2
      <4> QED BY <4>3, ContainsTransitive
    <3> QED BY <3>1, <3>2
  <2> QED BY <2>6, <2>9, <2>10
<1> QED BY <1>1, <1>2

----------------------------------------------------------------------------
(* Sources: what is made of the pages, merged and ranked. *)

\* The addresses of the pages that searches may find.
Addresses ==
    UNION {UNION {{p.results[i].url : i \in 1 .. Len(p.results)} : p \in s.responses} : s \in Scenarios}

\* The scale of a source's quality.
Scale == 0 .. 10000

\* A page a search may find, and a source made of one for some of the dimensions.
IsPage(result) ==
    /\ result.url \in Addresses /\ result.title \in Seq(Word)
    /\ Len(result.body) \in Nat /\ \A i \in 1 .. Len(result.body) : result.body[i].words \in Seq(Word)
Sources(dims) ==
    [url : Addresses, title : Seq(Word), excerpt : Seq(Word), quality : Scale, dimensions : SUBSET dims]
Distinct(dims) ==
    {x \in Seq(Sources(dims)) : \A i, j \in 1 .. Len(x) : x[i].url = x[j].url => i = j}

\* An authority score is one of classify_source's kinds.
LEMMA AuthorityIn ==
    ASSUME NEW marks
    PROVE  AuthorityScore(ClassifySource(marks)) \in 45 .. 95
<1> DEFINE Types == {"government", "official_platform", "social_post", "marketplace", "industry_report",
                     "news_or_editorial", "blog_or_guide", "business_or_organization"}
           fits == {i \in 1 .. Len(SourceTypes) : SourceTypes[i] \in marks}
<1>1. Len(SourceTypes) = 7 /\ \A i \in 1 .. 7 : SourceTypes[i] \in Types
  BY DEF SourceTypes
<1>2. PICK type : type = ClassifySource(marks)
  OBVIOUS
<1>3. type \in Types
  <2>1. CASE fits = {}
    BY <1>2, <2>1 DEF ClassifySource
  <2>2. CASE fits # {}
    <3>1. type = SourceTypes[Min(fits)]
      BY <1>2, <2>2 DEF ClassifySource
    <3>2. fits \subseteq Nat /\ fits \subseteq 1 .. 7
      BY <1>1
    <3> HIDE DEF fits
    <3>3. Min(fits) \in fits
      BY <2>2, <3>2, MinIsMember
    <3> QED BY <1>1, <3>1, <3>2, <3>3
  <2> QED BY <2>1, <2>2
<1>4. AuthorityScore(type) \in 45 .. 95
  <2>1. CASE type \in {"government", "official_platform"}
    BY <2>1 DEF AuthorityScore
  <2>2. CASE type = "industry_report"
    BY <2>2 DEF AuthorityScore
  <2>3. CASE type = "business_or_organization"
    BY <2>3 DEF AuthorityScore
  <2>4. CASE type = "news_or_editorial"
    BY <2>4 DEF AuthorityScore
  <2>5. CASE type = "social_post"
    BY <2>5 DEF AuthorityScore
  <2>6. CASE type = "marketplace"
    BY <2>6 DEF AuthorityScore
  <2>7. CASE type = "blog_or_guide"
    BY <2>7 DEF AuthorityScore
  <2> QED BY <1>3, <2>1, <2>2, <2>3, <2>4, <2>5, <2>6, <2>7
<1> QED BY <1>2, <1>4

\* composite_quality stays on the scale, with or without a known date.
LEMMA QualityIn ==
    ASSUME NEW relevance \in 30 .. 100, NEW authority \in 45 .. 95, NEW locality \in 20 .. 100, NEW published
    PROVE  CompositeQuality(relevance, authority, locality, published) \in Scale
<1>1. PICK weighted : weighted = relevance * 35 + authority * 30 + locality * 20
  OBVIOUS
<1>2. weighted \in 0 .. 8350
  BY <1>1
<1>3. CASE published = None
  <2>1. CompositeQuality(relevance, authority, locality, published) = (200 * weighted + 85) \div 170
    BY <1>1, <1>3 DEF CompositeQuality
  <2>2. (200 * weighted + 85) \div 170 \in Scale
    BY <1>2 DEF Scale
  <2> QED BY <2>1, <2>2
<1>4. CASE published # None
  <2>1. PICK fresh \in {20, 45, 70, 100} : fresh = FreshnessScore(published[1])
    BY DEF FreshnessScore
  <2>2. CompositeQuality(relevance, authority, locality, published) = weighted + fresh * 15
    BY <1>1, <1>4, <2>1 DEF CompositeQuality
  <2>3. fresh \in 0 .. 100
    OBVIOUS
  <2>4. weighted + fresh * 15 \in Scale
    BY ONLY <1>2, <2>3 DEF Scale
  <2> QED BY <2>2, <2>4
<1> QED BY <1>3, <1>4

\* What is readable of a page is a text.
LEMMA ReadableIn ==
    ASSUME NEW lines, Len(lines) \in Nat, \A i \in 1 .. Len(lines) : lines[i].words \in Seq(Word)
    PROVE  ReadableText(lines) \in Seq(Word)
<1>1. PICK texts : texts = [i \in 1 .. Len(lines) |-> IF InMenu(lines, i) THEN <<>> ELSE lines[i].words]
  OBVIOUS
<1>2. Len(texts) = Len(lines)
  <2>1. texts = [i \in 1 .. Len(lines) |-> texts[i]]
    BY <1>1
  <2> QED BY <2>1, LengthOf
<1>3. \A i \in 1 .. Len(texts) : texts[i] \in Seq(Word)
  BY <1>1, <1>2
<1>4. Concatenated(texts) \in Seq(Word)
  BY <1>2, <1>3, ConcatenatedIn
<1> QED BY <1>1, <1>4 DEF ReadableText

\* source_from_result makes a source of a usable page.
LEMMA SourceIn ==
    ASSUME NEW result, IsPage(result), Usable(result), NEW dims, NEW dimension \in dims, NEW brief, ExcerptLimit \in Nat
    PROVE  SourceFromResult(result, dimension, brief) \in Sources(dims)
<1>1. PICK readable \in Seq(Word) : readable = ReadableText(result.body)
  BY ReadableIn DEF IsPage
<1>2. PICK excerpt \in Seq(Word) : excerpt = Cut(readable, ExcerptLimit)
  BY CutIsPart
<1>3. PICK authority \in 45 .. 95 : authority = AuthorityScore(ClassifySource(result.marks))
  BY AuthorityIn
<1>4. PICK locality \in 20 .. 100 : locality = LocalityScore(result.title \o excerpt, brief.place)
  BY DEF LocalityScore
<1>5. PICK relevance \in 30 .. 100 : relevance = result.score[1]
  BY DEF Usable, MinRelevance
<1>6. PICK quality \in Scale : quality = CompositeQuality(relevance, authority, locality, result.published)
  <2>1. PICK published : published = result.published
    OBVIOUS
  <2>2. CompositeQuality(relevance, authority, locality, published) \in Scale
    BY QualityIn
  <2> QED BY <2>1, <2>2
<1>7. SourceFromResult(result, dimension, brief) =
         [url |-> result.url, title |-> result.title, excerpt |-> excerpt, quality |-> quality,
          dimensions |-> {dimension}]
  BY <1>1, <1>2, <1>3, <1>4, <1>5, <1>6 DEF SourceFromResult
<1> QED BY <1>7 DEF Sources, IsPage

\* merge_source makes a source of two of one address.
LEMMA MergeIn ==
    ASSUME NEW dims, NEW old \in Sources(dims), NEW new \in Sources(dims), ExcerptLimit \in Nat
    PROVE  MergeSource(old, new) \in Sources(dims) /\ MergeSource(old, new).url = old.url
<1>1. /\ old.url \in Addresses /\ old.title \in Seq(Word) /\ old.excerpt \in Seq(Word) /\ old.quality \in Scale
      /\ old.dimensions \subseteq dims /\ DOMAIN old = {"url", "title", "excerpt", "quality", "dimensions"}
      /\ new.excerpt \in Seq(Word) /\ new.quality \in Scale /\ new.dimensions \subseteq dims
  BY DEF Sources
<1>2. PICK both \in Seq(Word) : both = old.excerpt \o new.excerpt
  <2>1. PICK a \in Seq(Word), b \in Seq(Word) : a = old.excerpt /\ b = new.excerpt
    BY <1>1
  <2>2. a \o b \in Seq(Word)
    OBVIOUS
  <2> QED BY <2>1, <2>2
<1>3. PICK excerpt \in Seq(Word) : excerpt = IF ContainsText(old.excerpt, new.excerpt) THEN old.excerpt
                                            ELSE Cut(both, ExcerptLimit)
  <2>1. Cut(both, ExcerptLimit) \in Seq(Word)
    BY CutIsPart
  <2> QED BY <1>1, <2>1
<1>4. PICK quality \in Scale : quality = IF new.quality > old.quality THEN new.quality ELSE old.quality
  BY <1>1
<1>5. PICK dimensions : dimensions = old.dimensions \cup new.dimensions
  OBVIOUS
<1>6. PICK merged : merged = [old EXCEPT !.dimensions = dimensions, !.excerpt = excerpt, !.quality = quality]
  OBVIOUS
<1>7. MergeSource(old, new) = merged
  BY <1>2, <1>3, <1>4, <1>5, <1>6 DEF MergeSource
<1>8. merged \in Sources(dims) /\ merged.url = old.url
  <2>1. dimensions \subseteq dims
    BY <1>1, <1>5
  <2>2. old \in [url : Addresses, title : Seq(Word), excerpt : Seq(Word), quality : Scale, dimensions : SUBSET dims]
    BY DEF Sources
  <2> QED BY <1>1, <1>6, <2>1, <2>2 DEF Sources
<1> QED BY <1>7, <1>8

\* A source of a new address keeps the sources distinct.
LEMMA AppendDistinct ==
    ASSUME NEW dims, NEW sources \in Distinct(dims), NEW new \in Sources(dims),
           \A i \in 1 .. Len(sources) : sources[i].url # new.url
    PROVE  Append(sources, new) \in Distinct(dims)
<1>1. sources \in Seq(Sources(dims)) /\ \A i, j \in 1 .. Len(sources) : sources[i].url = sources[j].url => i = j
  BY DEF Distinct
<1>2. PICK more : more = Append(sources, new)
  OBVIOUS
<1>3. more \in Seq(Sources(dims)) /\ Len(more) = Len(sources) + 1 /\ more[Len(sources) + 1] = new
      /\ \A i \in 1 .. Len(sources) : more[i] = sources[i]
  BY <1>1, <1>2
<1>4. ASSUME NEW i \in 1 .. Len(more), NEW j \in 1 .. Len(more), more[i].url = more[j].url PROVE i = j
  <2>1. (i \in 1 .. Len(sources) \/ i = Len(sources) + 1) /\ (j \in 1 .. Len(sources) \/ j = Len(sources) + 1)
    BY <1>1, <1>3
  <2> QED BY <1>1, <1>3, <1>4, <2>1
<1> QED BY <1>2, <1>3, <1>4 DEF Distinct

\* So does adding one, new or known.
LEMMA AddIn ==
    ASSUME NEW dims, NEW sources \in Distinct(dims), NEW new \in Sources(dims), ExcerptLimit \in Nat
    PROVE  AddSource(sources, new) \in Distinct(dims)
<1> DEFINE same == {i \in 1 .. Len(sources) : sources[i].url = new.url}
<1>1. sources \in Seq(Sources(dims)) /\ \A i, j \in 1 .. Len(sources) : sources[i].url = sources[j].url => i = j
  BY DEF Distinct
<1>2. CASE same = {}
  <2>1. AddSource(sources, new) = Append(sources, new)
    BY <1>2 DEF AddSource
  <2>2. \A i \in 1 .. Len(sources) : sources[i].url # new.url
    BY <1>2
  <2> QED BY <2>1, <2>2, AppendDistinct
<1>3. CASE same # {}
  <2>1. PICK i : i = CHOOSE k \in same : TRUE
    OBVIOUS
  <2>2. i \in 1 .. Len(sources)
    BY <1>3, <2>1
  <2>3. PICK merged : merged = MergeSource(sources[i], new)
    OBVIOUS
  <2>4. AddSource(sources, new) = [sources EXCEPT ![i] = merged]
    BY <1>3, <2>1, <2>3 DEF AddSource
  <2>5. merged \in Sources(dims) /\ merged.url = sources[i].url
    BY <1>1, <2>2, <2>3, MergeIn
  <2>6. PICK more : more = [sources EXCEPT ![i] = merged]
    OBVIOUS
  <2>7. more \in Seq(Sources(dims)) /\ Len(more) = Len(sources)
        /\ \A k \in 1 .. Len(sources) : more[k].url = sources[k].url
    BY <1>1, <2>2, <2>5, <2>6
  <2> QED BY <1>1, <2>4, <2>6, <2>7 DEF Distinct
<1> QED BY <1>2, <1>3

\* No sources are distinct sources.
LEMMA NoneDistinct ==
    ASSUME NEW dims
    PROVE  <<>> \in Distinct(dims)
BY DEF Distinct

\* Merging leaves one source for every address.
LEMMA MergedIn ==
    ASSUME NEW dims, NEW found \in Seq(Sources(dims)), ExcerptLimit \in Nat
    PROVE  MergedSources(found) \in Distinct(dims)
<1> DEFINE N == Len(found)
           E(i) == Distinct(dims)
           Then(x, i) == AddSource(x, found[i])
           Step(f, i) == IF i = 0 THEN <<>> ELSE Then(f[i - 1], i)
           IsLoop(f) == f = [i \in 0 .. N |-> Step(f, i)]
           inv == [i \in 0 .. N |-> E(i)]
           step == [y \in (UNION {E(i) : i \in 0 .. N}) \X (1 .. N) |-> Then(y[1], y[2])]
<1>1. N \in Nat
  OBVIOUS
<1>2. <<>> \in E(0)
  BY NoneDistinct
<1>3. ASSUME NEW i \in 1 .. N, NEW x \in E(i - 1) PROVE Then(x, i) \in E(i)
  <2>1. found[i] \in Sources(dims)
    OBVIOUS
  <2> QED BY <2>1, AddIn
<1>4. PICK f : f = CHOOSE h : IsLoop(h)
  OBVIOUS
<1>5. MergedSources(found) = f[N]
  BY <1>4 DEF MergedSources
<1> HIDE DEF Then, E, N
<1>6. Stepping(step, inv, N) /\ <<>> \in inv[0]
  <2>1. <<>> \in inv[0]
    BY <1>1, <1>2
  <2>2. ASSUME NEW i \in 1 .. N, NEW x \in inv[i - 1] PROVE step[<<x, i>>] \in inv[i]
    <3>1. i \in 0 .. N /\ i - 1 \in 0 .. N
      BY <1>1
    <3>2. x \in E(i - 1) /\ inv[i] = E(i)
      BY <3>1
    <3>3. <<x, i>> \in (UNION {E(n) : n \in 0 .. N}) \X (1 .. N)
      BY <3>1, <3>2
    <3>4. step[<<x, i>>] = Then(x, i)
      BY <3>3
    <3> QED BY <1>3, <3>2, <3>4
  <2> HIDE DEF step, inv
  <2> QED BY <2>1, <2>2 DEF Stepping
<1>7. PICK g : RunOf(g, N, inv, <<>>, step)
  <2> HIDE DEF step, inv
  <2> QED BY <1>1, <1>6, LoopExists
<1>8. ASSUME NEW i \in 1 .. N PROVE g[i] = Then(g[i - 1], i)
  <2>1. i - 1 \in 0 .. N
    BY <1>1
  <2>2. g[i - 1] \in E(i - 1)
    BY <1>7, <2>1 DEF RunOf
  <2>3. <<g[i - 1], i>> \in (UNION {E(n) : n \in 0 .. N}) \X (1 .. N)
    BY <2>1, <2>2
  <2>4. step[<<g[i - 1], i>>] = Then(g[i - 1], i)
    BY <2>3
  <2> QED BY <1>7, <2>4 DEF RunOf
<1>9. ASSUME NEW i \in 0 .. N PROVE g[i] = Step(g, i)
  <2>1. i = 0 \/ (i \in 1 .. N /\ i # 0)
    BY <1>1
  <2>2. g[0] = <<>>
    BY <1>7 DEF RunOf
  <2> QED BY <1>8, <2>1, <2>2
<1>10. IsLoop(g)
  <2> HIDE DEF Step
  <2> QED BY <1>7, <1>9 DEF RunOf
<1>11. IsLoop(f)
  <2> HIDE DEF IsLoop
  <2> QED BY <1>4, <1>10
<1>12. f[0] = <<>> /\ \A i \in 1 .. N : f[i] = Then(f[i - 1], i)
  <2>1. \A i \in 0 .. N : f[i] = Step(f, i)
    <3> HIDE DEF Step
    <3> QED BY <1>11
  <2> QED BY <1>1, <2>1
<1> DEFINE T == {i \in 0 .. N : f[i] \in E(i)}
<1>13. \A i \in 0 .. N : i \in T
  <2>1. 0 \in T
    BY <1>1, <1>2, <1>12
  <2>2. ASSUME NEW i \in 1 .. N, i - 1 \in T PROVE i \in T
    BY <1>1, <1>3, <1>12, <2>2
  <2> HIDE DEF T
  <2> QED BY <1>1, <2>1, <2>2, Counting
<1>14. f[N] \in E(N)
  BY <1>1, <1>13
<1> QED BY <1>5, <1>14 DEF N, E

\* Keeping the first of every address does, too.
LEMMA FirstIn ==
    ASSUME NEW dims, NEW found \in Seq(Sources(dims))
    PROVE  FirstSources(found) \in Distinct(dims)
<1> DEFINE N == Len(found)
           E(i) == Distinct(dims)
           Then(x, i) == IF \E k \in 1 .. Len(x) : x[k].url = found[i].url THEN x ELSE Append(x, found[i])
           Step(f, i) == IF i = 0 THEN <<>> ELSE Then(f[i - 1], i)
           IsLoop(f) == f = [i \in 0 .. N |-> Step(f, i)]
           inv == [i \in 0 .. N |-> E(i)]
           step == [y \in (UNION {E(i) : i \in 0 .. N}) \X (1 .. N) |-> Then(y[1], y[2])]
<1>1. N \in Nat
  OBVIOUS
<1>2. <<>> \in E(0)
  BY NoneDistinct
<1>3. ASSUME NEW i \in 1 .. N, NEW x \in E(i - 1) PROVE Then(x, i) \in E(i)
  <2>1. PICK new \in Sources(dims) : new = found[i]
    OBVIOUS
  <2>2. CASE \E k \in 1 .. Len(x) : x[k].url = found[i].url
    BY <2>2
  <2>3. CASE ~ \E k \in 1 .. Len(x) : x[k].url = found[i].url
    <3>1. \A k \in 1 .. Len(x) : x[k].url # new.url
      BY <2>1, <2>3
    <3>2. Append(x, new) \in Distinct(dims)
      BY <3>1, AppendDistinct
    <3> QED BY <2>1, <2>3, <3>2
  <2> QED BY <2>2, <2>3
<1>4. PICK f : f = CHOOSE h : IsLoop(h)
  OBVIOUS
<1>5. FirstSources(found) = f[N]
  BY <1>4 DEF FirstSources
<1> HIDE DEF Then, E, N
<1>6. Stepping(step, inv, N) /\ <<>> \in inv[0]
  <2>1. <<>> \in inv[0]
    BY <1>1, <1>2
  <2>2. ASSUME NEW i \in 1 .. N, NEW x \in inv[i - 1] PROVE step[<<x, i>>] \in inv[i]
    <3>1. i \in 0 .. N /\ i - 1 \in 0 .. N
      BY <1>1
    <3>2. x \in E(i - 1) /\ inv[i] = E(i)
      BY <3>1
    <3>3. <<x, i>> \in (UNION {E(n) : n \in 0 .. N}) \X (1 .. N)
      BY <3>1, <3>2
    <3>4. step[<<x, i>>] = Then(x, i)
      BY <3>3
    <3> QED BY <1>3, <3>2, <3>4
  <2> HIDE DEF step, inv
  <2> QED BY <2>1, <2>2 DEF Stepping
<1>7. PICK g : RunOf(g, N, inv, <<>>, step)
  <2> HIDE DEF step, inv
  <2> QED BY <1>1, <1>6, LoopExists
<1>8. ASSUME NEW i \in 1 .. N PROVE g[i] = Then(g[i - 1], i)
  <2>1. i - 1 \in 0 .. N
    BY <1>1
  <2>2. g[i - 1] \in E(i - 1)
    BY <1>7, <2>1 DEF RunOf
  <2>3. <<g[i - 1], i>> \in (UNION {E(n) : n \in 0 .. N}) \X (1 .. N)
    BY <2>1, <2>2
  <2>4. step[<<g[i - 1], i>>] = Then(g[i - 1], i)
    BY <2>3
  <2> QED BY <1>7, <2>4 DEF RunOf
<1>9. ASSUME NEW i \in 0 .. N PROVE g[i] = Step(g, i)
  <2>1. i = 0 \/ (i \in 1 .. N /\ i # 0)
    BY <1>1
  <2>2. g[0] = <<>>
    BY <1>7 DEF RunOf
  <2> QED BY <1>8, <2>1, <2>2
<1>10. IsLoop(g)
  <2> HIDE DEF Step
  <2> QED BY <1>7, <1>9 DEF RunOf
<1>11. IsLoop(f)
  <2> HIDE DEF IsLoop
  <2> QED BY <1>4, <1>10
<1>12. f[0] = <<>> /\ \A i \in 1 .. N : f[i] = Then(f[i - 1], i)
  <2>1. \A i \in 0 .. N : f[i] = Step(f, i)
    <3> HIDE DEF Step
    <3> QED BY <1>11
  <2> QED BY <1>1, <2>1
<1> DEFINE T == {i \in 0 .. N : f[i] \in E(i)}
<1>13. \A i \in 0 .. N : i \in T
  <2>1. 0 \in T
    BY <1>1, <1>2, <1>12
  <2>2. ASSUME NEW i \in 1 .. N, i - 1 \in T PROVE i \in T
    BY <1>1, <1>3, <1>12, <2>2
  <2> HIDE DEF T
  <2> QED BY <1>1, <2>1, <2>2, Counting
<1>14. f[N] \in E(N)
  BY <1>1, <1>13
<1> QED BY <1>5, <1>14 DEF N, E

\* A place in a ranking of n moves those behind it by one.
LEMMA RankInserted ==
    ASSUME NEW n \in Nat \ {0}, NEW x \in [1 .. n - 1 -> 1 .. n - 1], \A a, b \in 1 .. n - 1 : x[a] = x[b] => a = b,
           NEW ahead \in 0 .. n - 1, NEW y,
           y = [k \in 1 .. n |-> IF k <= ahead THEN x[k] ELSE IF k = ahead + 1 THEN n ELSE x[k - 1]]
    PROVE  y \in [1 .. n -> 1 .. n] /\ \A a, b \in 1 .. n : y[a] = y[b] => a = b
<1>1. ASSUME NEW k \in 1 .. n
      PROVE  \/ k <= ahead /\ k \in 1 .. n - 1 /\ y[k] = x[k] /\ y[k] \in 1 .. n - 1
             \/ k = ahead + 1 /\ y[k] = n
             \/ k > ahead + 1 /\ k - 1 \in 1 .. n - 1 /\ y[k] = x[k - 1] /\ y[k] \in 1 .. n - 1
  <2>1. CASE k <= ahead
    <3>1. k \in 1 .. n - 1 /\ y[k] = x[k]
      BY <2>1
    <3> QED BY <2>1, <3>1
  <2>2. CASE k = ahead + 1
    BY <2>2
  <2>3. CASE k > ahead + 1
    <3>1. k - 1 \in 1 .. n - 1 /\ y[k] = x[k - 1]
      BY <2>3
    <3> QED BY <2>3, <3>1
  <2> QED BY <2>1, <2>2, <2>3
<1>2. y \in [1 .. n -> 1 .. n]
  <2>1. \A k \in 1 .. n : y[k] \in 1 .. n
    BY <1>1
  <2> QED BY <2>1
<1>3. ASSUME NEW a \in 1 .. n, NEW b \in 1 .. n, y[a] = y[b] PROVE a = b
  BY <1>1, <1>3
<1> QED BY <1>2, <1>3

Ranking(n, o) == o \in [1 .. n -> 1 .. n] /\ \A a, b \in 1 .. n : o[a] = o[b] => a = b
Rankings(n) == {o \in [1 .. n -> 1 .. n] : Ranking(n, o)}

\* A ranking is a permutation.
LEMMA RankedIn ==
    ASSUME NEW scores, Len(scores) \in Nat
    PROVE  Ranking(Len(scores), Ranked(scores))
<1> DEFINE N == Len(scores)
           E(i) == Rankings(i)
           Then(x, i) == [k \in 1 .. i |->
                            IF k <= Cardinality({j \in 1 .. i - 1 : scores[x[j]] >= scores[i]}) THEN x[k]
                            ELSE IF k = Cardinality({j \in 1 .. i - 1 : scores[x[j]] >= scores[i]}) + 1 THEN i
                            ELSE x[k - 1]]
           Step(f, i) == IF i = 0 THEN <<>> ELSE Then(f[i - 1], i)
           IsLoop(f) == f = [i \in 0 .. N |-> Step(f, i)]
           inv == [i \in 0 .. N |-> E(i)]
           step == [y \in (UNION {E(i) : i \in 0 .. N}) \X (1 .. N) |-> Then(y[1], y[2])]
<1>1. N \in Nat
  OBVIOUS
<1>2. <<>> \in E(0)
  BY DEF Rankings, Ranking
<1>3. ASSUME NEW i \in 1 .. N, NEW x \in E(i - 1) PROVE Then(x, i) \in E(i)
  <2>1. PICK A : A = {j \in 1 .. i - 1 : scores[x[j]] >= scores[i]}
    OBVIOUS
  <2>2. IsFiniteSet(1 .. i - 1) /\ Cardinality(1 .. i - 1) = i - 1
    BY FS_Interval
  <2>3. Cardinality(A) \in 0 .. i - 1
    <3>1. A \subseteq 1 .. i - 1
      BY <2>1
    <3>2. IsFiniteSet(A) /\ Cardinality(A) <= i - 1
      BY <2>2, <3>1, FS_Subset
    <3> QED BY <3>2, FS_CardinalityType
  <2>4. PICK ahead \in 0 .. i - 1 : ahead = Cardinality(A)
    BY <2>3
  <2>5. PICK y : y = [k \in 1 .. i |-> IF k <= ahead THEN x[k] ELSE IF k = ahead + 1 THEN i ELSE x[k - 1]]
    OBVIOUS
  <2>6. Then(x, i) = y
    BY <2>1, <2>4, <2>5
  <2>7. y \in [1 .. i -> 1 .. i] /\ \A a, b \in 1 .. i : y[a] = y[b] => a = b
    <3>1. x \in [1 .. i - 1 -> 1 .. i - 1] /\ \A a, b \in 1 .. i - 1 : x[a] = x[b] => a = b
      BY DEF Rankings, Ranking
    <3>2. i \in Nat \ {0}
      OBVIOUS
    <3> QED BY <2>5, <3>1, <3>2, RankInserted
  <2> QED BY <2>6, <2>7 DEF Rankings, Ranking
<1>4. PICK f : f = CHOOSE h : IsLoop(h)
  OBVIOUS
<1>5. Ranked(scores) = f[N]
  BY <1>4 DEF Ranked
<1> HIDE DEF Then, E, N
<1>6. Stepping(step, inv, N) /\ <<>> \in inv[0]
  <2>1. <<>> \in inv[0]
    BY <1>1, <1>2
  <2>2. ASSUME NEW i \in 1 .. N, NEW x \in inv[i - 1] PROVE step[<<x, i>>] \in inv[i]
    <3>1. i \in 0 .. N /\ i - 1 \in 0 .. N
      BY <1>1
    <3>2. x \in E(i - 1) /\ inv[i] = E(i)
      BY <3>1
    <3>3. <<x, i>> \in (UNION {E(n) : n \in 0 .. N}) \X (1 .. N)
      BY <3>1, <3>2
    <3>4. step[<<x, i>>] = Then(x, i)
      BY <3>3
    <3> QED BY <1>3, <3>2, <3>4
  <2> HIDE DEF step, inv
  <2> QED BY <2>1, <2>2 DEF Stepping
<1>7. PICK g : RunOf(g, N, inv, <<>>, step)
  <2> HIDE DEF step, inv
  <2> QED BY <1>1, <1>6, LoopExists
<1>8. ASSUME NEW i \in 1 .. N PROVE g[i] = Then(g[i - 1], i)
  <2>1. i - 1 \in 0 .. N
    BY <1>1
  <2>2. g[i - 1] \in E(i - 1)
    BY <1>7, <2>1 DEF RunOf
  <2>3. <<g[i - 1], i>> \in (UNION {E(n) : n \in 0 .. N}) \X (1 .. N)
    BY <2>1, <2>2
  <2>4. step[<<g[i - 1], i>>] = Then(g[i - 1], i)
    BY <2>3
  <2> QED BY <1>7, <2>4 DEF RunOf
<1>9. ASSUME NEW i \in 0 .. N PROVE g[i] = Step(g, i)
  <2>1. i = 0 \/ (i \in 1 .. N /\ i # 0)
    BY <1>1
  <2>2. g[0] = <<>>
    BY <1>7 DEF RunOf
  <2> QED BY <1>8, <2>1, <2>2
<1>10. IsLoop(g)
  <2> HIDE DEF Step
  <2> QED BY <1>7, <1>9 DEF RunOf
<1>11. IsLoop(f)
  <2> HIDE DEF IsLoop
  <2> QED BY <1>4, <1>10
<1>12. f[0] = <<>> /\ \A i \in 1 .. N : f[i] = Then(f[i - 1], i)
  <2>1. \A i \in 0 .. N : f[i] = Step(f, i)
    <3> HIDE DEF Step
    <3> QED BY <1>11
  <2> QED BY <1>1, <2>1
<1> DEFINE T == {i \in 0 .. N : f[i] \in E(i)}
<1>13. \A i \in 0 .. N : i \in T
  <2>1. 0 \in T
    BY <1>1, <1>2, <1>12
  <2>2. ASSUME NEW i \in 1 .. N, i - 1 \in T PROVE i \in T
    BY <1>1, <1>3, <1>12, <2>2
  <2> HIDE DEF T
  <2> QED BY <1>1, <2>1, <2>2, Counting
<1>14. f[N] \in E(N)
  BY <1>1, <1>13
<1> QED BY <1>5, <1>14 DEF N, E, Rankings

\* The best sources are sources, each once.
LEMMA BestIn ==
    ASSUME NEW dims, NEW sources \in Distinct(dims), MaxSources \in Nat
    PROVE  BestFirst(sources) \in Distinct(dims)
<1>1. sources \in Seq(Sources(dims)) /\ \A i, j \in 1 .. Len(sources) : sources[i].url = sources[j].url => i = j
  BY DEF Distinct
<1>2. PICK n \in Nat : n = Len(sources)
  BY <1>1
<1>3. PICK scores : scores = [i \in 1 .. Len(sources) |-> sources[i].quality]
  OBVIOUS
<1>4. Len(scores) = n
  <2>1. scores = [i \in 1 .. n |-> scores[i]]
    BY <1>2, <1>3
  <2> QED BY <2>1, LengthOf
<1>5. PICK order : order = Ranked(scores)
  OBVIOUS
<1>6. order \in [1 .. n -> 1 .. n] /\ \A a, b \in 1 .. n : order[a] = order[b] => a = b
  BY <1>4, <1>5, RankedIn DEF Ranking
<1>7. PICK m \in 0 .. n : m = IF Len(sources) < MaxSources THEN Len(sources) ELSE MaxSources
  BY <1>2
<1>8. PICK best : best = [k \in 1 .. m |-> sources[order[k]]]
  OBVIOUS
<1>9. BestFirst(sources) = best
  BY <1>3, <1>5, <1>7, <1>8 DEF BestFirst
<1>10. \A k \in 1 .. m : k \in 1 .. n /\ order[k] \in 1 .. n /\ best[k] = sources[order[k]] /\ best[k] \in Sources(dims)
  BY <1>1, <1>2, <1>6, <1>8
<1>11. best \in [1 .. m -> Sources(dims)]
  BY <1>8, <1>10
<1>12. best \in Seq(Sources(dims)) /\ Len(best) = m
  BY <1>11
<1>13. \A i, j \in 1 .. m : best[i].url = best[j].url => i = j
  BY <1>1, <1>2, <1>6, <1>10
<1> QED BY <1>9, <1>12, <1>13 DEF Distinct

\* What the searches found, for the dimensions they answer.
Answers(dims, answer) ==
    /\ Len(answer.results) \in Nat /\ Len(answer.dimensions) \in Nat
    /\ \A r \in 1 .. Len(answer.results) :
          IsPage(answer.results[r]) /\ \A d \in 1 .. Len(answer.dimensions) : answer.dimensions[d] \in dims

\* The sources made of one result.
LEMMA ResultIn ==
    ASSUME NEW dims, NEW answer, Answers(dims, answer), NEW r \in 1 .. Len(answer.results), NEW brief, ExcerptLimit \in Nat
    PROVE  (IF ~ Usable(answer.results[r]) THEN <<>>
            ELSE [d \in 1 .. Len(answer.dimensions) |->
                   SourceFromResult(answer.results[r], answer.dimensions[d], brief)]) \in Seq(Sources(dims))
<1>1. CASE ~ Usable(answer.results[r])
  BY <1>1
<1>2. CASE Usable(answer.results[r])
  <2>1. PICK n \in Nat : n = Len(answer.dimensions)
    BY DEF Answers
  <2>2. PICK result : result = answer.results[r]
    OBVIOUS
  <2>3. PICK of : of = [d \in 1 .. n |-> SourceFromResult(result, answer.dimensions[d], brief)]
    OBVIOUS
  <2>4. ASSUME NEW d \in 1 .. n PROVE of[d] \in Sources(dims)
    <3>1. PICK dimension \in dims : dimension = answer.dimensions[d]
      BY <2>1 DEF Answers
    <3>2. SourceFromResult(result, dimension, brief) \in Sources(dims)
      BY <1>2, <2>2, SourceIn DEF Answers
    <3> QED BY <2>3, <3>1, <3>2
  <2>5. of \in [1 .. n -> Sources(dims)]
    BY <2>3, <2>4
  <2>6. of \in Seq(Sources(dims))
    BY <2>5
  <2> QED BY <1>2, <2>1, <2>2, <2>3, <2>6
<1> QED BY <1>1, <1>2

\* The sources made of all answers.
LEMMA FoundIn ==
    ASSUME NEW dims, NEW answers, Len(answers) \in Nat, \A a \in 1 .. Len(answers) : Answers(dims, answers[a]),
           NEW brief, ExcerptLimit \in Nat
    PROVE  FoundSources(answers, brief) \in Seq(Sources(dims))
<1> DEFINE Of(a, r) == IF ~ Usable(answers[a].results[r]) THEN <<>>
                       ELSE [d \in 1 .. Len(answers[a].dimensions) |->
                              SourceFromResult(answers[a].results[r], answers[a].dimensions[d], brief)]
           Page(a) == [r \in 1 .. Len(answers[a].results) |-> Of(a, r)]
           pages == [a \in 1 .. Len(answers) |-> Concatenated(Page(a))]
<1>1. FoundSources(answers, brief) = Concatenated(pages)
  BY DEF FoundSources
<1>2. ASSUME NEW a \in 1 .. Len(answers) PROVE Concatenated(Page(a)) \in Seq(Sources(dims))
  <2>1. PICK answer : answer = answers[a]
    OBVIOUS
  <2>2. Answers(dims, answer)
    BY <2>1
  <2>3. PICK n \in Nat : n = Len(answer.results)
    BY <2>2 DEF Answers
  <2>4. ASSUME NEW r \in 1 .. n PROVE Of(a, r) \in Seq(Sources(dims))
    BY <2>1, <2>2, <2>3, ResultIn
  <2> HIDE DEF Of
  <2>5. PICK texts : texts = Page(a)
    OBVIOUS
  <2>6. texts = [r \in 1 .. n |-> texts[r]] /\ \A r \in 1 .. n : texts[r] \in Seq(Sources(dims))
    BY <2>1, <2>3, <2>4, <2>5
  <2>7. Len(texts) = n
    BY <2>6, LengthOf
  <2>8. Concatenated(texts) \in Seq(Sources(dims))
    BY <2>6, <2>7, ConcatenatedIn
  <2> QED BY <2>5, <2>8
<1> HIDE DEF Page
<1>3. PICK texts : texts = pages
  OBVIOUS
<1>4. texts = [a \in 1 .. Len(answers) |-> texts[a]] /\ \A a \in 1 .. Len(answers) : texts[a] \in Seq(Sources(dims))
  BY <1>2, <1>3
<1>5. Len(texts) = Len(answers)
  BY <1>4, LengthOf
<1>6. Concatenated(texts) \in Seq(Sources(dims))
  BY <1>4, <1>5, ConcatenatedIn
<1> HIDE DEF pages
<1> QED BY <1>1, <1>3, <1>6

\* What an analysis is shown is the beginning of the report's sources.
LEMMA ShownIn ==
    ASSUME NEW dims, NEW sources \in Seq(Sources(dims)), AnalysisMaxSources \in Nat
    PROVE  /\ ShownSources(sources) \in Seq(Sources(dims)) /\ Len(ShownSources(sources)) <= Len(sources)
           /\ \A i \in 1 .. Len(ShownSources(sources)) : ShownSources(sources)[i] = sources[i]
<1>1. PICK m \in 0 .. Len(sources) :
          m = IF Len(sources) < AnalysisMaxSources THEN Len(sources) ELSE AnalysisMaxSources
  OBVIOUS
<1>2. PICK shown : shown = SubSeq(sources, 1, m)
  OBVIOUS
<1>3. ShownSources(sources) = shown
  BY <1>1, <1>2 DEF ShownSources
<1>4. shown \in Seq(Sources(dims)) /\ Len(shown) = m /\ \A i \in 1 .. m : shown[i] = sources[i]
  BY <1>1, <1>2
<1> QED BY <1>1, <1>3, <1>4

----------------------------------------------------------------------------
(* The searches of a task have no dimension in common. *)

\* Searches that each have one dimension of their own.
Single(searches, names) ==
    /\ Len(searches) = Len(names)
    /\ \A i \in 1 .. Len(names) : searches[i].dimensions = <<names[i]>>
    /\ \A i, j \in 1 .. Len(names) : names[i] = names[j] => i = j
Apart(searches) ==
    /\ \A i \in 1 .. Len(searches) : Len(searches[i].dimensions) \in Nat
    /\ \A i, j \in 1 .. Len(searches) :
          i # j => WordsOf(searches[i].dimensions) \cap WordsOf(searches[j].dimensions) = {}

\* A text of one word.
LEMMA WordOf ==
    ASSUME NEW x
    PROVE  WordsOf(<<x>>) = {x} /\ Len(<<x>>) \in Nat
BY DEF WordsOf

\* Searches with one dimension each are apart when the dimensions are.
LEMMA SingleApart ==
    ASSUME NEW searches, NEW names, Single(searches, names)
    PROVE  Apart(searches)
<1>1. ASSUME NEW i \in 1 .. Len(searches)
      PROVE  WordsOf(searches[i].dimensions) = {names[i]} /\ Len(searches[i].dimensions) \in Nat
  <2>1. searches[i].dimensions = <<names[i]>>
    BY DEF Single
  <2> QED BY <2>1, WordOf
<1>2. \A i, j \in 1 .. Len(searches) : names[i] = names[j] => i = j
  BY DEF Single
<1> QED BY <1>1, <1>2 DEF Apart

\* Each makes such searches.
LEMMA EachSingle ==
    ASSUME NEW c, NEW names, NEW b, Len(names) \in Nat, \A i, j \in 1 .. Len(names) : names[i] = names[j] => i = j
    PROVE  Single(Each(c, names, b), names)
<1>1. Len(Each(c, names, b)) = Len(names)
  BY EachLength
<1>2. \A i \in 1 .. Len(names) : Each(c, names, b)[i].dimensions = <<names[i]>>
  BY DEF Each
<1> QED BY <1>1, <1>2 DEF Single

\* The named dimensions are distinct.
LEMMA NamesApart ==
    /\ Len(MarketDimensions) \in Nat /\ Len(CompetitorDimensions) \in Nat /\ Len(SocialDimensions) \in Nat
    /\ \A i, j \in 1 .. Len(MarketDimensions) : MarketDimensions[i] = MarketDimensions[j] => i = j
    /\ \A i, j \in 1 .. Len(CompetitorDimensions) : CompetitorDimensions[i] = CompetitorDimensions[j] => i = j
    /\ \A i, j \in 1 .. Len(SocialDimensions) : SocialDimensions[i] = SocialDimensions[j] => i = j
<1>1. Len(MarketDimensions) = 6 /\ Len(CompetitorDimensions) = 6 /\ Len(SocialDimensions) = 7
  BY DEF MarketDimensions, CompetitorDimensions, SocialDimensions
<1>2. \A i, j \in 1 .. 6 : MarketDimensions[i] = MarketDimensions[j] => i = j
  BY DEF MarketDimensions
<1>3. \A i, j \in 1 .. 6 : CompetitorDimensions[i] = CompetitorDimensions[j] => i = j
  BY DEF CompetitorDimensions
<1>4. \A i, j \in 1 .. 7 : SocialDimensions[i] = SocialDimensions[j] => i = j
  BY DEF SocialDimensions
<1> QED BY <1>1, <1>2, <1>3, <1>4

\* A function of 1 .. n is a sequence of length n.
LEMMA SequenceOf ==
    ASSUME NEW n \in Nat, NEW S, NEW f \in [1 .. n -> S]
    PROVE  f \in Seq(S) /\ Len(f) = n
OBVIOUS

\* The four searches of the trend tool, and the four groups of the visual one.
LEMMA TrendApart ==
    ASSUME NEW b
    PROVE  Apart(Searches("trend", b))
<1>1. PICK f, g, h : /\ f = Each("trend", <<"current">>, <<b.entity>>)
                     /\ g = Each("trend", <<"emerging", "overused">>, <<b.platform>>)
                     /\ h = Each("trend", <<"declining">>, <<b.entity>>)
  OBVIOUS
<1>2. PICK e, s : e = f \o g /\ s = e \o h
  OBVIOUS
<1>3. Searches("trend", b) = s
  BY <1>1, <1>2 DEF Searches
<1>4. f = [i \in 1 .. 1 |-> f[i]] /\ f[1].dimensions = <<"current">>
  BY <1>1 DEF Each
<1>5. g = [i \in 1 .. 2 |-> g[i]] /\ g[1].dimensions = <<"emerging">> /\ g[2].dimensions = <<"overused">>
  BY <1>1 DEF Each
<1>6. h = [i \in 1 .. 1 |-> h[i]] /\ h[1].dimensions = <<"declining">>
  BY <1>1 DEF Each
<1>7. Len(f) = 1 /\ Len(g) = 2 /\ Len(h) = 1
  BY <1>4, <1>5, <1>6, LengthOf
<1>8. PICK S : S = {f[1], g[1], g[2], h[1]}
  OBVIOUS
<1>9. f \in Seq(S) /\ g \in Seq(S) /\ h \in Seq(S)
  <2>1. f \in [1 .. 1 -> S]
    BY <1>4, <1>8
  <2>2. g \in [1 .. 2 -> S]
    BY <1>5, <1>8
  <2>3. h \in [1 .. 1 -> S]
    BY <1>6, <1>8
  <2> QED BY <2>1, <2>2, <2>3, SequenceOf
<1>10. Len(s) = 4 /\ s[1] = f[1] /\ s[2] = g[1] /\ s[3] = g[2] /\ s[4] = h[1]
  <2>1. e \in Seq(S) /\ Len(e) = 3 /\ e[1] = f[1] /\ e[2] = g[1] /\ e[3] = g[2]
    <3>1. /\ e \in Seq(S) /\ Len(e) = Len(f) + Len(g) /\ \A i \in 1 .. Len(f) : e[i] = f[i]
          /\ \A i \in 1 .. Len(g) : e[Len(f) + i] = g[i]
      <4>1. /\ f \o g \in Seq(S) /\ Len(f \o g) = Len(f) + Len(g) /\ \A i \in 1 .. Len(f) : (f \o g)[i] = f[i]
            /\ \A i \in 1 .. Len(g) : (f \o g)[Len(f) + i] = g[i]
        BY ONLY <1>9
      <4> QED BY <1>2, <4>1
    <3>2. 1 \in 1 .. Len(f) /\ 1 \in 1 .. Len(g) /\ 2 \in 1 .. Len(g) /\ Len(f) + 1 = 2 /\ Len(f) + 2 = 3
      BY <1>7
    <3>3. e[1] = f[1] /\ e[Len(f) + 1] = g[1] /\ e[Len(f) + 2] = g[2]
      BY <3>1, <3>2
    <3>4. Len(f) + Len(g) = 3
      BY <1>7
    <3> QED BY <3>1, <3>2, <3>3, <3>4
  <2>2. Len(s) = 4 /\ s[1] = e[1] /\ s[2] = e[2] /\ s[3] = e[3] /\ s[4] = h[1]
    <3>1. /\ s \in Seq(S) /\ Len(s) = Len(e) + Len(h) /\ \A i \in 1 .. Len(e) : s[i] = e[i]
          /\ \A i \in 1 .. Len(h) : s[Len(e) + i] = h[i]
      <4>1. e \in Seq(S) /\ h \in Seq(S)
        BY <1>9, <2>1
      <4>2. /\ e \o h \in Seq(S) /\ Len(e \o h) = Len(e) + Len(h) /\ \A i \in 1 .. Len(e) : (e \o h)[i] = e[i]
            /\ \A i \in 1 .. Len(h) : (e \o h)[Len(e) + i] = h[i]
        BY ONLY <4>1
      <4> QED BY <1>2, <4>2
    <3>2. 1 \in 1 .. Len(e) /\ 2 \in 1 .. Len(e) /\ 3 \in 1 .. Len(e) /\ 1 \in 1 .. Len(h)
          /\ Len(e) + 1 = 4 /\ Len(e) + Len(h) = 4
      BY <1>7, <2>1
    <3> QED BY <3>1, <3>2
  <2> QED BY <2>1, <2>2
<1>11. PICK names : names = <<"current", "emerging", "overused", "declining">>
  OBVIOUS
<1>12. Len(names) = 4 /\ \A i, j \in 1 .. 4 : names[i] = names[j] => i = j
  BY <1>11
<1>13. \A i \in 1 .. 4 : s[i].dimensions = <<names[i]>>
  BY <1>4, <1>5, <1>6, <1>10, <1>11
<1>14. Single(s, names)
  BY <1>10, <1>12, <1>13 DEF Single
<1> QED BY <1>3, <1>14, SingleApart

LEMMA VisualApart ==
    ASSUME NEW b
    PROVE  Apart(Searches("visual_reference", b))
<1>1. PICK s : s = Searches("visual_reference", b)
  OBVIOUS
<1>2. Len(VisualGroups) = 4
  BY DEF VisualGroups
<1>3. s = [i \in 1 .. 4 |-> [query |-> <<"visual_reference", VisualGroups[i][1], b.entity, b.platform, b.market>>,
                            dimensions |-> VisualGroups[i][2]]]
  BY <1>1, <1>2 DEF Searches
<1>4. Len(s) = 4 /\ \A i \in 1 .. 4 : s[i].dimensions = VisualGroups[i][2]
  <2>1. s = [i \in 1 .. 4 |-> s[i]]
    BY <1>3
  <2> QED BY <1>3, <2>1, LengthOf
<1>5. /\ s[1].dimensions = <<"composition", "subject_scale", "negative_space", "headline_region">>
      /\ s[2].dimensions = <<"text_density", "typography", "cta", "logo">>
      /\ s[3].dimensions = <<"photography", "lighting", "colors", "texture">>
      /\ s[4].dimensions = <<"graphic_elements", "energy">>
  BY <1>4 DEF VisualGroups
<1>6. /\ WordsOf(s[1].dimensions) = {"composition", "subject_scale", "negative_space", "headline_region"}
      /\ WordsOf(s[2].dimensions) = {"text_density", "typography", "cta", "logo"}
      /\ WordsOf(s[3].dimensions) = {"photography", "lighting", "colors", "texture"}
      /\ WordsOf(s[4].dimensions) = {"graphic_elements", "energy"}
  BY <1>5 DEF WordsOf
<1>7. /\ Len(s[1].dimensions) = 4 /\ Len(s[2].dimensions) = 4 /\ Len(s[3].dimensions) = 4 /\ Len(s[4].dimensions) = 2
  BY <1>5
<1>8. \A i \in 1 .. 4 : Len(s[i].dimensions) \in Nat
  BY <1>7
<1>9. \A i, j \in 1 .. 4 : i # j => WordsOf(s[i].dimensions) \cap WordsOf(s[j].dimensions) = {}
  BY <1>6
<1> QED BY <1>1, <1>4, <1>8, <1>9 DEF Apart

\* No two searches of a task answer the same dimension.
LEMMA SearchesApart ==
    ASSUME NEW c, NEW b
    PROVE  Apart(Searches(c, b))
<1>1. CASE c = "market"
  <2>1. Searches(c, b) = Each(c, MarketDimensions, <<b.entity, b.market>>)
    BY <1>1 DEF Searches
  <2> QED BY <2>1, NamesApart, EachSingle, SingleApart
<1>2. CASE c = "competitor"
  <2>1. Searches(c, b) = Each(c, CompetitorDimensions, <<b.entity, b.market>>)
    BY <1>2 DEF Searches
  <2> QED BY <2>1, NamesApart, EachSingle, SingleApart
<1>3. CASE c = "social"
  <2>1. Searches(c, b) = Each(c, SocialDimensions, <<b.platform, b.entity, b.market>>)
    BY <1>3 DEF Searches
  <2> QED BY <2>1, NamesApart, EachSingle, SingleApart
<1>4. CASE c = "platform"
  <2>1. PICK names : names = <<"formats", "constraints">>
    OBVIOUS
  <2>2. Searches(c, b) = Each(c, names, <<b.platform>>)
    BY <1>4, <2>1 DEF Searches
  <2>3. Len(names) = 2 /\ \A i, j \in 1 .. 2 : names[i] = names[j] => i = j
    BY <2>1
  <2>4. Single(Each(c, names, <<b.platform>>), names)
    BY <2>3, EachSingle
  <2> QED BY <2>2, <2>4, SingleApart
<1>5. CASE c = "trend"
  BY <1>5, TrendApart
<1>6. CASE c = "visual_reference"
  BY <1>6, VisualApart
<1>7. CASE c \notin {"market", "competitor", "social", "visual_reference", "trend", "platform"}
  <2>1. PICK search : search = [query |-> CanonicalQuery(c, b), dimensions |-> <<c>>]
    OBVIOUS
  <2>2. Searches(c, b) = <<search>> /\ search.dimensions = <<c>>
    BY <1>7, <2>1 DEF Searches
  <2>3. Single(<<search>>, <<c>>)
    BY <2>2 DEF Single
  <2> QED BY <2>2, <2>3, SingleApart
<1> QED BY <1>1, <1>2, <1>3, <1>4, <1>5, <1>6, <1>7

----------------------------------------------------------------------------
(* Observations that stand in the sources of their report. *)

\* What a report quotes stands in a source it lists; what it is sure of rests on pages of
\* high quality that were found for it.
Verbatim(report) ==
    \A insight \in report.analysis : \A e \in insight.evidence :
       \E i \in 1 .. Len(report.sources) : report.sources[i].url = e.url /\ Holds(report.sources[i], e.quote)
Earned(report) ==
    \A insight \in report.analysis : insight.confidence = "high" =>
       /\ insight.dimension \notin report.degraded
       /\ \A e \in insight.evidence : \A i \in 1 .. Len(report.sources) :
             report.sources[i].url = e.url =>
                insight.dimension \in report.sources[i].dimensions /\ report.sources[i].quality >= 8000

\* What a model quotes is a text.
Quoting(drafts) ==
    \A n \in 1 .. Len(drafts) : \A k \in 1 .. Len(drafts[n].evidence) : drafts[n].evidence[k].quote \in Seq(Word)

\* High confidence is of quality from 8000.
LEMMA SureOnlyOfHigh ==
    ASSUME NEW quality, ConfidenceForQuality(quality) = "high"
    PROVE  quality >= 8000
<1>1. SUFFICES ASSUME ~ (quality >= 8000) PROVE ConfidenceForQuality(quality) # "high"
  OBVIOUS
<1>2. ConfidenceForQuality(quality) = IF quality >= 5000 THEN "medium" ELSE "low"
  BY <1>1 DEF ConfidenceForQuality
<1> QED BY <1>2

\* Evidence is of a source that holds it.
LEMMA EvidenceHeld ==
    ASSUME NEW item, NEW shown, EvidenceSource(item, shown) # None
    PROVE  \E m \in 1 .. Len(shown) : EvidenceSource(item, shown) = shown[m] /\ Holds(shown[m], item.quote)
<1> DEFINE matches == {i \in 1 .. Len(shown) : Holds(shown[i], item.quote)}
<1>1. CASE item.id \in matches
  BY <1>1 DEF EvidenceSource
<1>2. CASE item.id \notin matches
  <2>1. Cardinality(matches) = 1 /\ EvidenceSource(item, shown) = shown[CHOOSE i \in matches : TRUE]
    BY <1>2 DEF EvidenceSource
  <2>2. matches # {}
    <3>1. Cardinality({}) = 0
      BY FS_EmptySet
    <3> HIDE DEF matches
    <3> QED BY <2>1, <3>1
  <2>3. (CHOOSE i \in matches : TRUE) \in matches
    <3> HIDE DEF matches
    <3> QED BY <2>2
  <2> QED BY <2>1, <2>3
<1> QED BY <1>1, <1>2

\* A source that holds a quote holds what is kept of it.
LEMMA HoldsPart ==
    ASSUME NEW dims, NEW source \in Sources(dims), NEW quote \in Seq(Word), Holds(source, quote)
    PROVE  Holds(source, TrimmedQuote(quote))
<1>1. PICK title \in Seq(Word), excerpt \in Seq(Word) : title = source.title /\ excerpt = source.excerpt
  BY DEF Sources
<1>2. PICK text : text = title \o excerpt
  OBVIOUS
<1>3. text \in Seq(Word)
  BY <1>2
<1>4. PICK part : part = TrimmedQuote(quote)
  OBVIOUS
<1>5. part \in Seq(Word) /\ ContainsText(quote, part)
  BY <1>4, HeadIsPart DEF TrimmedQuote
<1>6. ContainsText(text, quote)
  BY <1>1, <1>2 DEF Holds
<1>7. ContainsText(text, part)
  BY <1>3, <1>5, <1>6, ContainsTransitive
<1> QED BY <1>1, <1>2, <1>4, <1>7 DEF Holds

\* An observation that stands in the sources of its report.
StandsIn(insight, sources, degraded) ==
    /\ \A e \in insight.evidence :
          \E i \in 1 .. Len(sources) : sources[i].url = e.url /\ Holds(sources[i], e.quote)
    /\ insight.confidence = "high" =>
          /\ insight.dimension \notin degraded
          /\ \A e \in insight.evidence : \A i \in 1 .. Len(sources) :
                sources[i].url = e.url => insight.dimension \in sources[i].dimensions /\ sources[i].quality >= 8000

\* A kept observation stands in the sources of its report.
LEMMA InsightStands ==
    ASSUME NEW dims, NEW sources \in Distinct(dims), NEW degraded, degraded \cap dims = {}, AnalysisMaxSources \in Nat,
           NEW shown, shown = ShownSources(sources), NEW d, NEW insight, insight = GroundInsight(d, shown), insight # None,
           \A k \in 1 .. Len(d.evidence) : d.evidence[k].quote \in Seq(Word)
    PROVE  StandsIn(insight, sources, degraded)
<1>1. PICK at : at = Located(d, shown)
  OBVIOUS
<1>2. PICK found, cited : found = {k \in DOMAIN at : at[k] # None} /\ cited = {at[k] : k \in DOMAIN at} \ {None}
  OBVIOUS
<1>3. /\ DOMAIN at = 1 .. Len(d.evidence) /\ found # {} /\ insight.dimension = d.dimension
      /\ insight.evidence = {[url |-> at[k].url, quote |-> TrimmedQuote(d.evidence[k].quote)] : k \in found}
      /\ insight.confidence = "high" => Corroborated(d, cited) /\ SourceConfidence(cited) = "high"
  <2>1. DOMAIN at = 1 .. Len(d.evidence)
    BY <1>1 DEF Located
  <2>2. insight = InsightFrom(d, at, found, cited)
    BY <1>1, <1>2 DEF GroundInsight, GroundedAt
  <2>3. found # {}
    BY <2>2 DEF InsightFrom
  <2>4. PICK confidence : confidence = IF ~ Corroborated(d, cited) /\ SourceConfidence(cited) = "high"
                                       THEN "medium" ELSE SourceConfidence(cited)
    OBVIOUS
  <2>5. PICK evidence : evidence = {[url |-> at[k].url, quote |-> TrimmedQuote(d.evidence[k].quote)] : k \in found}
    OBVIOUS
  <2>6. insight = [dimension |-> d.dimension, confidence |-> confidence, evidence |-> evidence, fits |-> d.fits]
    BY <2>2, <2>3, <2>4, <2>5 DEF InsightFrom
  <2>7. insight.dimension = d.dimension /\ insight.evidence = evidence /\ insight.confidence = confidence
    BY <2>6
  <2>8. confidence = "high" => Corroborated(d, cited) /\ SourceConfidence(cited) = "high"
    BY <2>4
  <2> QED BY <2>1, <2>3, <2>5, <2>7, <2>8
<1>4. sources \in Seq(Sources(dims)) /\ \A i, j \in 1 .. Len(sources) : sources[i].url = sources[j].url => i = j
  BY DEF Distinct
<1>5. /\ Len(shown) \in Nat /\ Len(shown) <= Len(sources) /\ \A i \in 1 .. Len(shown) : shown[i] = sources[i]
  BY <1>4, ShownIn
<1>6. ASSUME NEW k \in found
      PROVE  \E m \in 1 .. Len(sources) : at[k] = sources[m] /\ Holds(sources[m], TrimmedQuote(d.evidence[k].quote))
  <2>1. PICK item : item = d.evidence[k]
    OBVIOUS
  <2>2. k \in 1 .. Len(d.evidence) /\ at[k] # None /\ at[k] = EvidenceSource(item, shown)
    BY <1>1, <1>2, <1>3, <2>1 DEF Located
  <2>3. PICK m \in 1 .. Len(shown) : EvidenceSource(item, shown) = shown[m] /\ Holds(shown[m], item.quote)
    BY <2>2, EvidenceHeld
  <2>4. m \in 1 .. Len(sources) /\ shown[m] = sources[m]
    BY <1>4, <1>5
  <2>5. PICK source \in Sources(dims) : source = sources[m]
    BY <1>4, <2>4
  <2>6. PICK quote \in Seq(Word) : quote = item.quote
    BY <2>1, <2>2
  <2>7. Holds(source, TrimmedQuote(quote))
    BY <2>3, <2>4, <2>5, <2>6, HoldsPart
  <2> QED BY <2>1, <2>2, <2>3, <2>4, <2>5, <2>6, <2>7
<1>7. ASSUME NEW e \in insight.evidence
      PROVE  \E k \in found : e.url = at[k].url /\ e.quote = TrimmedQuote(d.evidence[k].quote)
  BY <1>3
<1>8. ASSUME NEW e \in insight.evidence
      PROVE  \E i \in 1 .. Len(sources) : sources[i].url = e.url /\ Holds(sources[i], e.quote)
  BY <1>6, <1>7
<1>9. ASSUME insight.confidence = "high" 
      PROVE  \A k \in found : d.dimension \in at[k].dimensions /\ at[k].quality >= 8000
  <2> TAKE k \in found
  <2>1. Corroborated(d, cited) /\ SourceConfidence(cited) = "high"
    BY <1>3, <1>9
  <2>2. at[k] \in cited
    BY <1>2
  <2>3. d.dimension \in at[k].dimensions
    BY <2>1, <2>2 DEF Corroborated
  <2>4. {ConfidenceForQuality(s.quality) : s \in cited} = {"high"}
    BY <2>1 DEF SourceConfidence
  <2>5. ConfidenceForQuality(at[k].quality) = "high"
    BY <2>2, <2>4
  <2> QED BY <2>3, <2>5, SureOnlyOfHigh
<1>10. ASSUME insight.confidence = "high"
       PROVE  insight.dimension \notin degraded
  <2>1. PICK k \in found : d.dimension \in at[k].dimensions
    BY <1>3, <1>9, <1>10
  <2>2. PICK m \in 1 .. Len(sources) : at[k] = sources[m]
    BY <1>6
  <2>3. sources[m].dimensions \subseteq dims
    <3>1. PICK source \in Sources(dims) : source = sources[m]
      BY <1>4
    <3> QED BY <3>1 DEF Sources
  <2> QED BY <1>3, <2>1, <2>2, <2>3
<1>11. ASSUME insight.confidence = "high", NEW e \in insight.evidence, NEW i \in 1 .. Len(sources), sources[i].url = e.url
       PROVE  insight.dimension \in sources[i].dimensions /\ sources[i].quality >= 8000
  <2>1. PICK k \in found : e.url = at[k].url
    BY <1>7
  <2>2. PICK m \in 1 .. Len(sources) : at[k] = sources[m]
    BY <1>6
  <2>3. i = m
    BY <1>4, <1>11, <2>1, <2>2
  <2> QED BY <1>3, <1>9, <1>11, <2>2, <2>3
<1> QED BY <1>8, <1>10, <1>11 DEF StandsIn

\* So does a report's analysis.
LEMMA AnalysisStands ==
    ASSUME NEW dims, NEW report, report.sources \in Distinct(dims), report.degraded \cap dims = {},
           AnalysisMaxSources \in Nat, NEW drafts, Quoting(drafts), NEW c,
           report.analysis = GroundAnalysis(c, drafts, ShownSources(report.sources)), report.analysis # None
    PROVE  Verbatim(report) /\ Earned(report)
<1>1. PICK sources, degraded : sources = report.sources /\ degraded = report.degraded
  OBVIOUS
<1>2. PICK shown : shown = ShownSources(sources)
  OBVIOUS
<1>3. PICK insights : insights = [i \in 1 .. Len(drafts) |-> GroundInsight(drafts[i], shown)]
  OBVIOUS
<1>4. report.analysis = {insights[i] : i \in DOMAIN insights} \ {None}
  BY <1>1, <1>2, <1>3 DEF GroundAnalysis, AnalysisFrom
<1>5. ASSUME NEW insight \in report.analysis
      PROVE  \E n \in 1 .. Len(drafts) : insight = GroundInsight(drafts[n], shown) /\ insight # None
  BY <1>3, <1>4
<1>6. ASSUME NEW insight \in report.analysis
      PROVE  StandsIn(insight, sources, degraded)
  <2>1. PICK n \in 1 .. Len(drafts) : insight = GroundInsight(drafts[n], shown) /\ insight # None
    BY <1>5
  <2>2. PICK d : d = drafts[n]
    OBVIOUS
  <2>3. \A k \in 1 .. Len(d.evidence) : d.evidence[k].quote \in Seq(Word)
    BY <2>2 DEF Quoting
  <2>4. sources \in Distinct(dims) /\ degraded \cap dims = {} /\ insight = GroundInsight(d, shown)
    BY <1>1, <2>1, <2>2
  <2> QED BY <1>2, <2>1, <2>3, <2>4, InsightStands
<1> QED BY <1>1, <1>6 DEF Verbatim, Earned, StandsIn

----------------------------------------------------------------------------
(* What models answer. *)

\* A response is of pages.
LEMMA ResponsePages ==
    ASSUME NEW s \in Scenarios, NEW p \in s.responses
    PROVE  Len(p.results) \in Nat /\ \A i \in 1 .. Len(p.results) : IsPage(p.results[i])
<1>1. SUFFICES ASSUME NEW i \in 1 .. Len(p.results) PROVE IsPage(p.results[i])
  BY ResearchInputs
<1>2. p.results[i].url \in Addresses
  BY DEF Addresses
<1> QED BY <1>2, ResearchInputs DEF IsPage, Word

\* What a model copied, and not across a seam, is found where it was shown.
Honest(b, given, shown) ==
    \A n \in 1 .. Len(given) : \A k \in 1 .. Len(given[n].evidence) :
       LET e == given[n].evidence[k] IN
       /\ e.id \in 1 .. Len(shown) /\ Seam \notin WordsOf(e.quote)
       /\ ContainsText(RelevantWindow(shown[e.id].excerpt, b), e.quote)
       => EvidenceSource(e, shown) = shown[e.id]

\* A copied quote is attributed to the source it was shown from.
LEMMA CopiedIsFound ==
    ASSUME NEW dims, NEW b, NEW shown \in Seq(Sources(dims)), NEW e, e.quote \in Seq(Word),
           e.id \in 1 .. Len(shown), Seam \notin WordsOf(e.quote),
           ContainsText(RelevantWindow(shown[e.id].excerpt, b), e.quote)
    PROVE  EvidenceSource(e, shown) = shown[e.id]
<1>1. PICK source \in Sources(dims) : source = shown[e.id]
  OBVIOUS
<1>2. PICK title \in Seq(Word), excerpt \in Seq(Word) : title = source.title /\ excerpt = source.excerpt
  BY DEF Sources
<1>3. PICK quote \in Seq(Word) : quote = e.quote
  OBVIOUS
<1>4. Seam \in Word
  BY ResearchInputs DEF Word
<1>5. ContainsText(RelevantWindow(excerpt, b), quote) /\ Seam \notin WordsOf(quote)
  BY <1>1, <1>2, <1>3
<1>6. ContainsText(excerpt, quote)
  BY <1>4, <1>5, ShownIsOfText
<1>7. ContainsText(title \o excerpt, quote)
  BY <1>6, ContainsEither
<1>8. Holds(shown[e.id], e.quote)
  BY <1>1, <1>2, <1>3, <1>7 DEF Holds
<1> QED BY <1>8 DEF EvidenceSource

\* So every draft whose quotes are texts is honest about what it copied.
LEMMA DraftsAreHonest ==
    ASSUME NEW dims, NEW b, NEW shown \in Seq(Sources(dims)), NEW given, Quoting(given)
    PROVE  Honest(b, given, shown)
<1>1. SUFFICES ASSUME NEW n \in 1 .. Len(given), NEW k \in 1 .. Len(given[n].evidence), NEW e, e = given[n].evidence[k],
                      e.id \in 1 .. Len(shown), Seam \notin WordsOf(e.quote),
                      ContainsText(RelevantWindow(shown[e.id].excerpt, b), e.quote)
               PROVE  EvidenceSource(e, shown) = shown[e.id]
  BY DEF Honest
<1>2. e.quote \in Seq(Word)
  BY <1>1 DEF Quoting
<1> QED BY <1>1, <1>2, CopiedIsFound

\* Drafts of one observation with one or two quotes.
LEMMA OneQuote ==
    ASSUME NEW d, NEW w, NEW id, NEW quote \in Seq(Word)
    PROVE  /\ Quoting(<<Observation(d, w, <<Item(id, quote)>>)>>)
           /\ Quoting(<<[Observation(d, w, <<Item(id, quote)>>) EXCEPT !.blank = TRUE]>>)
<1>1. PICK item : item = Item(id, quote)
  OBVIOUS
<1>2. item.quote = quote
  BY <1>1 DEF Item
<1>3. PICK evidence : evidence = <<item>>
  OBVIOUS
<1>4. Len(evidence) = 1 /\ evidence[1] = item
  BY <1>3
<1>5. PICK o, blank : o = Observation(d, w, evidence) /\ blank = [o EXCEPT !.blank = TRUE]
  OBVIOUS
<1>6. o.evidence = evidence /\ blank.evidence = evidence
  BY <1>5 DEF Observation
<1>7. \A k \in 1 .. Len(evidence) : evidence[k].quote \in Seq(Word)
  BY <1>2, <1>4
<1>8. ASSUME NEW x, x.evidence = evidence PROVE Quoting(<<x>>)
  BY <1>7, <1>8 DEF Quoting
<1> QED BY <1>1, <1>3, <1>5, <1>6, <1>8

LEMMA TwoQuotes ==
    ASSUME NEW d, NEW w, NEW quote \in Seq(Word), NEW other \in Seq(Word)
    PROVE  Quoting(<<Observation(d, w, <<Item(1, quote), Item(1, other)>>)>>)
<1>1. PICK first, second : first = Item(1, quote) /\ second = Item(1, other)
  OBVIOUS
<1>2. first.quote = quote /\ second.quote = other
  BY <1>1 DEF Item
<1>3. PICK evidence : evidence = <<first, second>>
  OBVIOUS
<1>4. Len(evidence) = 2 /\ evidence[1] = first /\ evidence[2] = second
  BY <1>3
<1>5. PICK o : o = Observation(d, w, evidence)
  OBVIOUS
<1>6. o.evidence = evidence
  BY <1>5 DEF Observation
<1>7. \A k \in 1 .. Len(evidence) : evidence[k].quote \in Seq(Word)
  BY <1>2, <1>4
<1>8. Quoting(<<o>>)
  BY <1>6, <1>7 DEF Quoting
<1> QED BY <1>1, <1>3, <1>5, <1>8

LEMMA NoQuote ==
    ASSUME NEW d, NEW w
    PROVE  Quoting(<<Observation(d, w, <<>>)>>)
<1>1. PICK o : o = Observation(d, w, <<>>)
  OBVIOUS
<1>2. o.evidence = <<>>
  BY <1>1 DEF Observation
<1>3. Quoting(<<o>>)
  BY <1>2 DEF Quoting
<1> QED BY <1>1, <1>3

\* Whatever a model answers, its quotes are texts.
LEMMA DraftsQuote ==
    ASSUME scenario \in Scenarios, NEW dims, NEW c, NEW b, NEW shown \in Seq(Sources(dims)), shown # <<>>,
           NEW drafts \in Drafts(c, b, shown)
    PROVE  Quoting(drafts)
<1>1. QuoteLimit \in Nat /\ Seam \in Word /\ scenario.invented \in Seq(Word)
  BY ResearchInputs DEF Word
<1>2. CASE scenario.drafts = "few"
  <2>1. 1 \in 1 .. Len(shown)
    OBVIOUS
  <2>2. PICK source \in Sources(dims) : source = shown[1]
    BY <2>1
  <2>3. PICK excerpt \in Seq(Word) : excerpt = source.excerpt
    BY DEF Sources
  <2>4. PICK quote : quote = Cut(excerpt, QuoteLimit)
    OBVIOUS
  <2>5. quote \in Seq(Word)
    BY <1>1, <2>4, CutIsPart
  <2>6. PICK d : d = Searches(c, b)[1].dimensions[1]
    OBVIOUS
  <2>7. drafts \in {<<Observation(d, TRUE, <<Item(1, quote)>>)>>, <<Observation(d, TRUE, <<>>)>>}
    BY <1>2, <2>2, <2>3, <2>4, <2>6 DEF Drafts, FewDrafts
  <2> QED BY <2>5, <2>7, OneQuote, NoQuote
<1>3. CASE scenario.drafts # "few"
  <2>1. PICK d : d = Searches(c, b)[1].dimensions[1]
    OBVIOUS
  <2>2. PICK invented \in Seq(Word) : invented = scenario.invented
    BY <1>1
  <2>3. PICK quotes : quotes = {invented} \cup UNION {Spans(RelevantWindow(shown[i].excerpt, b)) : i \in 1 .. Len(shown)}
    OBVIOUS
  <2>4. quotes \subseteq Seq(Word)
    <3>1. SUFFICES ASSUME NEW i \in 1 .. Len(shown) PROVE Spans(RelevantWindow(shown[i].excerpt, b)) \subseteq Seq(Word)
      BY <2>2, <2>3
    <3>2. PICK source \in Sources(dims) : source = shown[i]
      OBVIOUS
    <3>3. PICK excerpt \in Seq(Word) : excerpt = source.excerpt
      BY DEF Sources
    <3>4. PICK text : text = RelevantWindow(excerpt, b)
      OBVIOUS
    <3>5. text \in Seq(Word)
      BY <1>1, <3>4, ShownIsOfText
    <3>6. \A a \in 1 .. Len(text), z \in 1 .. Len(text) : SubSeq(text, a, z) \in Seq(Word)
      BY ONLY <3>5
    <3>7. Spans(text) \subseteq Seq(Word)
      <4>1. SUFFICES ASSUME NEW x \in Spans(text) PROVE x \in Seq(Word)
        BY Zenon
      <4>2. \E a \in 1 .. Len(text), z \in 1 .. Len(text) : x = SubSeq(text, a, z)
        BY ONLY x \in Spans(text) DEF Spans
      <4> QED BY <3>6, <4>2, Zenon
    <3> QED BY <3>2, <3>3, <3>4, <3>7
  <2>5. drafts \in AllDrafts(DimensionsOf(c, b), d, quotes)
    BY <1>3, <2>1, <2>2, <2>3 DEF Drafts
  <2> PICK dimensions, ids : dimensions = DimensionsOf(c, b) /\ ids = {1, 2}
    OBVIOUS
  <2> DEFINE draft(x, id, q) == <<Observation(x, TRUE, <<Item(id, q)>>)>>
             one == {draft(x, id, q) : x \in dimensions, id \in ids, q \in quotes}
             two == {<<Observation(d, w, <<Item(1, q), Item(1, invented)>>)>> : w \in BOOLEAN, q \in quotes}
             blank == {<<[Observation(d, TRUE, <<Item(1, q)>>) EXCEPT !.blank = TRUE]>> : q \in quotes}
  <2>6. drafts \in one \/ drafts \in two \/ drafts \in blank
    <3>1. AllDrafts(DimensionsOf(c, b), d, quotes) = one \cup two \cup blank
      BY <2>2 DEF AllDrafts
    <3> HIDE DEF one, two, blank
    <3> QED BY <2>5, <3>1
  <2>7. ASSUME drafts \in one PROVE Quoting(drafts)
    <3>1. \E x \in dimensions, id \in ids, q \in quotes : drafts = draft(x, id, q)
      <4> HIDE DEF draft
      <4> QED BY ONLY <2>7
    <3> QED BY ONLY <2>4, <3>1, OneQuote
  <2>8. ASSUME drafts \in two PROVE Quoting(drafts)
    <3>1. \E w \in BOOLEAN, q \in quotes : drafts = <<Observation(d, w, <<Item(1, q), Item(1, invented)>>)>>
      BY ONLY <2>8
    <3> QED BY ONLY <2>4, <3>1, invented \in Seq(Word), TwoQuotes
  <2>9. ASSUME drafts \in blank PROVE Quoting(drafts)
    <3>1. \E q \in quotes : drafts = <<[Observation(d, TRUE, <<Item(1, q)>>) EXCEPT !.blank = TRUE]>>
      BY ONLY <2>9
    <3> QED BY ONLY <2>4, <3>1, OneQuote
  <2> HIDE DEF one, two, blank
  <2> QED BY <2>6, <2>7, <2>8, <2>9
<1> QED BY <1>2, <1>3

----------------------------------------------------------------------------
(* The invariant of the reports, step by step. *)

\* A report whose sources are distinct pages and whose lost dimensions none of them serves.
Sourced(report) == \E dims : report.sources \in Distinct(dims) /\ report.degraded \cap dims = {}

\* What a search brought is a response's.
Returned(s, responses) == s.results = <<>> \/ \E p \in responses : s.results = p.results

\* What a search brought is pages.
LEMMA ReturnedPages ==
    ASSUME scenario \in Scenarios, NEW s, Returned(s, scenario.responses)
    PROVE  Len(s.results) \in Nat /\ \A i \in 1 .. Len(s.results) : IsPage(s.results[i])
<1>1. CASE s.results = <<>>
  BY <1>1
<1>2. CASE \E p \in scenario.responses : s.results = p.results
  <2>1. PICK p \in scenario.responses : s.results = p.results
    BY <1>2
  <2>2. Len(p.results) \in Nat /\ \A i \in 1 .. Len(p.results) : IsPage(p.results[i])
    BY ResponsePages
  <2> QED BY <2>1, <2>2
<1> QED BY <1>1, <1>2 DEF Returned

\* What a task makes of what its searches brought.
LEMMA CollectedIn ==
    ASSUME scenario \in Scenarios, NEW r, NEW c, NEW report, report = Collected(<<r, c>>),
           \A i \in 1 .. Len(Searches(c, Brief(r))) : Returned(task[r][c].searches[i], scenario.responses)
    PROVE  Sourced(report) /\ report.analysis = None
<1>1. PICK t, b, asked : t = task[r][c] /\ b = Brief(r) /\ asked = Searches(c, b)
  OBVIOUS
<1>2. Len(asked) \in Nat /\ Apart(asked)
  BY <1>1, SearchesLength, SearchesApart
<1>3. PICK back : back = {i \in 1 .. Len(asked) : t.searches[i].state = "answered"}
  OBVIOUS
<1>4. PICK answers : answers = [i \in 1 .. Len(asked) |->
                     [dimensions |-> asked[i].dimensions,
                      results |-> IF i \in back THEN t.searches[i].results ELSE <<>>]]
  OBVIOUS
<1>5. PICK found : found = FoundSources(answers, b)
  OBVIOUS
<1>6. PICK sources : sources = IF c \in Structured THEN BestFirst(MergedSources(found)) ELSE FirstSources(found)
  OBVIOUS
<1>7. PICK dims : dims = UNION {WordsOf(asked[i].dimensions) : i \in back}
  OBVIOUS
<1>8. \E images : report = FoundReport(r, c, sources, images)
  BY <1>1, <1>3, <1>4, <1>5, <1>6, Zenon DEF Collected
<1>9. PICK degraded : degraded = Degraded(asked, t)
  OBVIOUS
<1>10. report.sources = sources /\ report.degraded = degraded /\ report.analysis = None
  <2>1. PICK images : report = FoundReport(r, c, sources, images)
    BY <1>8
  <2>2. PICK status, confidence : /\ status = IF sources = <<>> /\ images = {} THEN "no_results" ELSE "succeeded"
                                  /\ confidence = ReportConfidence(sources)
    OBVIOUS
  <2>3. report = [category |-> c, key |-> Key(c, Brief(r)), status |-> status, error |-> None, sources |-> sources,
                  images |-> images, confidence |-> confidence, analysis |-> None, coverage |-> None,
                  limitations |-> None, degraded |-> degraded, expires |-> stage[r].at + CacheTtl, cached |-> FALSE]
    BY <1>1, <1>9, <2>1, <2>2, ZenonT(60) DEF FailedReport, FoundReport
  <2> QED BY <2>3
<1>11. degraded \cap dims = {}
  <2>1. SUFFICES ASSUME NEW d \in degraded, d \in dims PROVE FALSE
    OBVIOUS
  <2>2. PICK i \in back : d \in WordsOf(asked[i].dimensions)
    BY <1>7, <2>1
  <2>3. PICK j \in 1 .. Len(asked) : t.searches[j].state = "failed" /\ d \in WordsOf(asked[j].dimensions)
    BY <1>9, <2>1 DEF Degraded
  <2> QED BY <1>2, <1>3, <2>2, <2>3 DEF Apart
<1>12. ASSUME NEW i \in 1 .. Len(asked) PROVE Answers(dims, answers[i])
  <2>1. PICK answer : answer = answers[i]
    OBVIOUS
  <2>2. answer.dimensions = asked[i].dimensions /\ answer.results = IF i \in back THEN t.searches[i].results ELSE <<>>
    BY <1>4, <2>1
  <2>3. Len(answer.dimensions) \in Nat
    BY <1>2, <2>2 DEF Apart
  <2>4. CASE i \in back
    <3>1. PICK s : s = t.searches[i]
      OBVIOUS
    <3>2. Returned(s, scenario.responses)
      BY <1>1, <3>1
    <3>3. Len(s.results) \in Nat /\ \A k \in 1 .. Len(s.results) : IsPage(s.results[k])
      BY <3>2, ReturnedPages
    <3>4. WordsOf(asked[i].dimensions) \subseteq dims
      BY <1>7, <2>4
    <3>5. \A d \in 1 .. Len(answer.dimensions) : answer.dimensions[d] \in dims
      BY <2>2, <3>4 DEF WordsOf
    <3>6. answer.results = s.results
      BY <2>2, <2>4, <3>1
    <3> QED BY <2>1, <2>3, <3>3, <3>5, <3>6 DEF Answers
  <2>5. CASE i \notin back
    <3>1. Len(answer.results) = 0
      BY <2>2, <2>5
    <3> QED BY <2>1, <2>3, <3>1 DEF Answers
  <2> QED BY <2>4, <2>5
<1>13. Len(answers) = Len(asked)
  <2>1. answers = [i \in 1 .. Len(asked) |-> answers[i]]
    BY <1>4
  <2> QED BY <1>2, <2>1, LengthOf
<1>14. ExcerptLimit \in Nat /\ MaxSources \in Nat
  BY ResearchInputs
<1>15. found \in Seq(Sources(dims))
  BY <1>2, <1>5, <1>12, <1>13, <1>14, FoundIn
<1>16. sources \in Distinct(dims)
  <2>1. MergedSources(found) \in Distinct(dims)
    BY <1>14, <1>15, MergedIn
  <2>2. PICK merged \in Distinct(dims) : merged = MergedSources(found)
    BY <2>1
  <2>3. BestFirst(merged) \in Distinct(dims)
    BY <1>14, BestIn
  <2>4. FirstSources(found) \in Distinct(dims)
    BY <1>15, FirstIn
  <2> QED BY <1>6, <2>2, <2>3, <2>4
<1> QED BY <1>10, <1>11, <1>16 DEF Sourced

\* What is true of every report: its sources are distinct, and its analysis stands in them.
Standing(report) == Sourced(report) /\ (report.analysis # None => Verbatim(report) /\ Earned(report))

\* What is true of a task: its searches brought pages, its report stands and what it
\* drafted is found where it was copied from.
Backed(b, responses, t) ==
    /\ \A i \in 1 .. Len(t.searches) : Returned(t.searches[i], responses)
    /\ t.phase \in Reporters => Standing(t.report)
    /\ t.drafts # None => Honest(b, t.drafts.given, t.drafts.shown)

\* What the reports of the tasks and of the cache rest on: inductive together with Inv.
EvidenceInv ==
    /\ \A r \in Run : \A c \in scenario.categories : Backed(Brief(r), scenario.responses, task[r][c])
    /\ \A k \in DOMAIN cache : Standing(cache[k].report)

\* What any step of one task must keep.
LEMMA TaskBacked ==
    ASSUME Shape, EvidenceInv, NEW r \in Run, NEW c \in scenario.categories, NEW t, scenario' = scenario,
           task' = [task EXCEPT ![r][c] = t], Backed(Brief(r), scenario.responses, t),
           \A k \in DOMAIN cache' : Standing(cache'[k].report)
    PROVE  EvidenceInv'
<1>1. /\ task'[r][c] = t
      /\ \A q \in Run : q # r => task'[q] = task[q]
      /\ \A d \in scenario.categories : d # c => task'[r][d] = task[r][d]
  BY DEF Shape
<1>2. ASSUME NEW q \in Run, NEW d \in scenario.categories
      PROVE  Backed(Brief(q)', scenario.responses, task'[q][d])
  <2>1. Brief(q)' = Brief(q) /\ Backed(Brief(q), scenario.responses, task[q][d])
    BY DEF Brief, EvidenceInv
  <2>2. CASE q = r /\ d = c
    BY <1>1, <2>1, <2>2
  <2>3. CASE ~ (q = r /\ d = c)
    <3>1. task'[q][d] = task[q][d]
      BY <1>1, <2>3
    <3> QED BY <2>1, <3>1
  <2> QED BY <2>2, <2>3
<1> QED BY <1>2 DEF EvidenceInv

\* What an unchanged cache, and one that takes a report that stands, keep.
LEMMA CacheStays ==
    ASSUME EvidenceInv, cache' = cache
    PROVE  \A k \in DOMAIN cache' : Standing(cache'[k].report)
BY DEF EvidenceInv

LEMMA CacheTakesIt ==
    ASSUME EvidenceInv, NEW report, SetCache(report), Standing(report)
    PROVE  \A k \in DOMAIN cache' : Standing(cache'[k].report)
<1>1. DOMAIN cache' = DOMAIN cache \cup {report.key}
  BY DEF SetCache
<1>2. ASSUME NEW k \in DOMAIN cache'
      PROVE  \/ cache'[k].report = report
             \/ k \in DOMAIN cache /\ cache'[k].report = cache[k].report
  BY <1>1 DEF SetCache
<1> QED BY <1>2 DEF EvidenceInv

\* A report of a failure rests on nothing.
LEMMA FailureStands ==
    ASSUME NEW c, NEW r, NEW error
    PROVE  Standing(FailedReport(c, r, error))
<1>1. PICK report : report = FailedReport(c, r, error)
  OBVIOUS
<1>2. report.sources = <<>> /\ report.degraded = {} /\ report.analysis = None
  BY <1>1 DEF FailedReport
<1>3. <<>> \in Distinct({})
  BY NoneDistinct
<1>4. Sourced(report)
  BY <1>2, <1>3 DEF Sourced
<1> QED BY <1>1, <1>2, <1>4 DEF Standing

\* A report served from the cache stands as it stood there.
LEMMA LookUpBacked ==
    ASSUME Inv, EvidenceInv, NEW p \in Tasks, LookUp(p) PROVE EvidenceInv'
<1>1. PICK r \in Run, c \in scenario.categories : p = <<r, c>>
  BY DEF Tasks
<1> DEFINE old == task[r][c]
           k == Key(c, Brief(r))
<1>2. old.phase = "looking" /\ UNCHANGED <<scenario, now, stage, cache>> /\ p[1] = r /\ p[2] = c
  BY <1>1 DEF LookUp, Phase
<1>3. DOMAIN old = TaskFields /\ Len(old.searches) = 0 /\ old.drafts = None /\ Shape /\ CacheInv
  BY <1>2 DEF Inv, TaskInv, IsTask, Swept, Declared
<1>4. CASE k \in DOMAIN cache /\ Servable(c, r, cache[k].report)
           /\ SetTask(p, [old EXCEPT !.phase = "done", !.report = [cache[k].report EXCEPT !.cached = TRUE]])
  <2>1. PICK kept, report : kept = cache[k].report /\ report = [kept EXCEPT !.cached = TRUE]
    OBVIOUS
  <2>2. PICK t : t = [old EXCEPT !.phase = "done", !.report = report]
    OBVIOUS
  <2>3. task' = [task EXCEPT ![r][c] = t]
    BY <1>2, <1>4, <2>1, <2>2 DEF SetTask
  <2>4. t.phase = "done" /\ t.report = report /\ t.searches = old.searches /\ t.drafts = None
    BY <1>3, <2>2 DEF TaskFields
  <2>5. DOMAIN kept = ReportFields /\ Standing(kept)
    BY <1>3, <1>4, <2>1 DEF CacheInv, EvidenceInv
  <2>6. report.sources = kept.sources /\ report.degraded = kept.degraded /\ report.analysis = kept.analysis
    BY <2>1, <2>5 DEF ReportFields
  <2>7. Standing(report)
    BY <2>5, <2>6 DEF Standing, Sourced, Verbatim, Earned
  <2>8. Backed(Brief(r), scenario.responses, t)
    BY <1>3, <2>4, <2>7 DEF Backed
  <2> QED BY <1>2, <1>3, <2>3, <2>8, CacheStays, TaskBacked
<1>5. CASE SetTask(p, [old EXCEPT !.phase = "searching",
              !.searches = [i \in 1 .. Len(Searches(c, Brief(r))) |->
                 [state |-> "waiting", since |-> 0, results |-> <<>>, images |-> {}, error |-> None]]])
  <2>1. PICK n \in Nat : n = Len(Searches(c, Brief(r)))
    BY SearchesLength
  <2>2. PICK searches : searches = [i \in 1 .. n |->
           [state |-> "waiting", since |-> 0, results |-> <<>>, images |-> {}, error |-> None]]
    OBVIOUS
  <2>3. Len(searches) = n
    <3>1. searches = [i \in 1 .. n |-> searches[i]]
      BY <2>2
    <3> QED BY <3>1, LengthOf
  <2>4. \A i \in 1 .. n : searches[i].results = <<>>
    BY <2>2
  <2>5. PICK t : t = [old EXCEPT !.phase = "searching", !.searches = searches]
    OBVIOUS
  <2>6. task' = [task EXCEPT ![r][c] = t]
    BY <1>2, <1>5, <2>1, <2>2, <2>5 DEF SetTask
  <2>7. t.phase = "searching" /\ t.searches = searches /\ t.drafts = None
    BY <1>3, <2>5 DEF TaskFields
  <2>8. Backed(Brief(r), scenario.responses, t)
    BY <2>3, <2>4, <2>7 DEF Backed, Returned, Reporters
  <2> QED BY <1>2, <1>3, <2>6, <2>8, CacheStays, TaskBacked
<1> QED BY <1>1, <1>2, <1>4, <1>5 DEF LookUp

\* One search of a task changes.
LEMMA SearchBacked ==
    ASSUME Inv, EvidenceInv, NEW r \in Run, NEW c \in scenario.categories, NEW i \in 1 .. Len(task[r][c].searches),
           NEW s, task[r][c].phase = "searching", Returned(s, scenario.responses), SetSearch(<<r, c>>, i, s),
           UNCHANGED <<scenario, now, stage, cache>>
    PROVE  EvidenceInv'
<1> DEFINE old == task[r][c]
<1>1. /\ Shape /\ DOMAIN old = TaskFields /\ Len(old.searches) \in Nat /\ DOMAIN old.searches = 1 .. Len(old.searches)
      /\ DOMAIN task = Run /\ DOMAIN task[r] = scenario.categories /\ old.drafts = None
  BY DEF Inv, TaskInv, IsTask, Declared, Shape
<1>2. PICK searches : searches = [old.searches EXCEPT ![i] = s]
  OBVIOUS
<1>3. searches[i] = s /\ \A j \in 1 .. Len(old.searches) : j # i => searches[j] = old.searches[j]
  BY <1>1, <1>2
<1>4. Len(searches) = Len(old.searches)
  <2>1. searches = [j \in 1 .. Len(old.searches) |-> searches[j]]
    BY <1>1, <1>2
  <2> QED BY <1>1, <2>1, LengthOf
<1>5. PICK t : t = [old EXCEPT !.searches = searches]
  OBVIOUS
<1>6. task' = [task EXCEPT ![r][c] = t]
  BY <1>1, <1>2, <1>5 DEF SetSearch
<1>7. t.phase = "searching" /\ t.searches = searches /\ t.drafts = None
  BY <1>1, <1>5 DEF TaskFields
<1>8. Backed(Brief(r), scenario.responses, old)
  BY DEF EvidenceInv
<1>9. Backed(Brief(r), scenario.responses, t)
  BY <1>3, <1>4, <1>7, <1>8 DEF Backed, Reporters
<1> QED BY <1>1, <1>6, <1>9, CacheStays, TaskBacked

\* A search brings a response's results or none.
LEMMA SearchesBacked ==
    ASSUME Inv, EvidenceInv, NEW p \in Tasks, NEW i \in SearchesOf(p),
           SearchAnswers(p, i) \/ SearchFails(p, i) \/ SearchTimesOut(p, i) \/ EnterGate(p, i)
    PROVE  EvidenceInv'
<1>1. PICK r \in Run, c \in scenario.categories : p = <<r, c>>
  BY DEF Tasks
<1>2. task[r][c].phase = "searching" /\ i \in 1 .. Len(task[r][c].searches) /\ UNCHANGED <<scenario, now, stage, cache>>
  BY <1>1 DEF SearchAnswers, SearchFails, SearchTimesOut, EnterGate, SearchIn, Phase, SearchesOf
<1>3. CASE SearchAnswers(p, i)
  <2>1. PICK response \in scenario.responses :
           SetSearch(p, i, [state |-> "answered", since |-> 0, results |-> response.results,
                            images |-> response.images, error |-> None])
    BY <1>3 DEF SearchAnswers
  <2>2. PICK s : s = [state |-> "answered", since |-> 0, results |-> response.results,
                      images |-> response.images, error |-> None]
    OBVIOUS
  <2>3. Returned(s, scenario.responses)
    BY <2>2 DEF Returned
  <2> QED BY <1>1, <1>2, <2>1, <2>2, <2>3, SearchBacked
<1>4. CASE SearchFails(p, i) \/ SearchTimesOut(p, i)
  <2>1. PICK error : Fail(i, p, error)
    BY <1>4 DEF SearchFails, SearchTimesOut
  <2>2. PICK s : s = [state |-> "failed", since |-> 0, results |-> <<>>, images |-> {}, error |-> error]
    OBVIOUS
  <2>3. Returned(s, scenario.responses)
    BY <2>2 DEF Returned
  <2> QED BY <1>1, <1>2, <2>1, <2>2, <2>3, SearchBacked DEF Fail
<1>5. CASE EnterGate(p, i)
  <2>1. PICK s : s = [state |-> "flying", since |-> now, results |-> <<>>, images |-> {}, error |-> None]
    OBVIOUS
  <2>2. Returned(s, scenario.responses)
    BY <2>1 DEF Returned
  <2> QED BY <1>1, <1>2, <1>5, <2>1, <2>2, SearchBacked DEF EnterGate
<1> QED BY <1>3, <1>4, <1>5

\* A report made of the searches rests on what they brought.
LEMMA CollectBacked ==
    ASSUME Inv, EvidenceInv, NEW p \in Tasks, Collect(p) PROVE EvidenceInv'
<1>1. PICK r \in Run, c \in scenario.categories : p = <<r, c>>
  BY DEF Tasks
<1> DEFINE old == task[r][c]
<1>2. old.phase = "searching" /\ UNCHANGED <<scenario, now, stage, cache>> /\ p[1] = r /\ p[2] = c
  BY <1>1 DEF Collect, Phase
<1>3. /\ Shape /\ IsTask(old) /\ DOMAIN old = TaskFields /\ old.drafts = None
      /\ Len(old.searches) = Len(Searches(c, Brief(r))) /\ Backed(Brief(r), scenario.responses, old)
  BY <1>2 DEF Inv, TaskInv, IsTask, Declared, EvidenceInv
<1>4. CASE \A i \in 1 .. Len(old.searches) : old.searches[i].state = "failed"
  <2>1. PICK t : t = [old EXCEPT !.phase = "done", !.report = FailedReport(c, r, ErrorOf(old))]
    OBVIOUS
  <2>2. task' = [task EXCEPT ![r][c] = t]
    BY <1>2, <1>4, <2>1 DEF Collect, SetTask
  <2>3. t.report = FailedReport(c, r, ErrorOf(old)) /\ t.searches = old.searches /\ t.drafts = None
    BY <1>3, <2>1 DEF TaskFields
  <2>4. Backed(Brief(r), scenario.responses, t)
    BY <1>3, <2>3, FailureStands DEF Backed
  <2> QED BY <1>2, <1>3, <2>2, <2>4, CacheStays, TaskBacked
<1>5. CASE ~ \A i \in 1 .. Len(old.searches) : old.searches[i].state = "failed"
  <2>1. PICK report : report = Collected(p)
    OBVIOUS
  <2>2. PICK u : u = Spent(old)
    OBVIOUS
  <2>3. PICK t : t = IF c \in Structured /\ report.sources # <<>>
                     THEN [u EXCEPT !.phase = "analysing", !.report = report]
                     ELSE Reported(u, report)
    OBVIOUS
  <2>4. task' = [task EXCEPT ![r][c] = t]
    BY <1>2, <1>5, <2>1, <2>2, <2>3 DEF Collect, SetTask
  <2>5. DOMAIN u = TaskFields /\ u.drafts = None /\ Len(u.searches) = Len(old.searches)
    BY <1>3, <2>2, SpentTask
  <2>6. \A i \in 1 .. Len(old.searches) : u.searches[i].results = <<>>
    <3>1. DOMAIN old.searches = 1 .. Len(old.searches) /\ \A i \in 1 .. Len(old.searches) : DOMAIN old.searches[i] = SearchFields
      BY <1>3 DEF IsTask, IsSearch
    <3>2. u.searches = [i \in DOMAIN old.searches |-> [old.searches[i] EXCEPT !.results = <<>>, !.images = {}]]
      BY <1>3, <2>2 DEF Spent, TaskFields
    <3>3. TAKE i \in 1 .. Len(old.searches)
    <3>4. PICK s : s = old.searches[i]
      OBVIOUS
    <3>5. u.searches[i] = [s EXCEPT !.results = <<>>, !.images = {}] /\ "results" \in DOMAIN s
      BY <3>1, <3>2, <3>4 DEF SearchFields
    <3> QED BY <3>5
  <2>7. t.searches = u.searches /\ t.drafts = None /\ t.report = report
    BY <2>3, <2>5 DEF Reported, TaskFields
  <2>8. Sourced(report) /\ report.analysis = None
    <3>1. \A i \in 1 .. Len(Searches(c, Brief(r))) : Returned(task[r][c].searches[i], scenario.responses)
      BY <1>3 DEF Backed
    <3>2. scenario \in Scenarios
      BY <1>3 DEF Shape
    <3> QED BY <1>1, <2>1, <3>1, <3>2, CollectedIn
  <2>9. Backed(Brief(r), scenario.responses, t)
    BY <2>5, <2>6, <2>7, <2>8 DEF Backed, Standing, Returned
  <2> QED BY <1>2, <1>3, <2>4, <2>9, CacheStays, TaskBacked
<1> QED BY <1>4, <1>5

\* What an analysis is shown of a report.
LEMMA ShownOfReport ==
    ASSUME NEW dims, NEW sources \in Distinct(dims), sources # <<>>, NEW shown, shown = ShownSources(sources)
    PROVE  shown \in Seq(Sources(dims)) /\ shown # <<>>
<1>1. AnalysisMaxSources \in Nat \ {0}
  BY ResearchInputs
<1>2. sources \in Seq(Sources(dims))
  BY DEF Distinct
<1>3. shown \in Seq(Sources(dims))
  BY <1>1, <1>2, ShownIn
<1>4. shown # <<>>
  <2>1. PICK n : n = IF Len(sources) < AnalysisMaxSources THEN Len(sources) ELSE AnalysisMaxSources
    OBVIOUS
  <2>2. Len(sources) \in Nat \ {0}
    BY <1>2
  <2>3. n \in 1 .. Len(sources)
    BY <1>1, <2>1, <2>2
  <2>4. shown = SubSeq(sources, 1, n)
    BY <2>1 DEF ShownSources
  <2>5. Len(shown) = n
    BY <1>2, <2>3, <2>4
  <2> QED BY <2>3, <2>5
<1> QED BY <1>3, <1>4

\* A report whose analysis has just been made.
LEMMA AnalysedStands ==
    ASSUME NEW c, NEW drafts, NEW old, NEW report, Sourced(old), old.sources # <<>>,
           report.sources = old.sources, report.degraded = old.degraded,
           report.analysis = GroundAnalysis(c, drafts, ShownSources(old.sources)), Quoting(drafts)
    PROVE  Standing(report)
<1>1. PICK dims : report.sources \in Distinct(dims) /\ report.degraded \cap dims = {}
  BY DEF Sourced
<1>2. Sourced(report)
  BY <1>1 DEF Sourced
<1>3. AnalysisMaxSources \in Nat
  BY ResearchInputs
<1>4. report.analysis = GroundAnalysis(c, drafts, ShownSources(report.sources))
  OBVIOUS
<1>5. report.analysis # None => Verbatim(report) /\ Earned(report)
  BY <1>1, <1>3, <1>4, AnalysisStands
<1> QED BY <1>2, <1>5 DEF Standing

\* An analysis is grounded in the report it is put on.
LEMMA AnalyseBacked ==
    ASSUME Inv, EvidenceInv, NEW p \in Tasks, Analyse(p) PROVE EvidenceInv'
<1>1. PICK r \in Run, c \in scenario.categories : p = <<r, c>>
  BY DEF Tasks
<1> DEFINE old == task[r][c]
<1>2. old.phase = "analysing" /\ UNCHANGED <<scenario, now, stage, cache>> /\ p[1] = r /\ p[2] = c
  BY <1>1 DEF Analyse, Phase
<1>3. /\ Shape /\ DOMAIN old = TaskFields /\ old.drafts = None /\ DOMAIN old.report = ReportFields
      /\ Evidence(r, c, old.report) /\ old.report.sources # <<>> /\ Backed(Brief(r), scenario.responses, old)
      /\ Standing(old.report)
  BY <1>2 DEF Inv, TaskInv, IsTask, Declared, Reporting, Reporters, EvidenceInv, Backed
<1>4. CASE \E error \in scenario.errors :
              SetTask(p, [old EXCEPT !.phase = "done", !.report = FailedReport(c, r, error)])
  <2>1. PICK error \in scenario.errors :
              SetTask(p, [old EXCEPT !.phase = "done", !.report = FailedReport(c, r, error)])
    BY <1>4
  <2>2. PICK t : t = [old EXCEPT !.phase = "done", !.report = FailedReport(c, r, error)]
    OBVIOUS
  <2>3. task' = [task EXCEPT ![r][c] = t]
    BY <1>2, <2>1, <2>2 DEF SetTask
  <2>4. t.report = FailedReport(c, r, error) /\ t.searches = old.searches /\ t.drafts = None
    BY <1>3, <2>2 DEF TaskFields
  <2>5. Backed(Brief(r), scenario.responses, t)
    BY <1>3, <2>4, FailureStands DEF Backed
  <2> QED BY <1>2, <1>3, <2>3, <2>5, CacheStays, TaskBacked
<1>5. ASSUME NEW drafts \in Drafts(c, Brief(r), ShownSources(old.report.sources)),
             SetTask(p, AnalysedTask(p, old, drafts, GroundAnalysis(c, drafts, ShownSources(old.report.sources))))
      PROVE  EvidenceInv'
  <2>1. PICK sources, b : sources = old.report.sources /\ b = Brief(r)
    OBVIOUS
  <2>2. PICK shown : shown = ShownSources(sources)
    OBVIOUS
  <2>3. PICK insights : insights = GroundAnalysis(c, drafts, shown)
    OBVIOUS
  <2>4. PICK coverage, limits : /\ coverage = CoverageStatus(insights, Cardinality(DimensionsOf(c, b)))
                                /\ limits = Limitations(drafts, shown)
    OBVIOUS
  <2>5. PICK t : t = AnalysedTask(p, old, drafts, insights)
    OBVIOUS
  <2>6. task' = [task EXCEPT ![r][c] = t]
    BY <1>2, <1>5, <2>1, <2>2, <2>3, <2>5 DEF SetTask
  <2>7. PICK dims : sources \in Distinct(dims)
    BY <1>3, <2>1 DEF Standing, Sourced
  <2>8. shown \in Seq(Sources(dims)) /\ shown # <<>>
    BY <1>3, <2>1, <2>2, <2>7, ShownOfReport
  <2>9. Quoting(drafts)
    <3>1. drafts \in Drafts(c, b, shown) /\ scenario \in Scenarios
      BY <1>3, <1>5, <2>1, <2>2 DEF Shape
    <3> QED BY <2>8, <3>1, DraftsQuote
  <2>10. Honest(b, drafts, shown)
    BY <2>8, <2>9, DraftsAreHonest
  <2>11. PICK noted : noted = [given |-> drafts, shown |-> shown]
    OBVIOUS
  <2>12. noted.given = drafts /\ noted.shown = shown
    BY <2>11
  <2>13. CASE insights = None
    <3>1. t = [[old EXCEPT !.phase = "done", !.report = FailedReport(c, r, "ProviderResponseError")]
               EXCEPT !.drafts = noted]
      BY <1>2, <2>1, <2>2, <2>5, <2>11, <2>13 DEF AnalysedTask
    <3>2. t.report = FailedReport(c, r, "ProviderResponseError") /\ t.searches = old.searches /\ t.drafts = noted
      BY <1>3, <3>1 DEF TaskFields
    <3>3. Backed(b, scenario.responses, t)
      BY <1>3, <2>10, <2>12, <3>2, FailureStands DEF Backed
    <3> QED BY <1>2, <1>3, <2>1, <2>6, <3>3, CacheStays, TaskBacked
  <2>14. CASE insights # None
    <3>1. PICK report : report = [old.report EXCEPT !.analysis = insights, !.coverage = coverage, !.limitations = limits]
      OBVIOUS
    <3>2. t = [Reported(old, report) EXCEPT !.drafts = noted]
      BY <1>2, <2>1, <2>2, <2>4, <2>5, <2>11, <2>14, <3>1 DEF AnalysedTask
    <3>3. report.analysis = insights /\ report.sources = sources /\ report.degraded = old.report.degraded
      BY <1>3, <2>1, <3>1 DEF ReportFields
    <3>4. t.report = report /\ t.searches = old.searches /\ t.drafts = noted
      BY <1>3, <3>2 DEF TaskFields, Reported
    <3>5. Standing(report)
      <4>1. PICK before : before = old.report
        OBVIOUS
      <4>2. Sourced(before) /\ before.sources # <<>> /\ report.sources = before.sources
            /\ report.degraded = before.degraded /\ report.analysis = GroundAnalysis(c, drafts, ShownSources(before.sources))
        BY <1>3, <2>1, <2>2, <2>3, <3>3, <4>1 DEF Standing
      <4> QED BY <2>9, <4>2, AnalysedStands
    <3>6. Backed(b, scenario.responses, t)
      BY <1>3, <2>10, <2>12, <3>4, <3>5 DEF Backed
    <3> QED BY <1>2, <1>3, <2>1, <2>6, <3>6, CacheStays, TaskBacked
  <2> QED BY <2>13, <2>14
<1>6. \/ \E error \in scenario.errors :
            SetTask(p, [old EXCEPT !.phase = "done", !.report = FailedReport(c, r, error)])
      \/ \E drafts \in Drafts(c, Brief(r), ShownSources(old.report.sources)) :
            SetTask(p, AnalysedTask(p, old, drafts, GroundAnalysis(c, drafts, ShownSources(old.report.sources))))
  BY <1>2 DEF Analyse
<1> QED BY <1>4, <1>5, <1>6

\* A report goes to the cache as it stands.
LEMMA StoreBacked ==
    ASSUME Inv, EvidenceInv, NEW p \in Tasks, Store(p) PROVE EvidenceInv'
<1>1. PICK r \in Run, c \in scenario.categories : p = <<r, c>>
  BY DEF Tasks
<1> DEFINE old == task[r][c]
<1>2. old.phase = "storing" /\ UNCHANGED <<scenario, now, stage>> /\ p[1] = r /\ p[2] = c
      /\ SetTask(p, [old EXCEPT !.phase = "done"]) /\ (cache' = cache \/ SetCache(old.report))
  BY <1>1 DEF Store, Phase
<1>3. Shape /\ DOMAIN old = TaskFields /\ Backed(Brief(r), scenario.responses, old) /\ Standing(old.report)
  BY <1>2 DEF Inv, TaskInv, IsTask, EvidenceInv, Backed, Reporters
<1>4. \A k \in DOMAIN cache' : Standing(cache'[k].report)
  <2>1. PICK report : report = old.report
    OBVIOUS
  <2> QED BY <1>2, <1>3, <2>1, CacheStays, CacheTakesIt
<1>5. PICK t : t = [old EXCEPT !.phase = "done"]
  OBVIOUS
<1>6. task' = [task EXCEPT ![r][c] = t]
  BY <1>2, <1>5 DEF SetTask
<1>7. t.report = old.report /\ t.searches = old.searches /\ t.drafts = old.drafts
  BY <1>3, <1>5 DEF TaskFields
<1>8. Backed(Brief(r), scenario.responses, t)
  BY <1>3, <1>7 DEF Backed
<1> QED BY <1>2, <1>3, <1>4, <1>6, <1>8, TaskBacked

\* A task that is given up reports nothing; the cache may have taken what it found.
LEMMA TaskTimesOutBacked ==
    ASSUME Inv, EvidenceInv, NEW p \in Tasks, TaskTimesOut(p) PROVE EvidenceInv'
<1>1. PICK r \in Run, c \in scenario.categories : p = <<r, c>>
  BY DEF Tasks
<1> DEFINE old == task[r][c]
<1>2. /\ UNCHANGED <<scenario, now, stage>> /\ p[1] = r /\ p[2] = c
      /\ SetTask(p, [old EXCEPT !.phase = "done", !.report = FailedReport(c, r, "TimeoutError"),
                                !.searches = CancelSearches(old)])
      /\ (cache' = cache \/ (old.phase = "storing" /\ SetCache(old.report)))
  BY <1>1 DEF TaskTimesOut, Phase
<1>3. IsTask(old) /\ DOMAIN old = TaskFields /\ Len(old.searches) \in Nat /\ Shape
      /\ Backed(Brief(r), scenario.responses, old)
  BY DEF Inv, TaskInv, IsTask, EvidenceInv
<1>4. \A k \in DOMAIN cache' : Standing(cache'[k].report)
  <2>1. PICK report : report = old.report
    OBVIOUS
  <2>2. old.phase = "storing" => Standing(report)
    BY <1>3, <2>1 DEF Backed, Reporters
  <2> QED BY <1>2, <2>1, <2>2, CacheStays, CacheTakesIt
<1>5. PICK searches : searches = CancelSearches(old)
  OBVIOUS
<1>6. Len(searches) = Len(old.searches)
  <2>1. searches = [i \in 1 .. Len(old.searches) |-> searches[i]]
    BY <1>5 DEF CancelSearches
  <2> QED BY <1>3, <2>1, LengthOf
<1>7. ASSUME NEW i \in 1 .. Len(old.searches) PROVE searches[i].results = old.searches[i].results
  <2>1. PICK s : s = old.searches[i]
    OBVIOUS
  <2>2. DOMAIN s = SearchFields
    BY <1>3, <2>1 DEF IsTask, IsSearch
  <2>3. searches[i] = IF s.state \in {"waiting", "flying"} THEN [s EXCEPT !.state = "cancelled", !.since = 0] ELSE s
    BY <1>5, <2>1 DEF CancelSearches
  <2> QED BY <2>1, <2>2, <2>3 DEF SearchFields
<1>8. PICK t : t = [old EXCEPT !.phase = "done", !.report = FailedReport(c, r, "TimeoutError"),
                               !.searches = searches]
  OBVIOUS
<1>9. task' = [task EXCEPT ![r][c] = t]
  BY <1>2, <1>5, <1>8 DEF SetTask
<1>10. t.report = FailedReport(c, r, "TimeoutError") /\ t.searches = searches /\ t.drafts = old.drafts
  BY <1>3, <1>8 DEF TaskFields
<1>11. Backed(Brief(r), scenario.responses, t)
  BY <1>3, <1>6, <1>7, <1>10, FailureStands DEF Backed, Returned
<1> QED BY <1>2, <1>3, <1>4, <1>9, <1>11, TaskBacked

\* A stage begins with tasks that have nothing yet.
LEMMA StartStageBacked ==
    ASSUME Inv, EvidenceInv, NEW r \in Run, StartStage(r) PROVE EvidenceInv'
<1>1. Shape /\ UNCHANGED <<scenario, cache>>
  BY DEF Inv, StartStage
<1>2. PICK t : t = [NoTask EXCEPT !.phase = "looking", !.deadline = Deadline(r)]
  OBVIOUS
<1>3. Len(t.searches) = 0 /\ t.phase = "looking" /\ t.drafts = None
  BY <1>2 DEF NoTask
<1>4. ASSUME NEW q \in Run, NEW c \in scenario.categories
      PROVE  task'[q][c] = task[q][c] \/ task'[q][c] = t
  BY <1>1, <1>2 DEF StartStage, Shape
<1>5. ASSUME NEW b PROVE Backed(b, scenario.responses, t)
  BY <1>3 DEF Backed, Reporters
<1>6. ASSUME NEW q \in Run, NEW c \in scenario.categories
      PROVE  Backed(Brief(q)', scenario.responses, task'[q][c])
  <2>1. Brief(q)' = Brief(q) /\ Backed(Brief(q), scenario.responses, task[q][c])
    BY <1>1 DEF Brief, EvidenceInv
  <2> QED BY <1>4, <1>5, <2>1
<1> QED BY <1>1, <1>6, CacheStays DEF EvidenceInv

\* No step of a stage, a task or time takes a report's ground away.
LEMMA NextBacked ==
    ASSUME Inv, EvidenceInv, [Next]_vars PROVE EvidenceInv'
<1>1. CASE \E r \in Run : StartStage(r)
  BY <1>1, StartStageBacked
<1>2. CASE \E p \in Tasks : LookUp(p) \/ Collect(p) \/ Analyse(p) \/ Store(p) \/ TaskTimesOut(p)
  BY <1>2, LookUpBacked, CollectBacked, AnalyseBacked, StoreBacked, TaskTimesOutBacked
<1>3. CASE \E p \in Tasks : \E i \in SearchesOf(p) :
              SearchAnswers(p, i) \/ SearchFails(p, i) \/ SearchTimesOut(p, i) \/ EnterGate(p, i)
  BY <1>3, SearchesBacked
<1>4. CASE (\E r \in Run : EndStage(r)) \/ Tick \/ UNCHANGED vars
  <2>1. UNCHANGED <<scenario, task>>
    BY <1>4 DEF EndStage, Tick, vars
  <2>2. \A k \in DOMAIN cache' : k \in DOMAIN cache /\ cache'[k] = cache[k]
    BY <1>4 DEF EndStage, Tick, vars
  <2> QED BY <2>1, <2>2 DEF EvidenceInv, Brief
<1> QED BY <1>1, <1>2, <1>3, <1>4 DEF Next, Loop

LEMMA InitBacked == Init => EvidenceInv
<1> SUFFICES ASSUME Init PROVE EvidenceInv
  OBVIOUS
<1>1. ASSUME NEW r \in Run, NEW c \in scenario.categories PROVE Backed(Brief(r), scenario.responses, task[r][c])
  <2>1. PICK t : t = task[r][c]
    OBVIOUS
  <2>2. t.phase = "absent" /\ Len(t.searches) = 0 /\ t.drafts = None
    BY <2>1 DEF Init, NoTask
  <2> QED BY <2>1, <2>2 DEF Backed, Reporters
<1> QED BY <1>1 DEF Init, EvidenceInv

\* What the invariant says of the reports.
LEMMA InvEvidence == Inv /\ EvidenceInv => EvidenceStands
<1> SUFFICES ASSUME Inv, EvidenceInv PROVE EvidenceStands
  OBVIOUS
<1>1. ASSUME NEW report \in Reports PROVE Standing(report)
  BY ReportsAreOfTasks DEF EvidenceInv, Backed, Reporters
<1>2. QualityInRange
  <2>1. ASSUME NEW report \in Reports, NEW i \in 1 .. Len(report.sources) PROVE report.sources[i].quality \in Scale
    <3>1. PICK dims : report.sources \in Seq(Sources(dims))
      BY <1>1 DEF Standing, Sourced, Distinct
    <3>2. PICK source \in Sources(dims) : source = report.sources[i]
      BY <3>1
    <3> QED BY <3>2 DEF Sources
  <2> QED BY <2>1 DEF QualityInRange, Scale
<1>3. QuotesAreVerbatim /\ HighIsEarned
  BY <1>1 DEF QuotesAreVerbatim, HighIsEarned, Standing, Verbatim, Earned
<1>4. HonestQuotesSurvive
  <2>1. SUFFICES ASSUME NEW p \in Tasks, task[p[1]][p[2]].drafts # None
                 PROVE  Honest(Brief(p[1]), task[p[1]][p[2]].drafts.given, task[p[1]][p[2]].drafts.shown)
    BY DEF HonestQuotesSurvive, Honest
  <2>2. PICK r \in Run, c \in scenario.categories : p = <<r, c>>
    BY DEF Tasks
  <2> QED BY <2>1, <2>2 DEF EvidenceInv, Backed
<1> QED BY <1>2, <1>3, <1>4 DEF EvidenceStands

\* A report holds what its sources say, for all texts, limits, categories and answers of
\* providers and models: every quote stands word for word in a source the report lists,
\* high confidence rests on pages of high quality found for the observation's own
\* dimension and never on one whose search failed, and what a model copied from the
\* passages it was shown is found in that source (quality.py, relevant_window,
\* _evidence_source, _ground_insight).
THEOREM EvidenceSound ==
    ASSUME NoneIsNoInsight PROVE Spec => []EvidenceStands
<1>1. Spec => []Inv
  BY AlwaysInv
<1>2. Inv /\ EvidenceInv /\ [Next]_vars => EvidenceInv'
  BY NextBacked
<1>3. Spec => []EvidenceInv
  BY <1>1, <1>2, InitBacked, PTL DEF Spec
<1> QED BY <1>1, <1>3, InvEvidence, PTL
=============================================================================
