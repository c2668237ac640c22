------------------------------- MODULE Review -------------------------------
(***************************************************************************)
(* The review of a certified render: the marketing, design and vision critics, *)
(* the revision director their findings go to, and the scoring of the evidence.  *)
(*                                                                          *)
(* Scores are hundredths.  What a critic writes about a problem is reduced to    *)
(* how complete it is ("none", "part" of the fields, "blank" texts, "full") and,   *)
(* for the vision critic, its length.                                         *)
(***************************************************************************)
EXTENDS SupervisorPlan, Integers, FiniteSets, Functions, Selection

MaxRevisions == 2       \* of each critic, over the history of the post
MaxIterations == 20
MaxFindings == 30
MaxIssues == 40
MaxWhy == 1000
ObservedChars == 21     \* " Expected; observed: "

\* Everything a stage reads was made under one contract, and the bytes in storage are
\* the ones the draft describes; an empty list of policies has no fingerprint.
ReadBy ==
    [verification |-> {"semantic_contract", "copy", "design_spec", "post_draft", "assets"},
     quality_review |-> {"semantic_contract", "marketing_strategy", "copy", "post_draft"},
     design_review |-> {"semantic_contract", "art_direction", "design_spec", "post_draft"},
     vision_review |-> {"semantic_contract", "copy", "design_spec", "post_draft", "assets"}]

\* Mutant: the bytes are taken as they are.
SameContract(stage, p) ==
    LET read == ReadBy[stage] \ (IF p.policies = {} THEN {"assets"} ELSE {})
    IN  Cardinality({p.prints[s] : s \in read}) = 1

DescribesOneRender(stage, p) ==
    LET read == ReadBy[stage] \ (IF p.policies = {} THEN {"assets"} ELSE {})
    IN  Cardinality({p.prints[s] : s \in read}) = 1 /\ p.bytes = p.draft.checksum

----------------------------------------------------------------------------
\* The revision director.
Alphabet == <<"color", "concept", "copy", "layout", "product", "scene", "strategy", "typography">>
Change ==
    [copy |-> "copy", typography |-> "design_spec", layout |-> "design_spec", color |-> "design_spec",
     scene |-> "generation_artifacts", product |-> "assets", strategy |-> "marketing_strategy",
     concept |-> "creative_concept"]
Preservable ==
    {"conversation_context", "brief", "semantic_contract", "brand", "product", "audience", "research",
     "marketing_strategy", "creative_concept", "copy", "art_direction", "design_spec", "assets",
     "generation_plan"}

IndexIn(sequence, item) == CHOOSE i \in DOMAIN sequence : sequence[i] = item
StageIndex(route) == CHOOSE i \in DOMAIN DefaultPlan : DefaultPlan[i].stage = Routing[route]

\* SupervisorPlan.downstream; the plan lists a stage after the ones it depends on.
Joined(before, policy, target) ==
    IF policy.stage = target \/ policy.dependencies \cap before # {}
    THEN before \cup {policy.stage} ELSE before
ReachedUpTo(target) ==
    LET reached[i \in 0 .. Len(DefaultPlan)] ==
            IF i = 0 THEN {} ELSE Joined(reached[i - 1], DefaultPlan[i], target)
    IN  reached
Downstream(target) == ReachedUpTo(target)[Len(DefaultPlan)]
Rewritten(target) ==
    UNION {Range(DefaultPlan[i].outputs) :
              i \in {i \in DOMAIN DefaultPlan : DefaultPlan[i].stage \in Downstream(target)}}

\* Mutant: findings are ordered by the names of their routes.
PrimaryByName(routes) ==
    CHOOSE r \in routes : \A q \in routes : IndexIn(Alphabet, r) <= IndexIn(Alphabet, q)

\* The route of the earliest stage; names break ties.
Primary(routes) ==
    CHOOSE r \in routes : \A q \in routes :
       \/ StageIndex(r) < StageIndex(q)
       \/ StageIndex(r) = StageIndex(q) /\ IndexIn(Alphabet, r) <= IndexIn(Alphabet, q)

\* plan: history is the sequence of earlier instructions, each one iteration further.
Instruction(findings, by, history, reference) ==
    LET routes == {f.route : f \in Range(findings)}
        target == Routing[Primary(routes)]
        change == {Change[r] : r \in routes}
    IN  [route |-> Primary(routes), target |-> target, by |-> by, findings |-> Range(findings),
         change |-> change, keep |-> (Preservable \ Rewritten(target)) \ change,
         reference |-> reference, status |-> "pending", iteration |-> Len(history) + 1]

\* What the schemas of an instruction and its findings refuse.
InstructionErrors(findings, history) ==
    \/ findings = <<>> \/ Len(findings) > MaxFindings
    \/ \E f \in Range(findings) : f.chars > MaxWhy
    \/ Len(history) >= MaxIterations

\* append: the same open instruction is not filed twice.
Filed(history, instruction) ==
    IF IF history = <<>> THEN FALSE
       ELSE [history[Len(history)] EXCEPT !.iteration = instruction.iteration] = instruction
    THEN history ELSE Append(history, instruction)

\* mark_stage_completed: the stage a revision reopened has run again.
Settled(history) == [history EXCEPT ![Len(history)].status = "completed"]

RequestsOf(history, by) == Len(SelectSeq(history, LAMBDA i : i.by = by))

Finding(route, source, chars) == [route |-> route, source |-> source, chars |-> chars]

----------------------------------------------------------------------------
\* The critics: what makes an answer unusable, and the report made from a usable one.
MarketingDimensions ==
    <<"objective_alignment", "audience_relevance", "positioning", "message_clarity",
      "usp_value_proposition", "single_minded_message", "cta", "strategy_consistency">>
CopyDimensions == {"message_clarity", "single_minded_message", "cta"}
MarketingPassScore == 8

Covers(items, dimensions) ==
    Len(items) = Len(dimensions) /\ {i.dimension : i \in Range(items)} = Range(dimensions)
By(items, d) == CHOOSE i \in Range(items) : i.dimension = d

\* x is a sequence of reviews: dimension, score and diagnosis.
MarketingUnusable(x) ==
    \/ ~ Covers(x, MarketingDimensions)
    \/ \E r \in Range(x) :
          \/ r.score \notin 1 .. 10
          \/ r.diagnosis # (IF r.score < MarketingPassScore THEN "full" ELSE "none")
MarketingFindingsOf(x) ==
    LET weak == Chosen(x, {r \in Range(x) : r.score < MarketingPassScore})
    IN  [i \in DOMAIN weak |->
           Finding(IF weak[i].dimension \in CopyDimensions THEN "copy" ELSE "strategy",
                   weak[i].dimension, 0)]

Report(p, findings, facts) ==
    [decision |-> IF findings = <<>> THEN "PASS" ELSE "REVISE", findings |-> findings,
     facts |-> facts, print |-> p.prints["post_draft"], render |-> p.draft.render,
     checksum |-> p.draft.checksum, seen |-> p.bytes, history |-> p.history]
MarketingReport(p, x) ==
    Report(p, MarketingFindingsOf(x), [d \in Range(MarketingDimensions) |-> By(x, d).score])

DesignDimensions ==
    <<"composition", "hierarchy", "typography", "spacing", "alignment", "color", "contrast",
      "balance", "focal_point", "negative_space", "brand_consistency", "product_dominance",
      "creativity", "platform_fit", "mobile_readability", "polish">>

\* x is a sequence of checks: dimension, severity ("none" when it passed) and diagnosis.
Passed(c) == c.severity = "none"
DesignUnusable(x) ==
    \/ ~ Covers(x, DesignDimensions)
    \/ \E c \in Range(x) : IF Passed(c) THEN c.diagnosis # "none" ELSE c.diagnosis \in {"none", "part"}

\* A blank diagnosis passes the readout's schema and fails the report's.
DesignBlank(x) == \E c \in Range(x) : c.diagnosis = "blank"

\* _target_stage and _revision_route: what belongs to the art direction is routed to
\* the layout all the same.
DesignRoute(d) ==
    CASE d = "creativity" -> "concept"
      [] d \in {"typography", "color"} -> d
      [] OTHER -> "layout"
DesignFindingsOf(x) ==
    LET failed == Chosen(x, {c \in Range(x) : ~ Passed(c)})
    IN  [i \in DOMAIN failed |-> Finding(DesignRoute(failed[i].dimension), failed[i].dimension, 0)]
DesignReport(p, x) ==
    Report(p, DesignFindingsOf(x), [d \in Range(DesignDimensions) |-> By(x, d).severity])

VisionDimensions ==
    <<"visual_hierarchy", "readability", "product_fidelity", "logo_appearance", "crops", "overlaps",
      "spacing", "distortion", "ai_artifacts", "visual_balance", "focal_point", "subject_scale",
      "cta_visibility", "text_legibility">>

\* x is what was assessed and a sequence of issues: dimension, severity, the characters
\* of what was expected and observed.
VisionUnusable(x) == Range(x.assessed) # Range(VisionDimensions)
                     \/ Len(x.assessed) # Len(VisionDimensions) \/ Len(x.issues) > MaxIssues
VisionRoute(d) ==
    CASE d \in {"product_fidelity", "logo_appearance"} -> "product"
      [] d \in {"ai_artifacts", "distortion"} -> "scene"
      [] d \in {"readability", "cta_visibility", "text_legibility"} -> "typography"
      [] OTHER -> "layout"
VisionFindingsOf(x) ==
    [i \in DOMAIN x.issues |->
        Finding(VisionRoute(x.issues[i].dimension), x.issues[i].dimension, x.issues[i].chars + ObservedChars)]
VisionReport(p, x) == Report(p, VisionFindingsOf(x), x.issues)

----------------------------------------------------------------------------
\* The scoring of the evidence.
SeverityScore == [none |-> 1000, low |-> 750, medium |-> 650, high |-> 500, critical |-> 200]
QualityDimensions ==
    <<"marketing_effectiveness", "creative_concept", "composition", "visual_hierarchy", "typography",
      "color", "brand_fit", "product_fidelity", "audience_fit", "platform_fit", "differentiation",
      "overall_polish">>
CriticalDimensions == {"marketing_effectiveness", "brand_fit", "product_fidelity", "audience_fit"}
OverallMinimum == 900
Recompose == {"composition", "visual_hierarchy", "typography", "color", "brand_fit",
              "product_fidelity", "platform_fit", "overall_polish"}
Regenerate == {"creative_concept", "differentiation"}

\* Mutant: the two minima are exchanged.
ThresholdExchanged(d) == IF d \in CriticalDimensions THEN 800 ELSE 850

Threshold(d) == IF d \in CriticalDimensions THEN 850 ELSE 800

\* The mean to two decimals; an exact half goes to the even one.
Average(values) ==
    LET n == Len(values)
        sum == SumUpTo(values)[n]
        low == sum \div n
        rest == 2 * (sum % n)
    IN  IF rest > n \/ (rest = n /\ low % 2 = 1) THEN low + 1 ELSE low

Lower(a, b) == IF b < a THEN b ELSE a

\* The worst issue of the vision critic in some dimensions.
Perception(issues, dimensions) ==
    LET scores == {SeverityScore[i.severity] : i \in {i \in Range(issues) : i.dimension \in dimensions}}
    IN  CHOOSE s \in scores \cup {1000} : \A t \in scores \cup {1000} : s <= t

\* _raw_scores: idea is the scorecard of the winning concept, in points.
RawScores(marketing, design, issues, idea, certified) ==
    LET visual(d) == SeverityScore[design[d]]
        points(d) == 100 * idea[d]
        market(d) == 100 * marketing[d]
    IN  [marketing_effectiveness |->
            Average(<<market("objective_alignment"), market("positioning"), market("message_clarity"),
                      market("usp_value_proposition"), market("cta")>>),
         creative_concept |-> Average(<<points("strategy_fit"), points("clarity"), points("visual_potential")>>),
         composition |-> Lower(visual("composition"),
                               Perception(issues, {"crops", "overlaps", "subject_scale"})),
         visual_hierarchy |-> Lower(visual("hierarchy"),
                                    Perception(issues, {"visual_hierarchy", "focal_point"})),
         typography |-> Lower(visual("typography"),
                              Perception(issues, {"readability", "text_legibility", "cta_visibility"})),
         color |-> visual("color"),
         brand_fit |-> Average(<<points("brand_fit"), visual("brand_consistency")>>),
         product_fidelity |-> Lower(IF certified THEN 1000 ELSE 100,
                                    Perception(issues, {"product_fidelity", "logo_appearance", "distortion"})),
         audience_fit |-> Average(<<points("audience_fit"), market("audience_relevance")>>),
         platform_fit |-> Average(<<points("platform_fit"), visual("platform_fit"), visual("mobile_readability")>>),
         differentiation |-> Average(<<points("originality"), points("territory_differentiation")>>),
         overall_polish |-> Average(<<visual("polish"), visual("spacing"), visual("alignment"),
                                      visual("contrast"), visual("balance"), visual("focal_point"),
                                      visual("negative_space"),
                                      Perception(issues, {"spacing", "ai_artifacts", "visual_balance"})>>)]

\* _validate_identity; the draft names the contract and the render that are scored.
OneRenderScored(p) ==
    LET of == p.reports
        print == p.prints["post_draft"]
    IN  /\ {p.prints["creative_concept"]} \cup {of[r].print : r \in DOMAIN of} = {print}
        /\ Cardinality({of[r].render : r \in DOMAIN of}) = 1
        /\ of["verification"].checksum = p.draft.checksum /\ of["vision_review"].checksum = p.draft.checksum

\* _decision
Approval(overall, failed, hard) ==
    IF hard # {} THEN "REJECT"
    ELSE IF failed = {} /\ overall >= OverallMinimum THEN "PASS"
    ELSE IF failed \cap Regenerate # {} THEN "REGENERATE"
    ELSE IF failed \cap Recompose # {} THEN "RECOMPOSE"
    ELSE "MUTATE"

\* _quality_route and the finding made when only the mean is too low.
ScoringRoute(d) ==
    CASE d \in {"marketing_effectiveness", "audience_fit"} -> "strategy"
      [] d \in Regenerate -> "concept"
      [] d \in {"typography", "color"} -> d
      [] d = "product_fidelity" -> "product"
      [] OTHER -> "layout"
ScoringFindingsOf(failed) ==
    IF failed = {} THEN <<Finding("strategy", "overall", 0)>>
    ELSE LET dimensions == Chosen(QualityDimensions, failed)
         IN  [i \in DOMAIN dimensions |-> Finding(ScoringRoute(dimensions[i]), dimensions[i], 0)]

\* QualityScoringEngine.score
QualityApproval(p) ==
    LET of == p.reports
        raw == RawScores(of["quality_review"].facts, of["design_review"].facts, of["vision_review"].facts,
                         p.idea, of["verification"].decision = "PASS")
        overall == Average([i \in DOMAIN QualityDimensions |-> raw[QualityDimensions[i]]])
        failed == {d \in Range(QualityDimensions) : raw[d] < Threshold(d)}
        decision == Approval(overall, failed, of["verification"].failed)
    IN  [decision |-> decision, overall |-> overall, failed |-> failed,
         findings |-> IF decision \in {"PASS", "REJECT"} THEN <<>> ELSE ScoringFindingsOf(failed),
         history |-> p.history, checksum |-> p.draft.checksum]
=============================================================================
