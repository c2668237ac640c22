----------------------------- MODULE Specialists -----------------------------
(***************************************************************************)
(* One execution of a specialist agent: the calls it makes to the language    *)
(* model, what it does with each answer, and the repairs it makes without the  *)
(* model.  brand_product hands its analysis to audience_intelligence and on to *)
(* marketing_strategist; the copywriter's draft and the asset policies go to   *)
(* the art director and from there to the design spec; a planned post gets its    *)
(* plate, the inspection of the plate and its composition; a composed one goes     *)
(* through the hard gates, the three critics and the scoring.  The retry of a    *)
(* whole execution belongs to the agent runtime (AgentRuntime) and to the          *)
(* supervisor (PostSupervisor).                                               *)
(***************************************************************************)
EXTENDS Understanding

CONSTANTS
    Fact, Term, Assumed,   \* see BrandAudience
    Segment, Claim,        \* see Strategy
    NoClaim,               \* see CopyArt
    Conjunction,           \* the term that joins two promises
    Token, Size, Figure, Capital,   \* see Verification
    Drifted,               \* a checksum no draft and no plate has
    Scaffold,              \* see Production
    Inputs, Answers        \* what an agent is given, and what the model may answer it

BA == INSTANCE BrandAudience
ST == INSTANCE Strategy
CD == INSTANCE CreativeDirector
CA == INSTANCE CopyArt
VR == INSTANCE Verification
RV == INSTANCE Review
OR == INSTANCE Originality
PR == INSTANCE Production

Unparsed == CD!NoObject

\* What a search finds in a message is in it; the chat has verified what its context
\* states, and infers nothing but a goal.
ASSUME UnderstandingInputs ==
    \A i \in Inputs["client_understanding"] :
       /\ i.source \in Source /\ i.source.verified = VerifiedBy(i.context)
       /\ i.context.inferred \subseteq {"goal"}
       /\ \A m \in ClientTexts(i.source) :
             m.platforms \cup ({m.named, m.kind, m.goal, m.action} \ {None}) \subseteq m.words

\* The contract and what a language model returns have passed their schemas.
ASSUME StrategyInputs ==
    /\ IsFiniteSet(Fact) /\ IsFiniteSet(Segment)
    /\ Inputs["brand_product"] \subseteq BA!Contracts
    /\ \A answer \in Answers["brand_product"] \ {Unparsed} : answer.x \in BA!BrandProposal
    /\ \A answer \in Answers["marketing_strategist"] \ {Unparsed} : answer.x \in ST!Proposal

\* The offer is part of the contract, what the contract approves may be cited, and the
\* copy and the art direction a model answers with have the types of their schemas.
ASSUME CopyInputs ==
    /\ \A i \in Inputs["copywriter"] :
          /\ i.offer \in Seq(CA!Words) /\ CA!Claims(i.offer) \cup i.approved \subseteq i.source
    /\ \A answer \in Answers["copywriter"] \ {Unparsed} :
          /\ \A f \in DOMAIN answer.x \ {"hashtags"} : answer.x[f] \in Seq(CA!Words)
          /\ "hashtags" \in DOMAIN answer.x => answer.x.hashtags \in Seq(Seq(CA!Words))
    /\ \A answer \in Answers["art_director"] \ {Unparsed} :
          /\ answer.x.texts.photography \in 1 .. 1000 /\ answer.x.texts.lighting \in 1 .. 600
          /\ answer.x.texts.background \in Nat

\* What limits the strategy leaves room for what a repair adds: two limitations of the
\* audience, one for each category of the research and one for the message at most; and a
\* text is a list of sentences.
ASSUME CreativeInputs ==
    /\ \A i \in Inputs["creative_director"] :
          i.limitations \in Seq(CD!Range(i.limitations)) /\ Len(i.limitations) + 2 <= CD!MaxLimitations
    /\ \A answer \in Answers["creative_director"] \ {Unparsed} :
          \A p \in CD!RepairedTexts(answer.x) : p \in Seq(CD!Range(p))

\* No critic has reported yet; sizes are pixels, an asset has one policy, and what is
\* protected is drawn as a product or a logo.
ASSUME VerificationInputs ==
    \A p \in Inputs["verification"] :
       /\ {"draft", "reports"} \subseteq DOMAIN p /\ p.reports = <<>>
       /\ p.canvas \in (Nat \ {0}) \X (Nat \ {0}) /\ p.draft.final \in Nat \X Nat
       /\ \A a \in p.policies : a.range \in Nat \X Nat /\ a.range[1] <= a.range[2]
       /\ \A a, b \in p.policies : a.asset = b.asset => a = b
       /\ \A c \in p.draft.components, a \in p.policies :
             c.source = a.asset /\ a.preserve => c.kind \in VR!IdentityKinds

\* A history is a list, and the concept of a composed post cleared the creative bar.
ASSUME ReviewInputs ==
    /\ \A p \in Inputs["reference_validation"] \cup Inputs["generation_planning"] \cup Inputs["verification"] :
          "history" \in DOMAIN p /\ p.history \in Seq(RV!Range(p.history))
    /\ \A p \in Inputs["verification"] :
          /\ "idea" \in DOMAIN p /\ p.idea \in [CD!Dimensions -> 1 .. 10]
          /\ CD!GateFailures([scores |-> p.idea]) = {}

\* What is planned has a copy of words and a spec that passed design_spec, an image of
\* every original, and one policy for each; regions are pixels, as in the schemas.
ASSUME PlanningInputs ==
    \A p \in Inputs["generation_planning"] :
       /\ {"copy", "spec", "policies", "library", "images", "plan", "scene", "bytes", "report"} \subseteq DOMAIN p
       /\ ~ CA!SpecErrors(p.spec, p.copy) /\ p.spec.safe \in Nat
       /\ \A r \in DOMAIN p.spec.regions :
             p.spec.regions[r] \in Nat \X Nat \X (Nat \ {0}) \X (Nat \ {0})
       /\ p.copy.headline # <<>> /\ p.copy.cta # <<>>
       /\ \A f \in {"headline", "subheadline", "supporting_copy", "offer_copy", "cta"} :
             /\ p.copy[f] \in Seq(RV!Range(p.copy[f]))
             /\ \A w \in RV!Range(p.copy[f]) : w.chars \in Nat \ {0}
       /\ p.policies \in Seq(RV!Range(p.policies))
       /\ \A a \in RV!Range(p.policies) :
             a.asset # PR!Nobody /\ p.images[a.asset] \in (Nat \ {0}) \X (Nat \ {0})
       /\ \A a, b \in RV!Range(p.policies) : a.asset = b.asset => a = b

\* A plate that was generated has a checksum.
ASSUME PlateAnswers == \A image \in Answers["production"] : image.checksum # PR!Nobody

\* The critics that answer with a list of reviews answer with a list.
ASSUME ReviewAnswers ==
    \A answer \in (Answers["quality_review"] \cup Answers["design_review"]) \ {Unparsed} :
       answer.x \in Seq(RV!Range(answer.x))

\* What the witness of the render returns has passed the schema of its readout.
ASSUME VerificationAnswers ==
    \A answer \in Answers["verification"] \ {Unparsed} :
       answer.x \in [text: SUBSET SUBSET Token, brands: SUBSET SUBSET Token, products: SUBSET SUBSET Token]

VARIABLES
    agent,    \* the agent at work
    input,    \* its validated payload
    calls,    \* completed calls of this execution
    kept,     \* what it remembers of earlier answers
    output,   \* its result
    status    \* "asking" the model, "shrinking", "done", "refused", "provider_failed"

vars == <<agent, input, calls, kept, output, status>>

CallBudget ==
    [client_understanding |-> 1, brand_product |-> 1, audience_intelligence |-> 2,
     marketing_strategist |-> 2, creative_director |-> 1 + CD!Corrections, copywriter |-> 2,
     asset_intelligence |-> 1, art_director |-> 2, design_spec |-> 2,
     reference_validation |-> 2, generation_planning |-> 0, production |-> 1, scene_purity |-> 2,
     composition |-> 0, verification |-> 2, quality_review |-> 2, design_review |-> 2, vision_review |-> 2,
     quality_scoring |-> 0]
Agents == DOMAIN CallBudget
Witnesses == DOMAIN RV!ReadBy

\* The agents whose input this module does not derive from another's output.
Entry == {"client_understanding", "brand_product", "creative_director", "copywriter",
          "reference_validation", "generation_planning", "verification"}

Start(a, payload) ==
    /\ agent' = a /\ input' = payload /\ calls' = 0 /\ kept' = None /\ output' = None
    /\ status' = "asking"

Init ==
    /\ agent \in Entry /\ input \in Inputs[agent]
    /\ calls = 0 /\ kept = None /\ output = None /\ status = "asking"

Asking(a) == agent = a /\ status = "asking" /\ calls' = calls + 1

Return(result) == output' = result /\ status' = "done" /\ UNCHANGED <<agent, input, kept>>
Refuse == status' = "refused" /\ UNCHANGED <<agent, input, kept, output>>
Remember(memory) == kept' = memory /\ UNCHANGED <<agent, input, output, status>>

\* What a stage reads does not belong together: its payload is refused before any call.
Unfit ==
    CASE agent \in Witnesses -> ~ RV!DescribesOneRender(agent, input)
      [] agent = "reference_validation" -> ~ OR!DescribesOnePost(input) \/ ~ input.scoped
      [] agent = "generation_planning" -> ~ PR!Agree(agent, input)
      [] agent = "production" ->
            PR!SceneInputErrors(input) \/ (input.plan.decision # "COMPOSE_ONLY" /\ PR!PromptErrors(input))
      [] agent = "scene_purity" ->
            /\ input.scene # PR!NoScene
            /\ ~ PR!Agree(agent, input) \/ input.bytes # input.scene.checksum
      [] OTHER -> FALSE

RejectInput ==
    /\ status = "asking" /\ calls = 0 /\ Unfit
    /\ Refuse /\ UNCHANGED calls

Shown(a) == Asking(a) /\ ~ Unfit

\* A call to the model fails: the provider's error leaves execute.
ProviderFails ==
    /\ Shown(agent) /\ CallBudget[agent] > 0
    /\ agent = "asset_intelligence" => DOMAIN input.attached.attachments # {}
    /\ agent = "production" => input.plan.decision # "COMPOSE_ONLY"
    /\ agent = "scene_purity" => input.scene # PR!NoScene
    /\ status' = "provider_failed" /\ UNCHANGED <<agent, input, kept, output>>

----------------------------------------------------------------------------
Understand ==
    /\ Asking("client_understanding")
    /\ \E answer \in Answers[agent] :
          IF answer = Unparsed THEN Refuse ELSE Return(BuildBrief(input.source, answer.x))

AnalyzeBrand ==
    /\ Asking("brand_product")
    /\ \E answer \in Answers[agent] :
          IF answer = Unparsed THEN Refuse
          ELSE IF BA!BrandErrors(input, answer.x) THEN Refuse
          ELSE Return(BA!BrandProductAnalysis(input, answer.x))

\* audience_intelligence._agent_payload; a payload it rejects ends the stage.
HandToAudience ==
    /\ agent = "brand_product" /\ status = "done"
    /\ IF BA!AudienceAccepts(input, output.brand, output.product)
       THEN Start("audience_intelligence",
                  [contract |-> input, brand |-> output.brand, product |-> output.product])
       ELSE Refuse /\ UNCHANGED calls

\* The guardrail's message and the answer go back to the model once.
AnalyzeAudience ==
    /\ Asking("audience_intelligence")
    /\ \E answer \in Answers[agent] :
          IF IF answer = Unparsed THEN TRUE
             ELSE BA!AudienceErrors(input.contract, input.brand, input.product, answer.x)
          THEN IF calls = 0 THEN Remember(answer) ELSE Refuse
          ELSE Return(BA!AudienceIntelligence(input.contract, answer.x))

\* marketing_strategy._agent_payload: the evidence of the upstream sections.
PhraseOf(text, fact) ==
    [single |-> TRUE, joins |-> Conjunction \in text, promises |-> {fact}, claims |-> text \cap Claim]
EvidenceOf(contract, product, audience) ==
    [chains |-> [i \in DOMAIN product.chains |->
        [fact |-> product.chains[i].source,
         phrases |-> <<PhraseOf(product.chains[i].outcome, product.chains[i].source),
                       PhraseOf(product.chains[i].feature, product.chains[i].source)>>]],
     candidates |-> [i \in DOMAIN product.usps |->
        LET fact == CHOOSE f \in product.usps[i].sources : TRUE
        IN  [fact |-> fact, phrases |-> <<PhraseOf(product.usps[i].text, fact)>>]],
     facts |-> DOMAIN product.facts,
     needs |-> TRUE, segments |-> Segment, research |-> {},
     claims |-> {product.facts[f] : f \in DOMAIN product.facts} \cap Claim,
     forbidden |-> contract.forbidden \cap Claim,
     fingerprints |-> audience.print = contract.print /\ product.print = contract.print]

HandToStrategist ==
    /\ agent = "audience_intelligence" /\ status = "done"
    /\ LET evidence == EvidenceOf(input.contract, input.product, output)
       IN  IF ST!StrategistAccepts(evidence) THEN Start("marketing_strategist", evidence)
           ELSE Refuse /\ UNCHANGED calls

Strategize ==
    /\ Asking("marketing_strategist")
    /\ \E answer \in Answers[agent] :
          LET strategies == IF answer = Unparsed THEN {} ELSE ST!StrategyFrom(answer.x, input)
          IN  IF strategies = {}
              THEN IF calls = 0 THEN Remember(answer) ELSE Refuse
              ELSE \E strategy \in strategies : Return(strategy)

----------------------------------------------------------------------------
\* Mutant: the last repair is published without a validation of its own.
JudgeUnchecked(candidate, notes) ==
    LET errors == CD!CandidateErrors(candidate, input)
        related == CD!Related(candidate.x, errors)
    IN  IF errors = {} THEN Return(CD!Direction(candidate.x, input, notes))
        ELSE IF calls < CD!Corrections
        THEN Remember([candidate |-> candidate, errors |-> errors, notes |-> notes])
        ELSE IF ~ CD!Repairable(errors) THEN Refuse
        ELSE Return(CD!Direction(related, input, notes \cup {"related"}))

\* Mutant: one correction too many.
JudgeOnceMore(candidate, notes) ==
    LET errors == CD!CandidateErrors(candidate, input)
    IN  IF errors = {} THEN Return(CD!Direction(candidate.x, input, notes))
        ELSE IF calls <= CD!Corrections
        THEN Remember([candidate |-> candidate, errors |-> errors, notes |-> notes])
        ELSE Refuse

\* The creative director validates a candidate; the fourth one that fails gets the
\* relational repair and no further call.
Judge(candidate, notes) ==
    LET errors == CD!CandidateErrors(candidate, input)
        related == CD!Object(CD!Related(candidate.x, errors))
    IN  IF errors = {} THEN Return(CD!Direction(candidate.x, input, notes))
        ELSE IF calls < CD!Corrections
        THEN Remember([candidate |-> candidate, errors |-> errors, notes |-> notes])
        ELSE IF ~ CD!Repairable(errors) THEN Refuse
        ELSE IF CD!CandidateErrors(related, input) # {} THEN Refuse
        ELSE Return(CD!Direction(related.x, input, notes \cup {"related"}))

Direct ==
    /\ Asking("creative_director") /\ calls = 0
    /\ \E answer \in Answers[agent] : Judge(answer, {})

CorrectDirection ==
    /\ Asking("creative_director") /\ calls > 0
    /\ \E answer \in Answers[agent] :
          LET next == CD!Correction(input, kept.candidate, kept.errors, answer, calls = CD!Corrections)
          IN  IF next.candidate = CD!Refused THEN Refuse
              ELSE Judge(next.candidate, kept.notes \cup next.notes)

----------------------------------------------------------------------------
\* bare says that the answer is its object and nothing else; one with prose around it
\* is no answer, though the normalisation salvages its fields.
Write ==
    /\ Asking("copywriter")
    /\ \E answer \in Answers[agent], bare \in BOOLEAN :
          LET fields == IF answer = Unparsed THEN <<>> ELSE answer.x
          IN  IF IF answer = Unparsed THEN FALSE ELSE bare /\ ~ CA!CopyInvalid(answer.x, input)
              THEN Return(CA!FilledCopy(answer.x))
              ELSE IF calls = 0 THEN Remember(fields)
              ELSE /\ kept' = CA!NormalizedCopy(fields, kept, input) /\ status' = "shrinking"
                   /\ UNCHANGED <<agent, input, output>>

\* One turn of the loop over the overlay, or what follows the loop.
Shrink ==
    /\ agent = "copywriter" /\ status = "shrinking" /\ UNCHANGED calls
    /\ IF CA!MayShrink(kept) THEN Remember(CA!ShrunkField(kept))
       ELSE IF CA!CopyErrors(kept, input) THEN Refuse
       ELSE Return(kept)

\* The stages after the copy: attachments are what the post came with.
HandToAssets ==
    /\ agent = "copywriter" /\ status = "done"
    /\ \E attached \in Inputs["asset_intelligence"] :
          /\ attached.required \subseteq DOMAIN attached.attachments
          /\ Start("asset_intelligence", [copy |-> output, attached |-> attached])

ClassifyAssets ==
    /\ Asking("asset_intelligence") /\ DOMAIN input.attached.attachments # {}
    /\ \E answer \in Answers[agent] :
          IF answer = Unparsed THEN Refuse
          ELSE IF CA!PolicyErrors(input.attached.attachments, answer.x) THEN Refuse
          ELSE Return(CA!AssetPolicies(input.attached.attachments, input.attached.required, answer.x))

NothingToClassify ==
    /\ agent = "asset_intelligence" /\ status = "asking"
    /\ DOMAIN input.attached.attachments = {}
    /\ Return({}) /\ UNCHANGED calls

HandToArtDirector ==
    /\ agent = "asset_intelligence" /\ status = "done"
    /\ Start("art_director", [copy |-> input.copy, policies |-> output, colors |-> {"brand"}])

ArtDirect ==
    /\ Asking("art_director")
    /\ \E answer \in Answers[agent] :
          IF IF answer = Unparsed THEN TRUE
             ELSE CA!ArtErrors(answer.x, input.copy, input.policies, input.colors)
          THEN IF calls = 0 THEN Remember(answer) ELSE Refuse
          ELSE Return(answer.x)

HandToSpec ==
    /\ agent = "art_director" /\ status = "done"
    /\ Start("design_spec", [copy |-> input.copy, art |-> output])

CompileSpec ==
    /\ Asking("design_spec")
    /\ \E answer \in Answers[agent] :
          LET fallback == CA!DeterministicSpec(input.art, input.copy)
          IN  IF IF answer = Unparsed THEN FALSE ELSE ~ CA!SpecErrors(answer.x, input.copy)
              THEN Return(answer.x)
              ELSE IF calls = 0 THEN Remember(answer)
              ELSE IF CA!SpecErrors(fallback, input.copy) THEN Refuse
              ELSE Return(fallback)

----------------------------------------------------------------------------
\* One correction of a readout that cannot be used.
Unusable(answer) == IF calls = 0 THEN Remember(answer) ELSE Refuse

\* A critic's report; problems become one instruction about a render, as long as the
\* critic has a revision left and the director accepts them.
Conclude(report, render) ==
    IF report.findings = <<>> THEN Return(report)
    ELSE IF agent # "quality_scoring" /\ RV!RequestsOf(input.history, agent) >= RV!MaxRevisions THEN Refuse
    ELSE IF RV!InstructionErrors(report.findings, input.history) THEN Refuse
    ELSE LET instruction == RV!Instruction(report.findings, agent, input.history, render)
         IN  Return([report EXCEPT !.history = RV!Filed(input.history, instruction)])

\* A readout that cannot be used, twice, leaves the review to the gates.
ConcludeReferences(x) ==
    IF OR!ReportInvalid(input, x) THEN Refuse ELSE Conclude(OR!ReferenceReport(input, x), PR!Nobody)
ValidateReferences ==
    /\ Shown("reference_validation")
    /\ \E answer \in Answers[agent] :
          IF IF answer = Unparsed THEN FALSE ELSE ~ OR!ReadoutInvalid(answer.x, input.urls)
          THEN ConcludeReferences(answer.x)
          ELSE IF calls = 0 THEN Remember(answer) ELSE ConcludeReferences(OR!Unreviewed)

----------------------------------------------------------------------------
\* The stages between the design spec and the review of the draft.
PlanGeneration ==
    /\ agent = "generation_planning" /\ status = "asking" /\ ~ Unfit
    /\ Return(PR!GenerationPlan(input)) /\ UNCHANGED calls

HandToProduction ==
    /\ agent = "generation_planning" /\ status = "done"
    /\ Start("production", [input EXCEPT !.plan = output])

SkipScene ==
    /\ agent = "production" /\ status = "asking" /\ ~ Unfit
    /\ input.plan.decision = "COMPOSE_ONLY"
    /\ Return(PR!NoScene) /\ UNCHANGED calls

GenerateScene ==
    /\ Shown("production") /\ input.plan.decision # "COMPOSE_ONLY"
    /\ \E image \in Answers[agent] :
          IF PR!ImageErrors(input, image) THEN Refuse ELSE Return(PR!Plate(image))

HandToPurity ==
    /\ agent = "production" /\ status = "done"
    /\ \E bytes \in {output.checksum, Drifted} :
          Start("scene_purity", [input EXCEPT !.scene = output, !.bytes = bytes])

NothingToInspect ==
    /\ agent = "scene_purity" /\ status = "asking" /\ input.scene = PR!NoScene
    /\ Return(PR!Uninspected(input)) /\ UNCHANGED calls

InspectScene ==
    /\ Shown("scene_purity") /\ input.scene # PR!NoScene
    /\ \E answer \in Answers[agent] :
          IF IF answer = Unparsed THEN TRUE ELSE PR!ReadoutUnusable(answer.x) THEN Unusable(answer)
          ELSE Conclude(PR!PurityReport(input, answer.x), input.scene.checksum)

\* The revision reopens production and is settled when it has run again.
HandToRegeneration ==
    /\ agent = "scene_purity" /\ status = "done" /\ output.decision = "REGENERATE_SCENE"
    /\ Start("production", [input EXCEPT !.scene = PR!NoScene, !.history = RV!Settled(output.history)])

\* Meanwhile an original may have left the library, lost its object or changed, the
\* plate's object too, and another worker may have published a plate of its own.
OriginalLost(p) ==
    {[p EXCEPT !.library[a] = s] : a \in DOMAIN p.library, s \in {"gone", "lost", "drifted", "unreadable"}}
PlateDrifted(p) == {[p EXCEPT !.bytes = b] : b \in IF p.scene = PR!NoScene THEN {} ELSE {Drifted}}
PlateReplaced(p) ==
    {[p EXCEPT !.scene = PR!Plate(image), !.bytes = image.checksum] :
        image \in {i \in Answers["production"] : p.scene # PR!NoScene /\ ~ PR!ImageErrors(p, i)}}
Worlds(p) == {p} \cup OriginalLost(p) \cup PlateDrifted(p) \cup PlateReplaced(p)
HandToComposition ==
    /\ agent = "scene_purity" /\ status = "done" /\ output.decision = "PASS"
    /\ \E world \in Worlds([input EXCEPT !.report = output]) : Start("composition", world)

Compose ==
    /\ agent = "composition" /\ status = "asking" /\ UNCHANGED calls
    /\ \E drawn \in SUBSET PR!FontFaults : \E obstacles \in {PR!Obstacles(input, drawn)} :
          IF obstacles = {} THEN Return(PR!Draft(input))
          ELSE status' = "refused" /\ kept' = obstacles /\ UNCHANGED <<agent, input, output>>

\* is_available is asked before a plate is generated and before a draft is stored.
StorageUnavailable ==
    /\ status = "asking" /\ ~ Unfit
    /\ \/ agent = "production" /\ input.plan.decision # "COMPOSE_ONLY"
       \/ agent = "composition"
    /\ Refuse /\ UNCHANGED calls

----------------------------------------------------------------------------
\* A composed post: what the stages have published of it, the draft and its bytes.
Verify ==
    /\ Shown("verification")
    /\ \E answer \in Answers[agent] :
          IF answer = Unparsed THEN Unusable(answer) ELSE Return(VR!VerificationReport(input, answer.x))

ReviewMarketing ==
    /\ Shown("quality_review")
    /\ \E answer \in Answers[agent] :
          IF IF answer = Unparsed THEN TRUE ELSE RV!MarketingUnusable(answer.x) THEN Unusable(answer)
          ELSE Conclude(RV!MarketingReport(input, answer.x), input.draft.render)

ReviewDesign ==
    /\ Shown("design_review")
    /\ \E answer \in Answers[agent] :
          IF IF answer = Unparsed THEN TRUE ELSE RV!DesignUnusable(answer.x) THEN Unusable(answer)
          ELSE IF RV!DesignBlank(answer.x) THEN Refuse
          ELSE Conclude(RV!DesignReport(input, answer.x), input.draft.render)

ReviewVision ==
    /\ Shown("vision_review")
    /\ \E answer \in Answers[agent] :
          IF IF answer = Unparsed THEN TRUE ELSE RV!VisionUnusable(answer.x) THEN Unusable(answer)
          ELSE Conclude(RV!VisionReport(input, answer.x), input.draft.render)

\* The supervisor goes on only from a report that passes; the next stage reads the
\* bytes from storage again.
NextReview == [verification |-> "quality_review", quality_review |-> "design_review",
               design_review |-> "vision_review", vision_review |-> "quality_scoring"]
HandToReview ==
    /\ agent \in DOMAIN NextReview /\ status = "done" /\ output.decision = "PASS"
    /\ \E bytes \in {input.draft.checksum, Drifted} :
          Start(NextReview[agent],
                [input EXCEPT !.bytes = bytes,
                              !.reports = [a \in DOMAIN @ \cup {agent} |-> IF a = agent THEN output ELSE @[a]]])

\* quality_scoring asks no model; an approved concept is remembered, which needs the
\* scope of the post.
ScoreQuality ==
    /\ agent = "quality_scoring" /\ status = "asking" /\ UNCHANGED calls
    /\ LET report == RV!QualityApproval(input)
       IN  IF ~ RV!OneRenderScored(input) THEN Refuse
           ELSE IF report.decision = "PASS" /\ ~ input.scoped THEN Refuse
           ELSE Conclude(report, input.draft.render)

Next ==
    \/ Understand \/ AnalyzeBrand \/ HandToAudience \/ AnalyzeAudience \/ HandToStrategist
    \/ Strategize \/ Direct \/ CorrectDirection \/ Write \/ Shrink \/ HandToAssets
    \/ ClassifyAssets \/ NothingToClassify \/ HandToArtDirector \/ ArtDirect \/ HandToSpec
    \/ CompileSpec \/ ValidateReferences \/ PlanGeneration \/ HandToProduction \/ SkipScene
    \/ GenerateScene \/ HandToPurity \/ NothingToInspect \/ InspectScene \/ HandToRegeneration
    \/ HandToComposition \/ Compose \/ StorageUnavailable \/ RejectInput \/ Verify \/ ReviewMarketing \/ ReviewDesign \/ ReviewVision
    \/ HandToReview \/ ScoreQuality \/ ProviderFails

Spec == Init /\ [][Next]_vars
----------------------------------------------------------------------------
Done(a) == agent = a /\ status = "done"

\* An execution makes no more calls than its budget of corrections, and has no result
\* before one is returned.
TypeOK ==
    /\ agent \in Agents /\ calls \in 0 .. CallBudget[agent]
    /\ status \in {"asking", "shrinking", "done", "refused", "provider_failed"}
    /\ status \in {"asking", "provider_failed"} => output = None

\* A fact of the brief that the chat did not verify is in the client's own messages,
\* however the assistant's turns and the model's extraction worded it
\* (client_understanding: "_is_client_quote", the closed vocabularies).
BriefIsTheClients ==
    Done("client_understanding") =>
        LET source == input.source
            turns == {source.latest} \cup
                     {t.said : t \in {t \in {source.history[i] : i \in DOMAIN source.history} : t.role = "user"}}
        IN  \A f \in ScalarFields \ {"language"} :
               \/ output.values[f] \in {None} \cup {source.verified[g] : g \in ScalarFields}
               \/ \E m \in turns : output.values[f] \in m.words

\* A context the chat was allowed to generate from yields a brief that the workflow's
\* own clarification check lets through: the two stages cannot disagree about a
\* missing fact once the client has been told that work began.
ContextSuffices ==
    Done("client_understanding") /\ ~ RequiresUserInput(input.context) => ~ BriefNeedsClient(output)

\* What brand_product publishes passes the entry checks of audience_intelligence, and
\* those of marketing_strategist's framework tools when it names a chain or a USP.
UpstreamIsAccepted ==
    /\ agent = "brand_product" /\ status = "refused" => output = None
    /\ agent = "audience_intelligence" /\ status = "refused" /\ output # None =>
          input.product.chains \o input.product.usps = <<>>

\* The correction call of marketing_strategist is never spent on evidence identifiers:
\* an answer that is kept for correction has, canonicalised, no basis error left.
BasisNeedsNoCorrection ==
    agent = "marketing_strategist" /\ kept \notin {None, Unparsed} =>
        LET allowed == ST!AllowedBasis(input)
        IN  ST!BasisErrors(ST!CanonicalBasis(kept.x, allowed), allowed) = {}

\* Whatever repaired it, a published strategy passes the strategist's own validator:
\* in particular the message put in place of the model's.
StrategyStands == Done("marketing_strategist") => ~ ST!StrategyErrors(output, input)

\* Whatever repaired it, a published direction is an exploration without violations
\* whose winner clears every threshold.
DirectionIsSound ==
    Done("creative_director") =>
        /\ CD!WellFormed(output.exploration) /\ CD!ExplorationErrors(output.exploration, input) = {}
        /\ CD!GateFailures(CD!ById(output.exploration.ideas, output.winner)) = {}

\* The winner does not depend on the order in which the model listed its ideas.
WinnerByJudgement ==
    Done("creative_director") =>
        LET ideas == output.exploration.ideas
        IN  \A order \in CD!Bijection(DOMAIN ideas, DOMAIN ideas) :
               CD!Winner([i \in DOMAIN ideas |-> ideas[order[i]]]).id = output.winner

\* A text of the direction that no answer of the model contains is announced to the
\* human reviewer by a limitation.
RepairIsDisclosed ==
    Done("creative_director") =>
        \/ \E i \in DOMAIN output.limitations : output.limitations[i] \in {"stabilized", "related"}
        \/ CD!AllTexts(output.exploration) \subseteq
              UNION {CD!WrittenTexts(a.x) : a \in Answers[agent] \ {Unparsed}}

\* A candidate kept after a correction holds no sentence that may not be said, so no
\* later patch of another field can publish one.
CorrectedIsSayable ==
    agent = "creative_director" /\ status = "asking" /\ calls > 1 =>
        IF kept.candidate = Unparsed THEN TRUE
        ELSE \A p \in CD!RepairedTexts(kept.candidate.x) : CD!Faults(p) \cap CD!Unsayable = {}

\* When the normalised copy is refused, the offer cannot be published as the client
\* worded it, a hashtag as the model wrote it, or a cut left a text that dangles, shouts
\* or runs on; every other defect of the model's copy is repaired.
CopyIsRepaired ==
    agent = "copywriter" /\ status = "refused" =>
        \/ CA!Chars(input.offer) > CA!MaxOfferCopy \/ CA!LongSentence(input.offer)
        \/ CA!Claims(input.offer) \cap input.forbidden # {}
        \/ \E tag \in CA!Range(kept.hashtags) :
              Len(tag) # 1 \/ CA!Chars(tag) > 50 \/ ~ CA!Claims(tag) \subseteq input.source \ input.forbidden
        \/ CA!Exclamations(<<input.offer>> \o kept.hashtags) > 1
        \/ \E text \in {input.offer} \cup CA!Range(kept.hashtags) \cup {kept[f] : f \in CA!TextFields} :
              CA!Dangles(text) \/ CA!Loud(text)
        \/ CA!LongSentence(kept.subheadline)

\* No composition may leave out, replace or generate an asset the contract requires.
RequiredAssetsHold ==
    Done("asset_intelligence") =>
        \A a \in input.attached.required :
           \A use \in CA!Uses(a) :
              ~ use.used \/ use.replaced \/ use.generated =>
                  \E p \in CA!UsageViolations(output, {use}) : p.asset = a

\* The design spec stage never fails for what the model answers, as long as the colour
\* direction fits the background: the deterministic layout meets every geometry rule.
SpecAlwaysCompiles ==
    agent = "design_spec" /\ input.art.texts.background <= CA!MaxBackground => status # "refused"

\* Every turn of the loop over the overlay shortens it, so the loop, which no timeout
\* can interrupt, ends for every offer that fits its field.
ShrinkingEnds ==
    status = "shrinking" /\ CA!MayShrink(kept) /\ CA!Chars(input.offer) <= CA!MaxOfferCopy =>
    CA!OverlayChars(CA!ShrunkField(kept)) < CA!OverlayChars(kept)

\* The export passes its gate exactly when it is the approved canvas, enlarged by one
\* whole factor in both directions that the composer may use.
ExportIsExact ==
    Done("verification") =>
        (("correct_dimensions" \notin output.failed) <=>
            /\ input.draft.working = input.canvas
            /\ \E k \in 1 .. VR!MaxExportScale :
                  input.draft.final = <<k * input.canvas[1], k * input.canvas[2]>>)

\* A certified render breaks no policy as asset_intelligence itself evaluates its use:
\* every required asset is composited, every protected one unaltered.
CertifiedKeepsAssets ==
    Done("verification") /\ output.decision = "PASS" =>
        CA!UsageViolations(input.policies,
            UNION {{[asset |-> a.asset, used |-> TRUE, replaced |-> FALSE, generated |-> FALSE,
                     preserved |-> c.preserved, cropped |-> FALSE, dominance |-> a.range[1]] :
                       c \in {c \in input.draft.components : c.source = a.asset}} : a \in input.policies}) = {}

\* The model is a witness, not a judge: a readout that lists less than another, of the
\* same render, fails no gate that the longer one passes.
SilenceNeverAccuses ==
    agent = "verification" /\ status = "asking" /\ calls = 0 =>
        \A less, more \in {a.x : a \in Answers[agent] \ {Unparsed}} :
           (\A f \in DOMAIN more : less[f] \subseteq more[f]) =>
               VR!FailedGates(input, VR!Readout(less)) \subseteq VR!FailedGates(input, VR!Readout(more))

\* An approval rests on one render: the bytes every reviewer was shown are the ones
\* the certificate names, though storage is read anew for each of them.
ApprovedAsSeen ==
    Done("quality_scoring") /\ output.decision = "PASS" =>
        /\ VR!Certifies(input.reports["verification"], output.checksum)
        /\ \A r \in DOMAIN input.reports : input.reports[r].seen = output.checksum

\* A concept that cleared the creative bar and a render that every critic passed are
\* approved, or go back to the strategy for what they say to the audience; the scoring
\* never asks for another composition, and its minimum for the mean decides nothing.
ScoredIsApprovedOrReworded ==
    Done("quality_scoring") =>
        /\ output.failed \subseteq {"marketing_effectiveness", "audience_fit"}
        /\ output.decision = IF output.failed = {} THEN "PASS" ELSE "MUTATE"

\* Whoever has to act on a finding of a revision is run again by it, although only the
\* earliest of their stages is reopened, and nothing that is to be kept is rewritten.
RevisionReachesOwners ==
    agent \in DOMAIN RV!Findings /\ status = "done" /\ output.decision \notin {"PASS", "REJECT"} =>
        LET revision == output.history[Len(output.history)]
            again == RV!Downstream(revision.target)
        IN  /\ \A f \in revision.findings : RV!Routing[f.route] \in again
            /\ revision.keep \cap RV!Rewritten(revision.target) = {}
            /\ agent = "scene_purity" => PR!PreservedOnRegeneration \subseteq revision.keep

\* A creative that copies a reference, is a commodity or repeats an approved post goes
\* back to its concept, whatever the model scored it and though its answer was unusable.
OriginalityGuarded ==
    Done("reference_validation") /\ (OR!Signals(input) > 0 \/ output.copied) =>
        /\ output.decision = "REVISE"
        /\ RV!Routing["concept"] \in RV!Downstream(output.history[Len(output.history)].target)

\* The plate in a draft is the very one whose inspection passed, although its object
\* may change and another plate may be published after the inspection.
PlateIsCertified ==
    Done("composition") =>
        \A c \in output : c.kind = "scene" /\ c.source = PR!Nobody =>
            input.report.decision = "PASS" /\ input.report.inspected /\ input.report.seen = c.bytes

\* The planner leaves a scene out only when an approved original stands for it: a draft
\* is without one only if that original has left the library meanwhile.
SceneStands ==
    Done("composition") =>
        \/ \E c \in output : c.kind = "scene"
        \/ \E a \in RV!Range(input.policies) :
              a.role \in PR!BackgroundRoles /\ input.library[a.asset] = "gone"

\* What the composer publishes passes the gates of the verification that ask nothing of
\* the model: no draft is made only to be blocked for its assets.
DraftPassesGates ==
    Done("composition") =>
        LET policies == RV!Range(input.policies)
            view == [policies |-> policies,
                     contract |-> [required |-> {a.asset : a \in {a \in policies : a.required}}],
                     draft |-> [components |->
                         {[kind |-> c.kind, source |-> c.source, checksum |-> c.source # PR!Nobody,
                           preserved |-> c.kind \in VR!IdentityKinds] : c \in output}]]
        IN  ~ VR!FidelityErrors(view) /\ VR!MissingAssets(view) = {} /\ ~ VR!LogoErrors(view)

\* Headline, call to action and offer are in every draft; each text is within its region,
\* that region within the safe area, and a baseline apart from every other text.
TextsHaveRoom ==
    Done("composition") =>
        LET texts == {c \in output : c.kind \in {"typography", "offer", "cta"}}
            placed == PR!Placements(input.spec)
            region(c) == placed[IF c.kind = "typography" THEN "headline" ELSE c.kind]
            above(c, d) == PR!BottomOf(c.bounds) + input.spec.grid.baseline <= d.bounds[2]
        IN  /\ {"headline", "cta"} \cup (IF input.copy.offer_copy = <<>> THEN {} ELSE {"offer"})
                  \subseteq {c.id[1] : c \in texts}
            /\ \A c \in texts : PR!Within(c.bounds, region(c)) /\ PR!Within(region(c), PR!SafeBounds(input.spec))
            /\ \A c, d \in texts : c # d => above(c, d) \/ above(d, c)

\* However many products share a region, each is whole within it and hides no other.
ProductsApart ==
    Done("composition") =>
        LET products == {c \in output : c.kind = "product"}
        IN  /\ \A c \in products : PR!Within(c.bounds, PR!Placements(input.spec)["product"])
            /\ \A c, d \in products : c # d => ~ PR!Overlaps(c.bounds, d.bounds)

\* A draft shows what was inspected, planned and approved, each part in its place.
CompositionIsSound ==
    PlateIsCertified /\ SceneStands /\ DraftPassesGates /\ TextsHaveRoom /\ ProductsApart

\* The brief is made of the client's words, and is sufficient whenever the chat said so.
BriefIsSound == BriefIsTheClients /\ ContextSuffices

\* From brand facts to strategy, what one specialist publishes the next accepts, and
\* what is put in place of a refused answer passes the same validator.
StrategyIsSound == UpstreamIsAccepted /\ BasisNeedsNoCorrection /\ StrategyStands

\* Four rounds of corrections and a repair by templates end in a direction that clears
\* every rule, tells the reviewer what was rewritten and prefers no idea for its place;
\* no score passes a copy or a repetition.
CreativeIsSound ==
    /\ DirectionIsSound /\ WinnerByJudgement /\ RepairIsDisclosed /\ CorrectedIsSayable
    /\ OriginalityGuarded

\* Copy and layout are not stuck on what the model answers: calls are bounded, the
\* shortening ends, and what can be repaired is.
ProductionGoesOn == TypeOK /\ CopyIsRepaired /\ ShrinkingEnds /\ SpecAlwaysCompiles

\* What the hard gates let through is the approved canvas with every required asset,
\* and what they stop they stop for something that was seen.
GatesAreExact == RequiredAssetsHold /\ ExportIsExact /\ CertifiedKeepsAssets /\ SilenceNeverAccuses

\* What the scores and the critics find wrong is sent back, to all who have to act on it.
FindingsAreActedOn == ScoredIsApprovedOrReworded /\ RevisionReachesOwners

\* design_spec/agent.py: "Compile a conservative, composer-safe square layout from approved
\* inputs": the layout engine accepts the fallback.
ComposerSafe ==
    Done("design_spec") /\ output = CA!DeterministicSpec(input.art, input.copy) =>
        ~ PR!LayoutErrors(output, PR!Placements(output))
=============================================================================
