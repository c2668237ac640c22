------------------------------- MODULE Strategy -------------------------------
(***************************************************************************)
(* The marketing_strategist agent and its framework tools: a strategy is      *)
(* twelve decisions, each with the identifiers of the evidence it rests on.   *)
(* A text is abstracted to what the validator's patterns find in it.          *)
(***************************************************************************)
EXTENDS Integers, Sequences, FiniteSets, Functions

CONSTANTS
    Fact,      \* verified product facts
    Segment,   \* audience segments
    Claim      \* numbers, superlatives and names a text may contain

\* An identifier is a kind with a number.  A kind of Families stands for a prefix
\* ("product.usp_candidates."); its number 0 is the bare prefix, which names no item.
Families == {"segments", "feature", "usp", "product_fact", "brand_fact",
             "research_audience", "research_product"}
Wholes == {"goal", "audience", "cta_intent", "target", "needs", "desires", "pain_points",
           "objections", "motivation", "trust_triggers", "customer_tension", "purchase_intent"}
Reference == [kind: Families \cup Wholes, item: Nat]
Whole(kind) == [kind |-> kind, item |-> 0]

AudienceEvidence == <<"needs", "desires", "pain_points", "objections", "motivation",
                      "trust_triggers", "customer_tension", "purchase_intent", "research_audience">>
TargetEvidence == <<"target", "segments">>
ProductEvidence == <<"usp", "feature">>
ProductValue == <<"feature", "usp", "product_fact", "brand_fact", "research_product">>

\* For each decision, groups of kinds; each group needs one identifier.
BasisRequirements ==
    [business_objective |-> << <<"goal">> >>,
     segmentation |-> << <<"audience", "segments", "research_audience">> >>,
     targeting |-> <<TargetEvidence>>,
     positioning |-> <<TargetEvidence, ProductValue>>,
     customer_insight |-> <<AudienceEvidence>>,
     customer_tension |-> << <<"customer_tension">> >>,
     usp |-> <<ProductEvidence>>,
     value_proposition |-> <<ProductValue, AudienceEvidence>>,
     marketing_angle |-> <<ProductValue, AudienceEvidence>>,
     single_minded_message |-> <<ProductValue, AudienceEvidence>>,
     desired_reaction |-> << <<"goal", "cta_intent">>,
                             <<"motivation", "purchase_intent", "customer_tension">> >>,
     cta_strategy |-> << <<"cta_intent">>, <<"goal">> >>]
Decisions == DOMAIN BasisRequirements

\* What a phrase holds: whether it is one sentence, joins two promises, the facts
\* whose promise it repeats, and its claims.
Phrase == [single: BOOLEAN, joins: BOOLEAN, promises: SUBSET Fact, claims: SUBSET Claim]

\* What the stage assembles.  A chain or a candidate has a fact and phrases to
\* try; fingerprints tells whether the four sections share the contract's.
Promise == [fact: Fact, phrases: Seq(Phrase)]
Evidence == [chains: Seq(Promise), candidates: Seq(Promise), facts: SUBSET Fact,
             needs: BOOLEAN, segments: SUBSET Segment, research: SUBSET Reference,
             claims: SUBSET Claim, forbidden: SUBSET Claim, fingerprints: BOOLEAN]

\* MarketingStrategyLLMOutput: message is the single-minded message, claims what
\* the other texts contain, boundary whether one of them leaves the strategy.
Proposal == [basis: [Decisions -> Seq(Reference)], principles: BOOLEAN,
             targets: SUBSET Segment, repeats_segment: BOOLEAN, message: Phrase,
             claims: SUBSET Claim, boundary: BOOLEAN, framework: {"aida", "pas", "none"},
             framework_basis: Seq(Reference)]

----------------------------------------------------------------------------
\* The framework tools, those that can refuse their input.
UnknownFacts(evidence) ==
    {p.fact : p \in Range(evidence.chains) \cup Range(evidence.candidates)} \ evidence.facts
FeatureBenefitFails(e) == {p.fact : p \in Range(e.chains)} \ e.facts # {}
UspExtractorFails(e) == {p.fact : p \in Range(e.candidates)} \ e.facts # {}
PositioningFails(e) == UnknownFacts(e) # {} \/ e.chains \o e.candidates = <<>>
ValuePropositionFails(e) ==
    \/ ~ e.needs \/ FeatureBenefitFails(e)
    \/ e.chains = <<>> /\ (UspExtractorFails(e) \/ e.candidates = <<>>)
FrameworkToolFails(e) ==
    FeatureBenefitFails(e) \/ UspExtractorFails(e) \/ PositioningFails(e) \/ ValuePropositionFails(e)

\* _strategy_source: the identifiers a decision may cite.
AllowedBasis(e) ==
    {Whole(k) : k \in Wholes} \cup e.research
    \cup {[kind |-> "segments", item |-> i] : i \in 1 .. Cardinality(e.segments)}
    \cup {[kind |-> "usp", item |-> i] : i \in DOMAIN e.candidates}
    \cup {[kind |-> "feature", item |-> i] : i \in DOMAIN e.chains}
    \cup {[kind |-> "product_fact", item |-> i] : i \in 1 .. Cardinality(e.facts)}

\* _normalized_model_basis: known identifiers, and prefixes of exactly one.
Resolved(reference, allowed) ==
    IF reference \in allowed THEN {reference}
    ELSE LET items == {a \in allowed : a.kind = reference.kind}
         IN  IF reference.kind \in Families /\ reference.item = 0 /\ Cardinality(items) = 1
             THEN items ELSE {}

Noted(known, reference, allowed) ==
    LET new == Resolved(reference, allowed) \ Range(known)
    IN  IF new = {} THEN known ELSE Append(known, CHOOSE a \in new : TRUE)
NotedUpTo(basis, allowed) ==
    LET known[n \in 0 .. Len(basis)] ==
            IF n = 0 THEN <<>> ELSE Noted(known[n - 1], basis[n], allowed)
    IN  known
NormalizedBasis(basis, allowed) == NotedUpTo(basis, allowed)[Len(basis)]

\* The options of a group, in the order of its kinds.
Options(group, allowed) == {a \in allowed : a.kind \in Range(group)}
FirstOption(group, allowed) ==
    LET at == {i \in DOMAIN group : \E a \in allowed : a.kind = group[i]}
        first == CHOOSE i \in at : \A j \in at : i <= j
        items == {a \in allowed : a.kind = group[first]}
    IN  CHOOSE a \in items : \A b \in items : a.item <= b.item

Supplied(basis, group, allowed) ==
    IF Options(group, allowed) = {} \/ Range(basis) \cap Options(group, allowed) # {}
    THEN basis ELSE Append(basis, FirstOption(group, allowed))

\* Mutant: missing foundations are not attached.
NormalizedOnly(proposal, allowed) ==
    [proposal EXCEPT !.basis = [d \in Decisions |-> NormalizedBasis(@[d], allowed)],
                     !.framework_basis = NormalizedBasis(@, allowed)]

FrameworkGroups(framework) ==
    CASE framework = "pas" -> << <<"pain_points", "customer_tension">> >>
      [] framework = "aida" -> << <<"goal">>, <<"target", "segments", "audience">> >>
      [] framework = "none" -> <<>>

\* _canonicalize_strategy_basis; a group that nothing serves gets the first option.
SuppliedUpTo(basis, groups, allowed) ==
    LET supplied[n \in 0 .. Len(groups)] ==
            IF n = 0 THEN basis ELSE Supplied(supplied[n - 1], groups[n], allowed)
    IN  supplied
CompleteBasis(basis, groups, allowed) ==
    SuppliedUpTo(NormalizedBasis(basis, allowed), groups, allowed)[Len(groups)]
CanonicalBasis(proposal, allowed) ==
    [proposal EXCEPT
        !.basis = [d \in Decisions |-> CompleteBasis(@[d], BasisRequirements[d], allowed)],
        !.framework_basis = CompleteBasis(@, FrameworkGroups(proposal.framework), allowed)]

----------------------------------------------------------------------------
MissingGroups(basis, groups) ==
    {g \in Range(groups) : {r.kind : r \in Range(basis)} \cap Range(g) = {}}

BasisErrors(proposal, allowed) ==
    {d \in Decisions : \/ ~ Range(proposal.basis[d]) \subseteq allowed
                       \/ MissingGroups(proposal.basis[d], BasisRequirements[d]) # {}}

\* _reject_unsupported_claims and the forbidden claims.
ClaimErrors(proposal, e) ==
    LET claims == proposal.claims \cup proposal.message.claims
    IN  proposal.boundary \/ ~ claims \subseteq e.claims \/ claims \cap e.forbidden # {}

MessageErrors(message) ==
    ~ message.single \/ message.joins \/ Cardinality(message.promises) > 1

\* _validate_strategy
StrategyErrors(proposal, e) ==
    \/ BasisErrors(proposal, AllowedBasis(e)) # {}
    \/ ~ proposal.principles
    \/ ~ Range(proposal.framework_basis) \subseteq AllowedBasis(e)
    \/ MissingGroups(proposal.framework_basis, FrameworkGroups(proposal.framework)) # {}
    \/ proposal.targets \cap e.segments = {}
    \/ proposal.repeats_segment
    \/ MessageErrors(proposal.message)
    \/ ClaimErrors(proposal, e)

Suitable(phrase) == phrase.single /\ ~ phrase.joins

\* _grounded_single_message: the promise the message cites, else the first one; its
\* first suitable phrase; and the first audience identifier cited.
CitedPromise(basis, e) ==
    LET cited(kind, promises) ==
            {i \in DOMAIN promises : [kind |-> kind, item |-> i] \in Range(basis)}
        first(kind, promises) ==
            IF cited(kind, promises) = {} THEN 1
            ELSE CHOOSE i \in cited(kind, promises) : \A j \in cited(kind, promises) : i <= j
    IN  IF e.chains # <<>>
        THEN [reference |-> [kind |-> "feature", item |-> first("feature", e.chains)],
              phrases |-> e.chains[first("feature", e.chains)].phrases]
        ELSE [reference |-> [kind |-> "usp", item |-> first("usp", e.candidates)],
              phrases |-> e.candidates[first("usp", e.candidates)].phrases]

AudienceKinds == Range(TargetEvidence) \cup Range(AudienceEvidence)
CitedAudience(basis) ==
    LET cited == SelectSeq(basis, LAMBDA r : r.kind \in AudienceKinds)
    IN  IF cited = <<>> THEN Whole("customer_tension") ELSE cited[1]

\* Mutant: the replacement is returned without a second validation.
StabilizedUnchecked(proposal, e) ==
    LET canonical == CanonicalBasis(proposal, AllowedBasis(e))
        promise == CitedPromise(canonical.basis["single_minded_message"], e)
    IN  IF e.chains \o e.candidates = <<>> THEN {}
        ELSE {[canonical EXCEPT !.message = promise.phrases[1]]}

\* _stabilize_single_minded_message: the recovered strategy, if there is one.
StabilizedStrategy(proposal, e) ==
    LET canonical == CanonicalBasis(proposal, AllowedBasis(e))
        basis == canonical.basis["single_minded_message"]
        promise == CitedPromise(basis, e)
        phrases == SelectSeq(promise.phrases, Suitable)
        focused == [canonical EXCEPT
                      !.message = phrases[1],
                      !.basis["single_minded_message"] = <<promise.reference, CitedAudience(basis)>>]
    IN  IF e.chains \o e.candidates = <<>> THEN {}
        ELSE IF phrases = <<>> THEN {}
        ELSE IF StrategyErrors(focused, e) THEN {} ELSE {focused}

\* What one provider answer yields: the validated strategy, the recovered one, or none.
StrategyFrom(proposal, e) ==
    LET canonical == CanonicalBasis(proposal, AllowedBasis(e))
    IN  IF StrategyErrors(canonical, e) THEN StabilizedStrategy(proposal, e) ELSE {canonical}

\* _require_one_contract, the tools, then the provider's two answers.
StrategistAccepts(e) == e.fingerprints /\ ~ FrameworkToolFails(e)
=============================================================================
