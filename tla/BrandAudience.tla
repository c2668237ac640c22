---------------------------- MODULE BrandAudience ----------------------------
(***************************************************************************)
(* The brand_product_strategist and audience_intelligence agents: what the    *)
(* first is allowed to return about the semantic contract, and what the        *)
(* second requires of it before it asks the provider anything.                *)
(*                                                                          *)
(* A text is the set of terms it contains: values of facts, forbidden claims,  *)
(* markers of assumptions nobody stated.  Keys are compared by what they mean,  *)
(* so their spellings are left out.                                           *)
(***************************************************************************)
EXTENDS Integers, Sequences, FiniteSets

CONSTANTS
    Fact,      \* keys of required facts
    Term,      \* what a text may contain; the value of a fact is a term
    Assumed    \* _UNSUPPORTED_ASSUMPTION_MARKERS

\* PostSemanticContract, the parts these two agents read.  identity is company, brand,
\* product, primary entity and offer; given tells which of market and location are.
Contracts == [facts: UNION {[S -> Term] : S \in SUBSET Fact}, forbidden: SUBSET Term,
              identity: Term, given: SUBSET {"market", "location"}, audience: SUBSET Term,
              fixed: Term, print: Nat]

\* BrandProductLLMOutput: chains of feature, benefit and value, and USP candidates.
Chain == [source: Fact, feature: SUBSET Term, outcome: SUBSET Term]
UspCandidate == [text: SUBSET Term, sources: SUBSET Fact]
BrandProposal == [identity: SUBSET Term, brand_keys: SUBSET Fact, product_keys: SUBSET Fact,
                  chains: Seq(Chain), usps: Seq(UspCandidate)]

Items(seq) == {seq[i] : i \in DOMAIN seq}
Only(f, keys) == [k \in keys |-> f[k]]

ProposalTexts(x) ==
    {x.identity} \cup {u.text : u \in Items(x.usps)}
    \cup {c.feature : c \in Items(x.chains)} \cup {c.outcome : c \in Items(x.chains)}

Cited(x) == {c.source : c \in Items(x.chains)} \cup UNION {u.sources : u \in Items(x.usps)}

\* _ground_analysis: a fact known to the contract, repeated by the feature.
BrandErrors(contract, x) ==
    LET known == DOMAIN contract.facts
    IN  \/ x.brand_keys \cup x.product_keys # known
        \/ ~ Cited(x) \subseteq known
        \/ \E c \in Items(x.chains) : contract.facts[c.source] \notin c.feature
        \/ (UNION ProposalTexts(x)) \cap contract.forbidden # {}
        \/ \E u \in Items(x.usps) : u.sources = {}

\* Mutant: only the facts classified as the product's travel with it.
ProductFactsClassified(x) == x.product_keys

\* "every fact referenced by a product chain or USP must travel with that object too"
ProductFacts(x) == x.product_keys \cup Cited(x)

\* BRAND and PRODUCT; what is protected is copied from the contract.
BrandProductAnalysis(contract, x) ==
    [brand |-> [identity |-> contract.identity, summary |-> x.identity,
                facts |-> Only(contract.facts, x.brand_keys), fixed |-> contract.fixed,
                print |-> contract.print],
     product |-> [identity |-> contract.identity, chains |-> x.chains, usps |-> x.usps,
                  facts |-> Only(contract.facts, ProductFacts(x)), forbidden |-> contract.forbidden,
                  fixed |-> contract.fixed, print |-> contract.print]]

----------------------------------------------------------------------------
\* validate_audience_intelligence_input
AudienceAccepts(contract, brand, product) ==
    /\ brand.print = contract.print /\ product.print = contract.print
    /\ brand.identity = contract.identity /\ product.identity = contract.identity
    /\ \A k \in DOMAIN brand.facts \cap DOMAIN product.facts : brand.facts[k] = product.facts[k]
    /\ [k \in DOMAIN brand.facts \cup DOMAIN product.facts |->
          IF k \in DOMAIN product.facts THEN product.facts[k] ELSE brand.facts[k]] = contract.facts
    /\ brand.fixed = contract.fixed /\ product.fixed = contract.fixed
    /\ product.forbidden = contract.forbidden

\* _analysis_source: the identifiers an insight may cite.
Basis(kind, key) == <<kind, key>>
Declared == Basis("contract", "audience")
AudienceBasis(contract, brand, product) ==
    {Declared, Basis("contract", "platform"), Basis("brand", "identity"), Basis("product", "entity")}
    \cup {Basis("contract", f) : f \in contract.given}
    \cup {Basis("brand", k) : k \in DOMAIN brand.facts}
    \cup {Basis("product", k) : k \in DOMAIN product.facts}
    \cup {Basis("chain", c.source) : c \in Items(product.chains)}

\* What the agent shows the provider; an assumption found here is not unsupported.
AudienceSource(contract, brand, product) ==
    contract.audience \cup brand.summary \cup {brand.facts[k] : k \in DOMAIN brand.facts}
    \cup {product.facts[k] : k \in DOMAIN product.facts}
    \cup UNION {c.feature \cup c.outcome : c \in Items(product.chains)}

\* AudienceIntelligenceLLMOutput: segments, the target among them, and the other
\* insights (needs ... situations, purchase intent, customer tension).
Insight == [says: SUBSET Term, basis: SUBSET (STRING \X STRING), confidence: {"low", "medium", "high"}]
Hypotheses == [segments: Seq(Insight), target: Nat, insights: Seq(Insight)]

AudienceWellFormed(x) ==
    /\ Len(x.segments) \in 1 .. 10 /\ x.target \in DOMAIN x.segments
    /\ \A i \in Items(x.segments \o x.insights) : i.basis # {}

\* _validate_analysis
AudienceErrors(contract, brand, product, x) ==
    LET insights == Items(x.segments \o x.insights)
        said == UNION {i.says : i \in insights}
    IN  \/ ~ AudienceWellFormed(x)
        \/ ~ UNION {i.basis : i \in insights} \subseteq AudienceBasis(contract, brand, product)
        \/ \E s \in Items(x.segments) : Declared \notin s.basis
        \/ \E i \in insights : i.confidence = "high"
        \/ ~ said \cap Assumed \subseteq AudienceSource(contract, brand, product)
        \/ said \cap contract.forbidden # {}

\* AudienceIntelligence; a single segment is a limitation of its own.
AudienceIntelligence(contract, x) ==
    [segments |-> x.segments, target |-> x.target, insights |-> x.insights,
     limitations |-> IF Len(x.segments) = 1 THEN 2 ELSE 1, print |-> contract.print]
=============================================================================
