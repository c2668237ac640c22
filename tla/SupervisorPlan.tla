--------------------------- MODULE SupervisorPlan ---------------------------
(***************************************************************************)
(* DEFAULT_SUPERVISOR_PLAN of domain/supervisor.py, the routing table of    *)
(* the revision director and the stages each reviewer may send back.        *)
(***************************************************************************)
EXTENDS Sequences

Stage(stage, dependencies, required, outputs) ==
    [stage |-> stage, dependencies |-> dependencies,
     required |-> required, outputs |-> outputs]

DefaultPlan == <<
    Stage("client_understanding", {}, {"conversation_context"}, <<"brief">>),
    Stage("semantic_contract", {"client_understanding"}, {"brief"}, <<"semantic_contract">>),
    Stage("asset_intelligence", {"semantic_contract"}, {"semantic_contract"}, <<"assets">>),
    Stage("brand_product", {"semantic_contract"}, {"semantic_contract"},
          <<"brand", "product">>),
    Stage("audience_intelligence", {"brand_product"}, {"semantic_contract"}, <<"audience">>),
    Stage("external_research", {"audience_intelligence"},
          {"semantic_contract", "audience"}, <<"research">>),
    Stage("marketing_strategy", {"external_research"},
          {"brief", "semantic_contract", "brand", "product", "audience", "research"},
          <<"marketing_strategy">>),
    Stage("creative_concept", {"marketing_strategy"},
          {"semantic_contract", "brand", "audience", "research", "marketing_strategy"},
          <<"creative_concept">>),
    Stage("copywriting", {"creative_concept"},
          {"semantic_contract", "creative_concept", "marketing_strategy", "brand"},
          <<"copy">>),
    Stage("art_direction", {"copywriting", "asset_intelligence"},
          {"semantic_contract", "creative_concept", "copy", "brand", "assets"},
          <<"art_direction">>),
    Stage("design_spec", {"copywriting", "art_direction"},
          {"semantic_contract", "copy", "art_direction"}, <<"design_spec">>),
    Stage("reference_validation", {"design_spec"},
          {"semantic_contract", "brand", "research", "marketing_strategy",
           "creative_concept", "copy", "art_direction", "design_spec"},
          <<"reference_validation", "revision_history">>),
    Stage("generation_planning", {"reference_validation", "asset_intelligence"},
          {"design_spec", "reference_validation", "semantic_contract", "assets"},
          <<"generation_plan">>),
    Stage("production", {"generation_planning"},
          {"semantic_contract", "creative_concept", "art_direction", "design_spec",
           "assets", "generation_plan"},
          <<"generation_artifacts">>),
    Stage("scene_purity", {"production"},
          {"semantic_contract", "generation_plan", "generation_artifacts"},
          <<"scene_purity", "revision_history">>),
    Stage("composition", {"scene_purity"},
          {"copy", "design_spec", "assets", "generation_artifacts", "scene_purity"},
          <<"post_draft">>),
    Stage("verification", {"composition"},
          {"semantic_contract", "copy", "design_spec", "post_draft"}, <<"verification">>),
    Stage("quality_review", {"verification"},
          {"semantic_contract", "marketing_strategy", "copy", "post_draft"},
          <<"quality", "revision_history">>),
    Stage("design_review", {"quality_review"},
          {"semantic_contract", "art_direction", "design_spec", "post_draft", "quality"},
          <<"design_quality", "revision_history">>),
    Stage("vision_review", {"design_review"},
          {"semantic_contract", "copy", "design_spec", "assets", "post_draft",
           "design_quality"},
          <<"vision_quality", "revision_history">>),
    Stage("quality_scoring", {"vision_review"},
          {"semantic_contract", "creative_concept", "copy", "art_direction", "design_spec",
           "post_draft", "verification", "quality", "design_quality", "vision_quality"},
          <<"quality_approval", "revision_history">>) >>

\* _ROUTING: the stage that owns each kind of finding.
Routing ==
    [copy |-> "copywriting", typography |-> "design_spec", layout |-> "design_spec",
     color |-> "design_spec", scene |-> "production", product |-> "asset_intelligence",
     strategy |-> "marketing_strategy", concept |-> "creative_concept"]

\* The kinds of finding each reviewer can submit to the director: the range of
\* its own mapping from the dimensions of its report to routes.
ReferenceFindings == {"strategy", "layout", "concept"}
SceneFindings == {"scene"}
MarketingFindings == {"copy", "strategy"}
DesignFindings == {"concept", "typography", "color", "layout"}
VisionFindings == {"product", "scene", "typography", "layout"}
ScoringFindings == {"strategy", "concept", "layout", "typography", "color", "product"}

Findings ==
    [reference_validation |-> ReferenceFindings, scene_purity |-> SceneFindings,
     quality_review |-> MarketingFindings, design_review |-> DesignFindings,
     vision_review |-> VisionFindings, quality_scoring |-> ScoringFindings]

\* The stages a reviewer can send back: the owner of any one of its findings.
DefaultTargets == [r \in DOMAIN Findings |-> {Routing[f] : f \in Findings[r]}]

\* The reviewers that count their own requests against max_revisions; the
\* scoring stage requests without counting.
DefaultBudgeted == DOMAIN Findings \ {"quality_scoring"}
=============================================================================
