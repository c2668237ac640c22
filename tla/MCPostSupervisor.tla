-------------------------- MODULE MCPostSupervisor --------------------------
EXTENDS PostSupervisor, SupervisorPlan, TLC

\* A plan with two levels of review, small enough for overlapping attempts.
SmallPlan == <<
    Stage("copywriting", {}, {"brief"}, <<"copy">>),
    Stage("design_spec", {"copywriting"}, {"copy"}, <<"design_spec">>),
    Stage("quality_review", {"design_spec"}, {"copy", "design_spec"},
          <<"quality", "revision_history">>),
    Stage("quality_scoring", {"quality_review"}, {"design_spec", "quality"},
          <<"quality_approval", "revision_history">>) >>
SmallTargets == [quality_review |-> {"copywriting", "design_spec"},
                 quality_scoring |-> {"design_spec"}]
SmallBudgeted == {"quality_review"}

\* The real plan has 97 pieces of work, within its 100 decisions.
ASSUME RealPlanFits == Plan = DefaultPlan => WorkFits /\ Cardinality(Work) = 97

Attempts == Permutations(Executors)
=============================================================================
