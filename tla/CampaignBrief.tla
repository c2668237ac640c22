---------------------------- MODULE CampaignBrief ----------------------------
(***************************************************************************)
(* The pure rules of Campaign Mode: when a brief is ready, what a message   *)
(* changes in it, which lifecycle transitions exist, and what the validator *)
(* requires of a plan.  A field value is opaque except where a rule looks   *)
(* inside it: money is a number, channels are a sequence of names, and the  *)
(* validator compares texts by their normal form (NFKC, case folded, runs   *)
(* of other characters collapsed), which Normalized gives.                  *)
(***************************************************************************)
EXTENDS Integers, Sequences

CONSTANTS
    Text,         \* client and model texts
    Normalized,   \* _normalized: a text's normal form
    Within,       \* pairs <<a, b>> of normal forms, a a substring of b
    None

ASSUME BriefConstants ==
    /\ None \notin Text \cup Nat \cup Seq(Text)
    /\ Normalized \in [Text -> Text]
    /\ Within \subseteq Text \X Text
    /\ \A t \in Text : <<t, t>> \in Within

\* offer stands for the five fields no rule reads: offer, value_proposition,
\* duration, brand_tone and constraints.
Fields == {"business", "product_or_service", "goal", "audience", "location",
           "channels", "budget_amount", "budget_currency", "offer"}

Word == {None} \cup Text
Brief ==
    [business: Word, product_or_service: Word, goal: Word, audience: Word, location: Word,
     channels: {None} \cup Seq(Text), budget_amount: {None} \cup Nat, budget_currency: Word,
     offer: Word]

\* What the validator reads of a CampaignPlan; an allocation's items are kept
\* as their sum.
Allocation == [total: Nat, currency: Text, item_total: Nat]
Plan == [location: Word, allocation: {None} \cup Allocation,
         channels: Seq(Text)]

Statuses == {"BRIEFING", "READY", "GENERATING", "PLAN_READY"}

----------------------------------------------------------------------------
MissingFields(brief) ==
    {f \in {"goal", "audience"} : brief[f] = None}
        \cup (IF brief["business"] = None /\ brief["product_or_service"] = None
              THEN {"business_or_product_service"} ELSE {})

Ready(brief) == MissingFields(brief) = {}

StatusForReadiness(brief) == IF Ready(brief) THEN "READY" ELSE "BRIEFING"

\* _EVENT_TRANSITIONS
EventTransitions ==
    { <<"READY", "GENERATION_REQUESTED", "GENERATING">>,
      <<"GENERATING", "PLAN_PERSISTED", "PLAN_READY">>,
      <<"GENERATING", "GENERATION_FAILED", "READY">>,
      <<"PLAN_READY", "EXPORTED", "PLAN_READY">> }

Accepts(status, event) ==
    \E target \in Statuses : <<status, event, target>> \in EventTransitions

Target(status, event) ==
    CHOOSE target \in Statuses : <<status, event, target>> \in EventTransitions

\* _brief_changes: the extracted facts that differ from the brief.
BriefChanges(current, extracted) ==
    [f \in Fields |-> IF extracted[f] = current[f] THEN None ELSE extracted[f]]

NoChanges == [f \in Fields |-> None]

Merge(brief, updates) ==
    [f \in Fields |-> IF updates[f] = None THEN brief[f] ELSE updates[f]]

----------------------------------------------------------------------------
\* The three checks of CampaignPlanValidator, as the sets of issues they raise.
LocationIssues(brief, plan) ==
    LET confirmed == Normalized[brief["location"]]
        actual == Normalized[plan.location]
    IN  IF \/ brief["location"] = None
           \/ plan.location # None /\ {<<confirmed, actual>>, <<actual, confirmed>>} \cap Within # {}
        THEN {} ELSE {"location.mismatch"}

BudgetIssues(brief, plan) ==
    LET allocated == plan.allocation
        confirmed == brief["budget_amount"] # None
    IN  IF allocated = None
        THEN IF confirmed THEN {"budget.missing"} ELSE {}
        ELSE (IF confirmed /\ allocated.total # brief["budget_amount"]
              THEN {"budget.total_mismatch"} ELSE {})
             \cup (IF /\ confirmed /\ brief["budget_currency"] # None
                      /\ Normalized[brief["budget_currency"]] # Normalized[allocated.currency]
                   THEN {"budget.currency_mismatch"} ELSE {})
             \cup (IF allocated.item_total # allocated.total THEN {"budget.items_total_mismatch"} ELSE {})

ChannelIssues(brief, plan) ==
    LET planned == {Normalized[plan.channels[i]] : i \in DOMAIN plan.channels}
    IN  IF \/ brief["channels"] = None
           \/ \A i \in DOMAIN brief["channels"] : Normalized[brief["channels"][i]] \in planned
        THEN {} ELSE {"channels.confirmed_missing"}

Issues(brief, plan) ==
    LocationIssues(brief, plan) \cup BudgetIssues(brief, plan) \cup ChannelIssues(brief, plan)
=============================================================================
