----------------------------- MODULE Production -----------------------------
(***************************************************************************)
(* From the design spec to the draft: what has to be generated, the plate and    *)
(* its inspection, and the composition of the approved originals (tools/          *)
(* generation, tools/scene_purity, tools/composition and their stages).           *)
(*                                                                          *)
(* A post p has the sections the stages read, the fingerprints of their contract   *)
(* (prints), and what the library and the storage hold.  policies is a sequence in *)
(* the order of the asset ids.  A name is a set of words (see Verification), a text *)
(* to be drawn a sequence of them (see CopyArt).  Confidences are percentages.     *)
(***************************************************************************)
EXTENDS Layout, Verification

CONSTANT Scaffold   \* the names that occur in the fixed wording of a scene prompt

Nobody == "none"
NoScene == [checksum |-> Nobody, mime |-> Nobody]   \* a skipped artifact

\* Everything a stage reads was made under one contract; an empty list of policies
\* has no fingerprint, and the composer does not read the contract itself.
Reads ==
    [generation_planning |-> {"semantic_contract", "design_spec", "assets"},
     production |-> {"semantic_contract", "creative_concept", "art_direction", "design_spec",
                     "generation_plan", "assets"},
     scene_purity |-> {"semantic_contract", "generation_plan", "assets"},
     composition |-> {"copy", "design_spec", "assets"}]
Agree(stage, p) ==
    LET read == Reads[stage] \ (IF p.policies = <<>> THEN {"assets"} ELSE {})
    IN  Cardinality({p.prints[s] : s \in read}) = 1

----------------------------------------------------------------------------
\* GenerationPlanner.build
BackgroundRoles == {"environment", "background_reference"}
UsefulRoles == ProductRoles \cup BackgroundRoles \cup {"supporting_asset"}

\* Mutant: an approved product is enough to compose from.
PlanByProduct(p) ==
    LET roles == {a.role : a \in Range(p.policies)}
    IN  [decision |-> IF roles \cap UsefulRoles # {} THEN "COMPOSE_ONLY" ELSE "GENERATE_SCENE",
         preserve |-> {a \in Range(p.policies) : a.required \/ a.preserve}]

GenerationPlan(p) ==
    LET roles == {a.role : a \in Range(p.policies)}
        decision == IF roles \cap UsefulRoles # {} /\ roles \cap BackgroundRoles # {} THEN "COMPOSE_ONLY"
                    ELSE IF roles \cap UsefulRoles # {} THEN "GENERATE_BACKGROUND"
                    ELSE "GENERATE_SCENE"
    IN  [decision |-> decision,
         preserve |-> {a \in Range(p.policies) : a.required \/ a.preserve}]

\* ScenePromptInput
SceneInputErrors(p) ==
    \/ ~ Agree("production", p)
    \/ /\ p.plan.decision # "COMPOSE_ONLY"
       /\ ~ {a.asset : a \in p.plan.preserve} \subseteq {a.asset : a \in Range(p.policies)}

\* ImagePromptBuilder: the texts are cleared of the post's names, the fixed wording is
\* not; chars is the length of the compiled prompt.
PromptTerms(c) == {c.company, c.brand, c.product, c.entity, c.offer, c.cta} \ {{}}
PromptErrors(p) == PromptTerms(p.contract) \cap Scaffold # {} \/ p.chars \notin 80 .. 8000

\* _validate_image: x is the provider's answer.
ImageErrors(p, x) == ~ x.readable \/ x.mime # x.actual \/ x.size # p.spec.canvas
Plate(x) == [checksum |-> x.checksum, mime |-> x.mime]

----------------------------------------------------------------------------
\* The inspection of a plate.
Contaminations ==
    <<"fake_text", "fake_logo", "watermark", "ai_artifact", "duplicate_object", "wrong_product",
      "unexpected_brand", "distortion", "unwanted_ui">>
ConfidenceThreshold(kind) ==
    IF kind \in {"ai_artifact", "duplicate_object", "distortion"} THEN 60 ELSE 50

\* SceneReadout: x.observations is a sequence, one entry per kind.
ReadoutUnusable(x) ==
    \/ Len(x.observations) # Len(Contaminations)
    \/ {o.kind : o \in Range(x.observations)} # Range(Contaminations)
Reported(x, kind) == (CHOOSE o \in Range(x.observations) : o.kind = kind).confidence

\* _apply_product_evidence: the products a plate may not show.
Unapproved(p, products) ==
    IF p.plan.decision = "GENERATE_BACKGROUND" \/ \E a \in p.plan.preserve : a.role \in ProductRoles
    THEN products
    ELSE {name \in products : ~ Matches(name, IdentityTerms({p.contract.product, p.contract.entity}))}

\* decide_scene_purity
Contaminated(p, x) ==
    LET seen == Readout(x)
        own == IdentityTerms({p.contract.company, p.contract.brand})
    IN  {k \in Range(Contaminations) : Reported(x, k) >= ConfidenceThreshold(k)}
        \cup (IF \E t \in seen.text : ~ Stray(t) THEN {"fake_text"} ELSE {})
        \cup (IF seen.brands # {} THEN {"fake_logo"} ELSE {})
        \cup (IF \E name \in seen.brands : ~ Matches(name, own) THEN {"unexpected_brand"} ELSE {})
        \cup (IF Unapproved(p, seen.products) # {} THEN {"wrong_product"} ELSE {})

\* ScenePurityReport; a finding of the revision director for every kind found.
PurityReport(p, x) ==
    LET found == SelectSeq(Contaminations, LAMBDA k : k \in Contaminated(p, x))
        findings == [i \in DOMAIN found |-> [route |-> "scene", source |-> found[i], chars |-> 0]]
    IN  [decision |-> IF findings = <<>> THEN "PASS" ELSE "REGENERATE_SCENE", inspected |-> TRUE,
         findings |-> findings,
         checksum |-> p.scene.checksum, seen |-> p.bytes, history |-> p.history]
Uninspected(p) ==
    [decision |-> "PASS", inspected |-> FALSE, findings |-> <<>>, checksum |-> Nobody, seen |-> Nobody,
     history |-> p.history]

\* Mutant: any plate may follow an inspection that passed.
ClearsAny(report, checksum) == report.decision = "PASS" /\ report.inspected

Clears(report, checksum) == report.decision = "PASS" /\ report.inspected /\ report.checksum = checksum

\* PRESERVED_ON_REGENERATION
PreservedOnRegeneration == {"semantic_contract", "copy", "design_spec", "assets", "generation_plan"}

----------------------------------------------------------------------------
\* WorkflowCompositionResolver: the originals the composer is given.
MaxProducts == 5
MaxExport == 8192
FinalScale == 2

OfRole(p, roles) == Chosen(p.policies, {a \in Range(p.policies) : a.role \in roles})
FirstOf(policies) == IF policies = <<>> THEN <<>> ELSE <<Head(policies)>>
InLibrary(p, policies) == Chosen(policies, {a \in Range(policies) : p.library[a.asset] # "gone"})
ProductsOf(p) == InLibrary(p, OfRole(p, ProductRoles))
LogoOf(p) == InLibrary(p, FirstOf(OfRole(p, {"brand_logo"})))

\* The approved asset that stands for the scene when none was generated.
SceneAsset(p) ==
    FirstOf(OfRole(p, {"environment"}) \o OfRole(p, {"background_reference"}))
SceneOf(p) == IF p.scene = NoScene THEN InLibrary(p, SceneAsset(p)) ELSE <<>>
Looked(p) ==
    Range(OfRole(p, ProductRoles) \o FirstOf(OfRole(p, {"brand_logo"}))
          \o (IF p.scene = NoScene THEN SceneAsset(p) ELSE <<>>))

\* ComposerInput.enforce_asset_policy: what has to be in the post is a product or the logo.
Visuals(p) == {a.asset : a \in Range(ProductsOf(p) \o LogoOf(p))}

\* Mutant: only what the resolver has a place for is missed.
MissingPlaced(p) == {a \in Looked(p) : a.required /\ a.asset \notin Visuals(p)}

Missing(p) == {a \in Range(p.policies) : a.required /\ a.asset \notin Visuals(p)}

\* open_source: the object agrees with its row and can be decoded.
Opens(p, policies) == \A a \in Range(policies) : p.library[a.asset] = "stored"

\* Mutant: the plate is not compared with its checksum.
PlateUnread(p) == FALSE

PlateErrors(p) == p.scene # NoScene /\ p.bytes # p.scene.checksum

\* What stops a composition; the code raises the first of them that it meets.  drawn
\* are the faults only real fonts show: a family or a weight that is not installed, a
\* text that is wider than its estimate.
FontFaults == {"font_unavailable", "text_overflow"}
Stops(p, drawn, placed, count, painted) ==
    [missing_required_asset |->
        Missing(p) # {} \/ \E a \in Looked(p) : a.required /\ p.library[a.asset] = "gone",
     contaminated_scene |-> p.scene # NoScene /\ ~ Clears(p.report, p.scene.checksum),
     storage |-> \E a \in Looked(p) : p.library[a.asset] = "lost",
     inputs |-> ~ Agree("composition", p) \/ count > MaxProducts,
     source |-> PlateErrors(p) \/ ~ Opens(p, SceneOf(p) \o ProductsOf(p) \o LogoOf(p)),
     color |-> \E e \in Range(p.spec.graphics) : e.color \notin painted,
     layout |-> LayoutErrors(p.spec, placed) \/ (count > 0 /\ ProductWidth(placed["product"], count) <= 0),
     typography |-> TypographyFailures(TextBlocks(p.spec, p.copy, placed)) # {},
     font_unavailable |-> "font_unavailable" \in drawn,
     text_overflow |-> "text_overflow" \in drawn,
     export_too_large |-> FinalScale * Greater(p.spec.canvas[1], p.spec.canvas[2]) > MaxExport]
Raised(stops) == {o \in DOMAIN stops : stops[o]}
Obstacles(p, drawn) ==
    Raised(Stops(p, drawn, Placements(p.spec), Len(ProductsOf(p)), {c.role : c \in Range(p.spec.colors)}))

\* DeterministicComposer.compose: the components of the draft.
Component(kind, name, number, source, bytes, bounds) ==
    [kind |-> kind, id |-> <<name, number>>, source |-> source, bytes |-> bytes, bounds |-> bounds]
Original(p, kind, number, a, bounds) ==
    Component(kind, kind, number, a.asset, a.asset, Contained(p.images[a.asset], bounds))
Covering(p, source, bytes) == Component("scene", "scene", 0, source, bytes, CanvasBounds(p.spec))
TextKind(role) == IF role \in {"cta", "offer"} THEN role ELSE "typography"
Composed(p, products, room, blocks, logo) ==
    (IF p.scene # NoScene THEN {Covering(p, Nobody, p.bytes)}
     ELSE {Covering(p, a.asset, a.asset) : a \in Range(SceneOf(p))})
    \cup {Component("graphic_element", "graphic", i, Nobody, Nobody, p.spec.graphics[i].region) :
             i \in DOMAIN p.spec.graphics}
    \cup {Original(p, "product", i, products[i], room[i]) : i \in DOMAIN products}
    \cup {Component(TextKind(role), role, 0, Nobody, Nobody, blocks[role].bounds) : role \in DOMAIN blocks}
    \cup {Original(p, "logo", 0, a, logo) : a \in Range(LogoOf(p))}
DraftAt(p, placed) ==
    Composed(p, ProductsOf(p), ProductBounds(placed["product"], Len(ProductsOf(p))),
             TextBlocks(p.spec, p.copy, placed), placed["logo"])
Draft(p) == DraftAt(p, Placements(p.spec))
=============================================================================
