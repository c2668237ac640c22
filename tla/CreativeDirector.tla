--------------------------- MODULE CreativeDirector ---------------------------
(***************************************************************************)
(* The creative_director agent: an exploration of three to five territories,  *)
(* visual hooks and big ideas is normalised, checked against the quality bar, *)
(* patched by the provider, made safe and, last, repaired without it.         *)
(*                                                                          *)
(* A text is a sequence of sentences; a sentence is the notions it expresses   *)
(* and the faults the patterns find in it.  Two texts are similar when they    *)
(* express the same notions.  Moods, rationales, production notes and the      *)
(* names of ideas, which are only made safe, are left out, and so are the      *)
(* spellings of keys, which the normalisation maps to one name.               *)
(***************************************************************************)
EXTENDS Integers, Sequences, FiniteSets, Functions, Selection

\* An unsupported absolute or number, a forbidden claim, execution vocabulary, the
\* imitation of a competitor, lost grammar; an opening that addresses the audience,
\* a closing "!", fewer than eight words; a stock shot, a meaning carried by words,
\* the advertiser's name.
Unsayable == {"absolute", "numeric", "forbidden"}
Unsafe == Unsayable \cup {"execution", "imitation", "damaged"}
Fault == Unsafe \cup {"addresses", "exclaims", "brief", "literal", "wordy", "advertiser"}

SelectionDimensions ==
    <<"strategy_fit", "audience_fit", "brand_fit", "originality", "clarity",
      "visual_potential", "platform_fit", "production_feasibility">>
QualityThresholds ==
    [d \in Range(SelectionDimensions)
           \cup {"territory_differentiation", "claim_safety", "concept_hook_alignment"} |->
        CASE d = "claim_safety" -> 10
          [] d = "concept_hook_alignment" -> 9
          [] OTHER -> 8]
Dimensions == DOMAIN QualityThresholds
Angles == {"emotional_transformation", "visual_metaphor", "cultural_tension",
           "product_demonstration", "brand_symbol"}

MaxBasis == 20          \* identifiers an item may cite
MaxPatchable == 20      \* violations a patch may answer
MaxLimitations == 20
Corrections == 3        \* calls after the first one

\* An identifier's kind is the prefix the rules look at.
EvidenceKinds == {"strategy", "audience", "brand", "contract"}

Sentence(notions, faults) == [says |-> notions, faults |-> faults]
Notions(prose) == UNION {s.says : s \in Range(prose)}
Faults(prose) == UNION {s.faults : s \in Range(prose)}
Alike(p, q) == Notions(p) = Notions(q)
Said(notions) == <<Sentence(notions, {})>>

\* A pattern anchored at the start or at the end of the text.
Addresses(prose) == prose # <<>> /\ "addresses" \in prose[1].faults
Exclaims(prose) == prose # <<>> /\ "exclaims" \in prose[Len(prose)].faults
Brief(prose) == Len(prose) = 1 /\ "brief" \in prose[1].faults

TerritoryTexts == {"name", "premise", "creative_tension", "strategic_link"}
HookTexts == {"description", "symbol", "wordless_read", "mechanism"}
IdeaTexts == {"idea", "territory_link", "hook_link"}

\* The texts of an exploration that the safety rules read.
AllTexts(x) ==
    (UNION {{t[f] : f \in TerritoryTexts} : t \in Range(x.territories)})
    \cup (UNION {{h[f] : f \in HookTexts} : h \in Range(x.hooks)})
    \cup UNION {{c[f] : f \in IdeaTexts} \cup Range(c.extensions) \cup {c.weakness} :
                c \in Range(x.ideas)}

\* Every field is there.
TerritoryFields == TerritoryTexts \cup {"id", "angle", "basis"}
HookFields == HookTexts \cup {"id", "basis"}
IdeaFields == IdeaTexts \cup {"id", "territory_id", "visual_hook_id", "extensions", "weakness",
                              "scores", "basis"}
Complete(x) ==
    /\ \A t \in Range(x.territories) : DOMAIN t = TerritoryFields
    /\ \A h \in Range(x.hooks) : DOMAIN h = HookFields
    /\ \A c \in Range(x.ideas) : DOMAIN c = IdeaFields

\* The texts of a possibly partial answer; those a repair makes safe.
Fields(item, fields) == {item[f] : f \in fields \cap DOMAIN item}
WrittenTexts(x) ==
    (UNION {Fields(t, TerritoryTexts) : t \in Range(x.territories)})
    \cup (UNION {Fields(h, HookTexts) : h \in Range(x.hooks)})
    \cup UNION {Fields(c, IdeaTexts \cup {"weakness"})
                \cup (IF "extensions" \in DOMAIN c THEN Range(c.extensions) ELSE {}) : c \in Range(x.ideas)}
RepairedTexts(x) ==
    (UNION {Fields(t, TerritoryTexts) : t \in Range(x.territories)})
    \cup (UNION {Fields(h, HookTexts) : h \in Range(x.hooks)})
    \cup UNION {Fields(c, IdeaTexts) : c \in Range(x.ideas)}

----------------------------------------------------------------------------
\* _normalize_provider_output: an item that does not cite what its group needs does.
MarketingAngle == [kind |-> "strategy", item |-> 1]
AudienceTarget == [kind |-> "audience", item |-> 1]
AudienceTension == [kind |-> "audience", item |-> 2]
BrandIdentity == [kind |-> "brand", item |-> 1]

WithKind(basis, kinds, default) ==
    IF \E r \in basis : r.kind \in kinds THEN basis ELSE basis \cup {default}

NormalizedItems(items, kinds, secondary) ==
    [i \in DOMAIN items |->
        LET given == IF "basis" \in DOMAIN items[i] THEN items[i].basis ELSE {}
            cited == WithKind(WithKind(given, {"strategy"}, MarketingAngle), kinds, secondary)
            basis == IF Cardinality(cited) < 2 THEN cited \cup {secondary} ELSE cited
        IN  [f \in DOMAIN items[i] \cup {"basis"} |-> IF f = "basis" THEN basis ELSE items[i][f]]]

Normalized(x) ==
    [territories |-> NormalizedItems(x.territories, {"audience"}, AudienceTension),
     hooks |-> NormalizedItems(x.hooks, {"brand"}, BrandIdentity),
     ideas |-> NormalizedItems(x.ideas, EvidenceKinds, AudienceTarget)]

\* _normalize_basis_references: a list that is too long, and only that, is cut to one
\* identifier of each kind its group needs.
Canonical(basis, kinds, allowed) ==
    LET known(k) == {r \in basis : r.kind \in k}
        pool(k) == IF known(k) # {} THEN known(k) ELSE {r \in allowed : r.kind \in k}
        needed == {CHOOSE r \in pool(k) : TRUE : k \in {k \in {{"strategy"}, kinds} : pool(k) # {}}}
    IN  IF Cardinality(basis) <= MaxBasis \/ ~ basis \subseteq allowed THEN basis
        ELSE IF Cardinality(needed) = 2 THEN needed
        ELSE needed \cup {CHOOSE r \in basis : r \notin needed}

WithCanonicalBasis(x, allowed) ==
    LET cut(items, kinds) ==
            [i \in DOMAIN items |-> [items[i] EXCEPT !.basis = Canonical(@, kinds, allowed)]]
    IN  [territories |-> cut(x.territories, {"audience"}), hooks |-> cut(x.hooks, {"brand"}),
         ideas |-> cut(x.ideas, {"audience"})]

\* CreativeDirectorLLMOutput: sizes, unique identifiers and angles, complete references,
\* no blank text and no flawless scorecard.
Ids(items) == {item.id : item \in Range(items)}
WellFormed(x) ==
    LET groups == {x.territories, x.hooks, x.ideas}
    IN  /\ \A g \in groups : \E n \in 3 .. 5 : DOMAIN g = 1 .. n /\ Cardinality(Ids(g)) = n
        /\ \A g \in groups : \A item \in Range(g) : Cardinality(item.basis) \in 2 .. MaxBasis
        /\ Cardinality({t.angle : t \in Range(x.territories)}) = Len(x.territories)
        /\ {t.angle : t \in Range(x.territories)} \subseteq Angles
        /\ <<>> \notin AllTexts(x)
        /\ \A c \in Range(x.ideas) :
             /\ c.territory_id \in Ids(x.territories) /\ c.visual_hook_id \in Ids(x.hooks)
             /\ Cardinality(Range(c.extensions)) \in 2 .. 6
             /\ c.scores \in [Dimensions -> 1 .. 10] /\ \E d \in Dimensions : c.scores[d] # 10

----------------------------------------------------------------------------
\* validate_exploration: a violation names the item and the rule.
Violation(item, rule) == [item |-> item, rule |-> rule]
Named(kind, item) == <<kind, item.id>>
All == <<"all", 0>>
When(condition, violation) == IF condition THEN {violation} ELSE {}

EvidenceErrors(x, allowed) ==
    LET of(kind, items, kinds) ==
            UNION {When(\/ ~ i.basis \subseteq allowed
                        \/ \E k \in kinds : ~ \E r \in i.basis : r.kind = k,
                        Violation(Named(kind, i), "evidence")) : i \in Range(items)}
    IN  of("territory", x.territories, {"strategy", "audience"})
        \cup of("hook", x.hooks, {"strategy", "brand"})
        \cup of("idea", x.ideas, {"strategy"})
        \cup When({c.territory_id : c \in Range(x.ideas)} # Ids(x.territories),
                  Violation(All, "every territory has an idea"))
        \cup When({c.visual_hook_id : c \in Range(x.ideas)} # Ids(x.hooks),
                  Violation(All, "every hook is used"))

Repeats(texts) == \E i, j \in DOMAIN texts : i < j /\ Alike(texts[i], texts[j])
Column(items, field) == [i \in DOMAIN items |-> items[i][field]]

VarietyErrors(x) ==
    (UNION {When(Repeats(Column(x.territories, f)), Violation(All, f)) : f \in {"name", "premise"}})
    \cup (UNION {When(Repeats(Column(x.hooks, f)), Violation(All, f)) : f \in {"description", "symbol"}})
    \cup When(Repeats(Column(x.ideas, "idea")), Violation(All, "idea"))

\* _require_interpretation: the child expresses something its parent does not.
Interprets(child, parent) == Notions(child) \ Notions(parent) # {}

ById(items, id) == CHOOSE i \in Range(items) : i.id = id
TerritoryOf(x, c) == ById(x.territories, c.territory_id)
HookOf(x, c) == ById(x.hooks, c.visual_hook_id)

ChainErrors(x, brief) ==
    (UNION {When(~ Interprets(t.strategic_link, brief.angle), Violation(Named("territory", t), "link"))
           \cup When(~ Interprets(t.premise, brief.tension), Violation(Named("territory", t), "premise")) :
           t \in Range(x.territories)})
    \cup UNION {When(~ Interprets(c.territory_link, TerritoryOf(x, c).premise),
                     Violation(Named("idea", c), "territory link"))
                \cup When(~ Interprets(c.idea, TerritoryOf(x, c).premise),
                          Violation(Named("idea", c), "big idea"))
                \cup When(~ Interprets(c.hook_link, HookOf(x, c).description),
                          Violation(Named("idea", c), "hook link")) : c \in Range(x.ideas)}

HookErrors(x) ==
    UNION {(UNION {When("literal" \in Faults(h[f]), Violation(Named("hook", h),
                       IF f = "symbol" THEN "symbol is stock" ELSE "stock product shot")) : f \in HookTexts})
           \cup When("wordy" \in Faults(h.wordless_read), Violation(Named("hook", h), "words removed"))
           \cup When(Alike(h.symbol, h.description), Violation(Named("hook", h), "symbol")) :
           h \in Range(x.hooks)}

BigIdeaErrors(x, brief) ==
    (UNION {When(Addresses(t.premise), Violation(Named("territory", t), "copy")) :
           t \in Range(x.territories)})
    \cup UNION {When(Brief(c.idea), Violation(Named("idea", c), "line"))
                \cup When(Addresses(c.idea), Violation(Named("idea", c), "copy"))
                \cup When(Exclaims(c.idea), Violation(Named("idea", c), "headline"))
                \cup When(Notions(c.idea) \in brief.wordings, Violation(Named("idea", c), "interpret"))
                \cup {Violation(<<"idea", c.id, i>>, "extension") : i \in
                        {i \in DOMAIN c.extensions : \/ Addresses(c.extensions[i])
                                                     \/ Alike(c.extensions[i], c.idea)}} :
                c \in Range(x.ideas)}

VoiceErrors(x) ==
    (UNION {When("advertiser" \in Faults(c.idea), Violation(Named("idea", c), "advertiser")) :
           c \in Range(x.ideas)})
    \cup UNION {When("advertiser" \in Faults(h.wordless_read), Violation(Named("hook", h), "advertiser")) :
                h \in Range(x.hooks)}

SelectionScores(c) == [i \in DOMAIN SelectionDimensions |-> c.scores[SelectionDimensions[i]]]
ScorecardErrors(x) ==
    When(\E i, j \in DOMAIN x.ideas : i < j /\ SelectionScores(x.ideas[i]) = SelectionScores(x.ideas[j]),
         Violation(All, "identical scorecards"))
    \cup When(Repeats(Column(x.ideas, "weakness")), Violation(All, "weaknesses"))

SafetyErrors(x) ==
    {Violation(All, f) : f \in (UNION {Faults(p) : p \in AllTexts(x)}) \cap Unsafe}

ExplorationErrors(x, brief) ==
    EvidenceErrors(x, brief.allowed) \cup VarietyErrors(x) \cup ChainErrors(x, brief)
    \cup HookErrors(x) \cup BigIdeaErrors(x, brief) \cup VoiceErrors(x)
    \cup ScorecardErrors(x) \cup SafetyErrors(x)

----------------------------------------------------------------------------
\* The ranking: the total, then the dimensions in their order.
Total(c) == Sum(SelectionScores(c))

\* Mutant: equal totals are left in the order of the list.
AboveByTotal(c, d) == Total(c) > Total(d)

Above(c, d) ==
    LET s == SelectionScores(c) t == SelectionScores(d)
    IN  \/ Total(c) > Total(d)
        \/ /\ Total(c) = Total(d)
           /\ \E i \in DOMAIN s : s[i] > t[i] /\ \A j \in 1 .. i - 1 : s[j] = t[j]

\* The first of the stable sort.
Winner(ideas) ==
    LET best == {i \in DOMAIN ideas : ~ \E j \in DOMAIN ideas : Above(ideas[j], ideas[i])}
    IN  ideas[CHOOSE i \in best : \A j \in best : i <= j]

GateFailures(c) == {d \in Dimensions : c.scores[d] < QualityThresholds[d]}

\* _validated_direction: what is wrong with a provider's object.
DirectionErrors(x, brief) ==
    LET y == WithCanonicalBasis(Normalized(x), brief.allowed)
        errors == ExplorationErrors(y, brief)
    IN  IF ~ WellFormed(y) THEN {Violation(All, "schema")}
        ELSE IF errors # {} THEN errors
        ELSE When(GateFailures(Winner(y.ideas)) # {}, Violation(All, "below the quality bar"))

Announced(notes) ==
    (IF "stabilized" \in notes THEN <<"stabilized">> ELSE <<>>)
    \o (IF "related" \in notes THEN <<"related">> ELSE <<>>)
Shortened(limitations) ==
    SubSeq(limitations, 1, IF Len(limitations) < MaxLimitations THEN Len(limitations) ELSE MaxLimitations)

\* The published direction: the winner, the others in rank order, what limits it.
Direction(x, brief, notes) ==
    [exploration |-> WithCanonicalBasis(Normalized(x), brief.allowed),
     winner |-> Winner(x.ideas).id,
     rejected |-> Ids(x.ideas) \ {Winner(x.ideas).id},
     limitations |-> Shortened(brief.limitations \o Announced(notes))]

----------------------------------------------------------------------------
\* _sanitize_repair_text: whole sentences go; a text left damaged goes as well.
Safe(prose) ==
    LET reworded == [i \in DOMAIN prose |->
            IF "execution" \in prose[i].faults
            THEN Sentence(prose[i].says \cup {"contrast"}, prose[i].faults \ {"execution"})
            ELSE prose[i]]
        kept == Chosen(reworded, {s \in Range(reworded) : s.faults \cap Unsayable = {}})
    IN  IF "damaged" \in Faults(kept) THEN <<>> ELSE kept

SafeFields(item, fields) == [f \in DOMAIN item |-> IF f \in fields THEN Safe(item[f]) ELSE item[f]]

\* A sentence that puts two texts together; what opens it is the first.
Joined(p, q, notion) ==
    LET opening == IF q = <<>> THEN {} ELSE q[1].faults
        notions == IF q = <<>> THEN {} ELSE q[1].says
        faults == (IF Addresses(p) THEN {"addresses"} ELSE {})
                  \cup ((Faults(p) \cup opening) \ {"addresses", "brief"})
    IN  <<Sentence(Notions(p) \cup notions \cup {notion}, faults)>> \o
        (IF q = <<>> THEN <<>> ELSE Tail(q))

\* Mutant: the sentences stay where the provider wrote them.
StabilizedIdeasOnly(x, brief) == x

\* stabilize_repair: texts made safe, copy reframed; a text with nothing left is blank.
\* An incomplete object is only made safe: what it still says as copy is reframed by
\* the correction that completes it.
SafeObject(x) ==
    [territories |-> [i \in DOMAIN x.territories |-> SafeFields(x.territories[i], TerritoryTexts)],
     hooks |-> [i \in DOMAIN x.hooks |-> SafeFields(x.hooks[i], HookTexts)],
     ideas |-> [i \in DOMAIN x.ideas |->
        LET c == SafeFields(x.ideas[i], IdeaTexts)
        IN  [f \in DOMAIN c |->
               IF f # "extensions" THEN c[f]
               ELSE SelectSeq([k \in DOMAIN c[f] |-> Safe(c[f][k])], LAMBDA e : e # <<>>)]]]

\* What an item that is referred to says, or what stands for one that is not there.
Referred(items, id, field, default) == IF id \in Ids(items) THEN ById(items, id)[field] ELSE default

ReframedTerritory(t) ==
    IF Addresses(t.premise)
    THEN [t EXCEPT !.premise = Safe(Joined(t.name, t.creative_tension, "shift"))] ELSE t
ReframedIdea(c, x, brief) ==
    IF Notions(c.idea) \in brief.wordings \/ Addresses(c.idea)
    THEN [c EXCEPT !.idea = Safe(Joined(Referred(x.territories, c.territory_id, "name", Said({"tension"})),
                                        Referred(x.hooks, c.visual_hook_id, "symbol", Said({"transformation"})),
                                        "metaphor"))]
    ELSE c

Stabilized(x, brief) ==
    LET safe == SafeObject(x)
    IN  IF ~ Complete(x) THEN safe
        ELSE [safe EXCEPT
               !.territories = [i \in DOMAIN @ |-> ReframedTerritory(@[i])],
               !.ideas = [i \in DOMAIN @ |-> ReframedIdea(@[i], safe, brief)]]

\* UnsayableConcept
Blank(x) == <<>> \in RepairedTexts(x)

----------------------------------------------------------------------------
\* A provider's answer: text that is no JSON object, or an object whose items may be
\* complete or hold an identifier and the fields to change; legal tells whether it
\* keeps to the groups and fields a patch may touch.
NoObject == [form |-> "text"]
Overlaid(base, edit) == [f \in DOMAIN base |-> IF f \in DOMAIN edit THEN edit[f] ELSE base[f]]

\* The edits of the items a patch names; it adds none, and scores are merged.
Merged(items, edits) ==
    [i \in DOMAIN items |->
        LET to == {e \in Range(edits) : e.id = items[i].id}
            edit == CHOOSE e \in to : TRUE
        IN  IF to = {} THEN items[i]
            ELSE [f \in DOMAIN items[i] \cup DOMAIN edit |->
                    IF f \notin DOMAIN edit THEN items[i][f]
                    ELSE IF f = "scores" /\ f \in DOMAIN items[i]
                    THEN Overlaid(items[i][f], edit[f]) ELSE edit[f]]]

\* _apply_provider_patch
Patched(previous, answer) ==
    LET patch == Normalized(answer.x)
    IN  IF IF Complete(patch) THEN WellFormed(patch) ELSE FALSE THEN patch
        ELSE [g \in DOMAIN previous |-> Merged(previous[g], patch[g])]

\* _needs_regeneration
NeedsRegeneration(errors) ==
    \/ \E e \in errors : e.rule \in {"below the quality bar", "stock product shot", "symbol is stock"}
    \/ Cardinality(errors) > MaxPatchable

\* _stabilize_relational_repair: the items the errors name get fixed sentences.
Emblems == << "threshold", "key", "doorway" >>
Rituals == << "arrival", "detail", "season" >>
Scores == << [originality |-> 8, clarity |-> 10], [originality |-> 9, clarity |-> 9],
             [originality |-> 10, clarity |-> 8] >>
Turn(templates, i) == templates[((i - 1) % 3) + 1]

Rules(errors, item) == {e.rule : e \in {e \in errors : e.item = item}}

RelatedIdea(c, i, x, errors) ==
    LET rules == Rules(errors, Named("idea", c))
        angle == Referred(x.territories, c.territory_id, "angle", "visual_metaphor")
        symbol == Referred(x.hooks, c.visual_hook_id, "symbol", Said({"transformation"}))
        rewritten == IF rules \cap {"big idea", "interpret"} # {}
                     THEN Said(Notions(symbol) \cup {angle, "recurring metaphor"}) ELSE c.idea
        unnamed == IF "advertiser" \in rules
                   THEN [k \in DOMAIN rewritten |-> [rewritten[k] EXCEPT !.faults = @ \ {"advertiser"}]]
                   ELSE rewritten
    IN  [c EXCEPT
          !.territory_link = IF "territory link" \in rules THEN Said(Notions(c.idea) \cup {angle, "route"}) ELSE @,
          !.hook_link = IF "hook link" \in rules THEN Said(Notions(symbol) \cup {"evidence"}) ELSE @,
          !.idea = unnamed,
          !.extensions = [k \in DOMAIN @ |-> IF Rules(errors, <<"idea", c.id, k>>) # {}
                                             THEN Said({Turn(Rituals, i)}) ELSE @[k]],
          !.scores = IF "identical scorecards" \in Rules(errors, All) THEN Overlaid(@, Turn(Scores, i)) ELSE @,
          !.weakness = IF "weaknesses" \in Rules(errors, All) THEN Said({"weakness", Turn(Rituals, i)}) ELSE @]

RelatedHook(h, i, x, errors) ==
    LET rules == Rules(errors, Named("hook", h))
        users == {k \in DOMAIN x.ideas : x.ideas[k].visual_hook_id = h.id}
        last == x.ideas[CHOOSE k \in users : \A l \in users : l <= k]
        angle == Referred(x.territories, last.territory_id, "angle", "visual_metaphor")
    IN  [h EXCEPT
          !.symbol = IF rules \cap {"symbol", "symbol is stock"} # {} /\ users # {}
                     THEN Said({angle, "emblem"})
                     ELSE IF "symbol" \in Rules(errors, All) THEN Said({Turn(Emblems, i)}) ELSE @,
          !.description = IF "description" \in Rules(errors, All) THEN Said({Turn(Emblems, i), "unfolds"})
                          ELSE @,
          !.wordless_read = IF "advertiser" \in rules
                            THEN [k \in DOMAIN @ |-> [@[k] EXCEPT !.faults = @ \ {"advertiser"}]] ELSE @]

Related(x, errors) ==
    [x EXCEPT !.hooks = [i \in DOMAIN @ |-> RelatedHook(@[i], i, x, errors)],
              !.ideas = [i \in DOMAIN @ |-> RelatedIdea(@[i], i, x, errors)]]

Repairable(errors) ==
    \E e \in errors :
       \/ e.rule \in {"territory link", "hook link", "big idea", "interpret", "extension", "advertiser",
                      "symbol is stock", "identical scorecards", "weaknesses", "symbol"}
       \/ e.item = All /\ e.rule = "description"

----------------------------------------------------------------------------
\* One correction: the provider's answer is a new exploration or a patch, then the
\* texts are made safe and, in the last correction, the relations repaired.  The
\* result is the next candidate, whether code rewrote it, or no candidate at all.
Refused == [form |-> "refused"]
Object(x) == [form |-> "object", x |-> x, legal |-> TRUE]

\* Mutant: only the relational repair is reported.
RelationalNotes(changed, related) == IF related THEN {"related"} ELSE {}

\* The limitations a repair adds to the direction.
RepairNotes(changed, related) ==
    (IF changed THEN {"stabilized"} ELSE {}) \cup (IF related THEN {"related"} ELSE {})

Correction(brief, previous, errors, answer, last) ==
    LET regenerated == previous = NoObject \/ NeedsRegeneration(errors)
        repaired == IF regenerated THEN Normalized(answer.x)
                    ELSE Patched(Normalized(previous.x), answer)
        stable == Stabilized(repaired, brief)
        relate == last /\ Repairable(errors) /\ Complete(stable)
        related == IF relate THEN Related(stable, errors) ELSE stable
        notes == RepairNotes(stable # repaired, relate)
    IN  IF answer = NoObject
        THEN [candidate |-> IF regenerated /\ ~ last THEN NoObject ELSE Refused, notes |-> {}]
        ELSE IF ~ regenerated /\ ~ answer.legal THEN [candidate |-> Refused, notes |-> {}]
        ELSE IF Blank(stable) THEN [candidate |-> Refused, notes |-> {}]
        ELSE [candidate |-> Object(related), notes |-> notes]

\* The errors of a candidate; an unparsable one has its own.
CandidateErrors(candidate, brief) ==
    IF candidate = NoObject THEN {Violation(All, "json")}
    ELSE IF ~ Complete(Normalized(candidate.x)) THEN {Violation(All, "schema")}
    ELSE DirectionErrors(candidate.x, brief)
=============================================================================
