---------------------------- MODULE Originality ----------------------------
(***************************************************************************)
(* The reference validator: the review of a planned creative against the        *)
(* research and the approved posts of the project, and the gates no score of the  *)
(* model can open (agents/reference_validator, tools/creative/diversity.py,        *)
(* services/concept_memory.py).                                               *)
(*                                                                          *)
(* A dimension of a creative's DNA is the set of its tokens.  Evidence is its      *)
(* length in characters.                                                      *)
(***************************************************************************)
EXTENDS Integers, Sequences, FiniteSets, Functions, Selection

ReferenceDimensions ==
    <<"reference_fit", "market_fit", "brand_fit", "concept_similarity", "layout_similarity",
      "visual_pattern_similarity", "differentiation", "originality">>
QualityThreshold == 8
MaxReferences == 20
MaxEvidence == 1000
MaxSignals == 10
ScoreChars == 12        \* "Score 7/10: "

\* ReferenceValidatorInput
ReadByReferences ==
    {"semantic_contract", "brand", "research", "marketing_strategy", "creative_concept", "copy",
     "art_direction", "design_spec"}
DescribesOnePost(p) == Cardinality({p.prints[s] : s \in ReadByReferences}) = 1

\* ReferenceValidatorReadout and _validated_readout; urls are those of the research.
ReadoutInvalid(x, urls) ==
    LET cited == {r.url : r \in Range(x.references)}
    IN  \/ Len(x.checks) # Len(ReferenceDimensions)
        \/ {c.dimension : c \in Range(x.checks)} # Range(ReferenceDimensions)
        \/ \E c \in Range(x.checks) : c.score \notin 1 .. 10 \/ c.chars \notin 1 .. MaxEvidence
        \/ Len(x.references) > MaxReferences \/ Cardinality(cited) # Len(x.references)
        \/ \E r \in Range(x.references) : (r.use = "COPY") # (r.copied > 0)
        \/ ~ cited \subseteq urls

\* _deterministic_readout
Unreviewed ==
    [checks |-> [i \in DOMAIN ReferenceDimensions |->
                    [dimension |-> ReferenceDimensions[i], score |-> QualityThreshold, chars |-> 103]],
     references |-> <<>>]

----------------------------------------------------------------------------
\* detect_generic_patterns: one family of commodity combinations.
CommodityMarks == {"subject", "gradient", "badge", "generic_cta"}
Commodity(p) == CommodityMarks \subseteq p.marks

\* recall_approved: entries without a readable DNA are passed over, and a fingerprint
\* counts once; memory is the answer of the semantic store.
Recalled(memory) ==
    LET readable == SelectSeq(memory, LAMBDA m : m.readable)
        first(i) == \A j \in 1 .. i - 1 : readable[j].print # readable[i].print
    IN  {readable[i].dna : i \in {i \in DOMAIN readable : first(i)}}

\* find_repetition: three dimensions that share 82 percent of their tokens.
DNADimensions ==
    {"layout", "concept", "visual_hook", "graphic_system", "typography_pattern", "color_behavior",
     "composition", "cta_treatment", "logo_placement"}
Similar(a, b) == a # {} /\ b # {} /\ 100 * Cardinality(a \cap b) >= 82 * Cardinality(a \cup b)
Repeats(dna, previous) == Cardinality({d \in DNADimensions : Similar(dna[d], previous[d])}) >= 3
Repetitions(p) == {previous \in Recalled(p.memory) : Repeats(p.dna, previous)}

Signals(p) == Cardinality(Repetitions(p)) + (IF Commodity(p) THEN 1 ELSE 0)

----------------------------------------------------------------------------
CopyGates == {"concept_similarity", "layout_similarity", "visual_pattern_similarity", "originality"}
GenericGates == {"differentiation", "originality"}
Copied(x) == \E r \in Range(x.references) : r.use = "COPY"
ScoreOf(x, d) == (CHOOSE c \in Range(x.checks) : c.dimension = d).score

\* Mutant: a reviewer that is satisfied with every dimension opens the gates.
FailedUngated(p, x) == {d \in Range(ReferenceDimensions) : ScoreOf(x, d) < QualityThreshold}

\* _apply_hard_gates: the dimensions below the bar.
FailedDimensions(p, x) ==
    {d \in Range(ReferenceDimensions) : ScoreOf(x, d) < QualityThreshold}
    \cup (IF Copied(x) THEN CopyGates ELSE {})
    \cup (IF Signals(p) > 0 THEN GenericGates ELSE {})

\* What the schemas of the issues and of the report refuse; the guard's own evidence
\* is short.
ReportInvalid(p, x) ==
    \/ \E c \in Range(x.checks) : c.score < QualityThreshold /\ c.chars + ScoreChars > MaxEvidence
    \/ Signals(p) > MaxSignals

\* _route
ReferenceRoute(d) ==
    CASE d = "market_fit" -> "strategy" [] d = "layout_similarity" -> "layout" [] OTHER -> "concept"

\* _issues and the report
ReferenceReport(p, x) ==
    LET failed == Chosen(ReferenceDimensions, FailedDimensions(p, x))
        findings == [i \in DOMAIN failed |->
                        [route |-> ReferenceRoute(failed[i]), source |-> failed[i], chars |-> 0]]
    IN  [decision |-> IF findings = <<>> THEN "PASS" ELSE "REVISE", findings |-> findings,
         copied |-> Copied(x), history |-> p.history]
=============================================================================
