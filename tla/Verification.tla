---------------------------- MODULE Verification ----------------------------
(***************************************************************************)
(* The hard gates a finished render must pass (tools/verification): what each  *)
(* compares, and the verdict.  The vision model only enumerates what it sees.   *)
(*                                                                          *)
(* A text is the set of its words, compared without case as _semantic does; {}   *)
(* is an absent text.  A forbidden claim is a single word.  No legal text is      *)
(* ever handed to the composer or to the gates, so it is left out.              *)
(***************************************************************************)
EXTENDS Integers, FiniteSets

CONSTANTS
    Token,      \* words
    Size,       \* their lengths in characters
    Figure,     \* the ones that are numbers
    Capital     \* the ones published with a capital letter

\* The two patterns of the policy: words of three characters or more, and numbers.
Words(text) == {t \in text : Size[t] >= 3}
Figures(text) == text \cap Figure
Marks(text) == Words(text) \cup Figures(text)

Gates ==
    {"correct_brand", "correct_product", "correct_logo", "correct_offer", "correct_spelling",
     "required_facts_present", "required_assets_present", "forbidden_claims_absent",
     "fake_branding_absent", "unwanted_text_absent", "correct_dimensions", "asset_fidelity"}
ProductRoles == {"primary_product", "vehicle", "packaging"}
IdentityKinds == {"product", "logo"}
MaxExportScale == 4
MinTextLength == 2

\* What the composer was allowed to render, and everything that ships.
Approved(p) ==
    {p.copy[f] : f \in {"headline", "subheadline", "supporting_copy", "offer_copy", "cta"}} \ {{}}
Rendered(p) == {c.text : c \in p.draft.components} \ {{}}
Published(p) == UNION (Approved(p) \cup {p.copy.caption} \cup p.copy.hashtags \cup Rendered(p))

\* A name stands for itself and for each of its words.
IdentityTerms(names) == (names \ {{}}) \cup {{t} : t \in UNION {Words(n) : n \in names}}
Matches(name, terms) == name \in terms \/ \E t \in Words(name) : {t} \in terms

OfKind(p, kind) == {c \in p.draft.components : c.kind = kind}
OfRoles(p, roles) == {a.asset : a \in {a \in p.policies : a.role \in roles}}

\* Mutant: the width alone decides the scale.
DimensionsByWidth(p) ==
    LET final == p.draft.final IN
    \/ p.draft.working # p.canvas
    \/ final[1] % p.canvas[1] # 0 \/ final[2] % p.canvas[2] # 0
    \/ final[1] \div p.canvas[1] \notin 1 .. MaxExportScale

\* _check_dimensions
DimensionErrors(p) ==
    LET final == p.draft.final
        scale == final[1] \div p.canvas[1]
    IN  \/ p.draft.working # p.canvas
        \/ final[1] % p.canvas[1] # 0 \/ final[2] % p.canvas[2] # 0
        \/ scale # final[2] \div p.canvas[2]
        \/ scale \notin 1 .. MaxExportScale

\* _check_asset_fidelity
FidelityErrors(p) ==
    \E c \in p.draft.components :
       /\ c.kind \in IdentityKinds
       /\ \/ c.source \notin {a.asset : a \in p.policies}
          \/ ~ c.checksum
          \/ \E a \in p.policies : a.asset = c.source /\ a.preserve /\ ~ c.preserved

\* Mutant: only the contract's own list is looked up.
MissingFromContract(p) == p.contract.required \ {c.source : c \in p.draft.components}

\* _check_required_assets
MissingAssets(p) ==
    (p.contract.required \cup {a.asset : a \in {a \in p.policies : a.required}})
        \ {c.source : c \in p.draft.components}

\* _check_logo
LogoErrors(p) ==
    LET approved == OfRoles(p, {"brand_logo"})
        logos == OfKind(p, "logo")
    IN  IF logos = {} THEN \E a \in p.policies : a.role = "brand_logo" /\ a.required
        ELSE \E c \in logos : c.source \notin approved

\* _check_spelling
SpellingErrors(p) == ~ Rendered(p) \subseteq Approved(p)

\* _check_offer
OfferErrors(p) ==
    /\ p.contract.offer # {}
    /\ \/ p.copy.offer_copy = {}
       \/ p.copy.offer_copy \notin Rendered(p)
       \/ ~ Figures(p.contract.offer) \subseteq Figures(Published(p))

\* _check_required_facts and _check_forbidden_claims
FactErrors(p) == \E f \in p.contract.facts : ~ Marks(f) \subseteq Marks(Published(p))
ClaimErrors(p) == p.contract.forbidden \cap Published(p) # {}

\* _check_brand: the words of the copy are looked up as they are published, with
\* their capitals, while the name the witness reports has lost its own.
Own(p) == IdentityTerms({p.contract.brand, p.contract.company})
Familiar(p) == Own(p) \cup {{t} : t \in Words(Published(p)) \ Capital}
Foreign(p, r) == {name \in r.brands : Own(p) # {} /\ ~ Matches(name, Familiar(p))}
BrandErrors(p, r) ==
    /\ Own(p) # {}
    /\ \/ Foreign(p, r) # {}
       \/ OfKind(p, "logo") = {} /\ {{t} : t \in Words(Published(p))} \cap Own(p) = {}

\* _check_fake_branding
FakeBranding(p, r) ==
    r.brands # {} /\ ~ \E c \in OfKind(p, "logo") : c.source \in OfRoles(p, {"brand_logo"})

\* _check_unwanted_text
Stray(text) == \E t \in Token : text = {t} /\ Size[t] < MinTextLength
UnwantedText(p, r) ==
    LET known == Own(p) \cup {{t} : t \in UNION {Marks(a) : a \in Approved(p)}}
    IN  \E seen \in r.text :
           /\ ~ Stray(seen) /\ Marks(seen) # {}
           /\ \A t \in Marks(seen) : {t} \notin known

\* Mutant: a witness that names no product has not seen the right one.
ProductMustBeSeen(p, r) ==
    LET subject == IdentityTerms({p.contract.product, p.contract.entity})
    IN  \/ \E c \in OfKind(p, "product") : c.source \notin OfRoles(p, ProductRoles)
        \/ ~ \E name \in r.products : Matches(name, subject)

\* _check_product; the contract always has a primary entity.
ProductErrors(p, r) ==
    LET subject == IdentityTerms({p.contract.product, p.contract.entity})
    IN  \/ \E c \in OfKind(p, "product") : c.source \notin OfRoles(p, ProductRoles)
        \/ \E name \in r.products : ~ Matches(name, subject)

\* decide_verification: the gates that failed.
FailedGates(p, r) ==
    LET fails ==
          [correct_brand |-> BrandErrors(p, r), correct_product |-> ProductErrors(p, r),
           correct_logo |-> LogoErrors(p), correct_offer |-> OfferErrors(p),
           correct_spelling |-> SpellingErrors(p), required_facts_present |-> FactErrors(p),
           required_assets_present |-> MissingAssets(p) # {},
           forbidden_claims_absent |-> ClaimErrors(p), fake_branding_absent |-> FakeBranding(p, r),
           unwanted_text_absent |-> UnwantedText(p, r), correct_dimensions |-> DimensionErrors(p),
           asset_fidelity |-> FidelityErrors(p)]
    IN  {g \in Gates : fails[g]}

\* RenderReadout: blank entries are dropped.
Readout(x) == [text |-> x.text \ {{}}, brands |-> x.brands \ {{}}, products |-> x.products \ {{}}]

\* HardVerificationGate.verify; seen is the image the witness was shown, foreign the
\* evidence the brand gate records.
VerificationReport(p, x) ==
    LET failed == FailedGates(p, Readout(x))
    IN  [decision |-> IF failed = {} THEN "PASS" ELSE "BLOCKED", failed |-> failed,
         foreign |-> Foreign(p, Readout(x)), checksum |-> p.draft.checksum,
         render |-> p.draft.render, print |-> p.prints["semantic_contract"], seen |-> p.bytes]
Certifies(report, checksum) == report.decision = "PASS" /\ report.checksum = checksum
=============================================================================
