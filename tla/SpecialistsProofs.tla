-------------------------- MODULE SpecialistsProofs --------------------------
(***************************************************************************)
(* Proofs about single specialists and the chains they form, for every answer *)
(* a model can give in its schema and every input that passed the stage       *)
(* before: the brief says what the client said, the strategy rests on          *)
(* evidence, the hard gates are exact, an approval names one render, a finding   *)
(* starts a revision that reaches its owner and a draft that is stored is sound. *)
(*                                                                          *)
(* The argument: the invariants only say where an input and an output came     *)
(* from (from which function, applied to what); all the rest is a property of   *)
(* those functions and a lemma of its own.  A repair needs no model of the      *)
(* answer it repairs: what is put in a brief is searched for in the messages    *)
(* (BriefIsSayable), and what is added to a basis is the first option that      *)
(* serves a group, which never takes another group's away (CompleteServes).    *)
(* A draft is arithmetic: texts are stacked with room between them inside a     *)
(* column that a list of candidates is searched for, by induction over the      *)
(* texts of a group (AllFit), and scaling keeps apart what was apart.           *)
(***************************************************************************)
EXTENDS Specialists, FiniteSetTheorems, SequenceTheorems, NaturalsInduction,
        WellFoundedInduction, TLAPS

----------------------------------------------------------------------------
(* The brief. *)

\* What may be said of the client: what was verified, and what is in a message.
Sayable(source) ==
    {None} \cup {source.verified[g] : g \in ScalarFields} \cup UNION {m.words : m \in ClientTexts(source)}

\* What a search finds in a message is among its words.
Grounded(source) ==
    /\ source.history \in Seq([role : {"user", "assistant"}, said : Said]) /\ source.latest \in Said
    /\ \A m \in ClientTexts(source) :
          m.platforms \cup ({m.named, m.kind, m.goal, m.action} \ {None}) \subseteq m.words

\* A non-empty set of naturals has a least element, and a greatest one below a bound.
LEMMA LeastNatural ==
    ASSUME NEW A, A \subseteq Nat, A # {}
    PROVE  \E x \in A : \A y \in A : x <= y
<1> DEFINE R == OpToRel(<, Nat)
<1>1. IsWellFoundedOn(R, Nat)
  BY NatLessThanWellFounded
<1>2. \A x, y \in Nat : <<x, y>> \in R <=> x < y
  BY DEF OpToRel
<1> HIDE DEF R
<1>3. \E x \in A : \A y \in A : ~ (<<y, x>> \in R)
  BY <1>1, WFMin
<1>4. PICK x \in A : \A y \in A : ~ (<<y, x>> \in R)
  BY <1>3
<1>5. \A y \in A : ~ (y < x)
  BY <1>2, <1>4
<1>6. \A y \in A : x <= y
  BY <1>5
<1> QED BY <1>6

LEMMA GreatestNatural ==
    ASSUME NEW A, NEW n \in Nat, A \subseteq 0 .. n, A # {}
    PROVE  \E x \in A : \A y \in A : x >= y
<1> DEFINE B == {n - x : x \in A}
<1>1. B \subseteq Nat /\ B # {}
  <2>1. ASSUME NEW x \in A PROVE n - x \in Nat
    <3>1. x \in Nat /\ x <= n
      OBVIOUS
    <3> QED BY <3>1
  <2>2. PICK x : x \in A
    OBVIOUS
  <2>3. n - x \in B
    BY <2>2
  <2> QED BY <2>1, <2>3
<1>2. PICK b \in B : \A c \in B : b <= c
  BY <1>1, LeastNatural
<1>3. PICK x \in A : b = n - x
  OBVIOUS
<1>4. \A y \in A : x >= y
  BY <1>2, <1>3
<1> QED BY <1>4

\* A search returns nothing or something that the client wrote.
LEMMA FoundIsSayable ==
    ASSUME NEW source, Grounded(source), NEW f \in {"named", "kind", "goal", "action"}
    PROVE  FirstFound(source, f) \in Sayable(source) /\ LastFound(source, f) \in Sayable(source)
<1> DEFINE hits == Matching(source, f)
<1>1. Len(source.history) \in Nat /\ DOMAIN source.history = 1 .. Len(source.history)
  BY DEF Grounded
<1>2. hits \subseteq 0 .. Len(source.history)
  BY <1>1 DEF Matching, ClientTurns
<1>3. ASSUME NEW i \in hits PROVE Message(source, i)[f] \in Sayable(source)
  <2>1. PICK m : m = Message(source, i)
    OBVIOUS
  <2>2. m \in ClientTexts(source) /\ m[f] # None
    BY <2>1, <1>3 DEF Matching, ClientTexts
  <2>3. m[f] \in {m.named, m.kind, m.goal, m.action}
    OBVIOUS
  <2>4. m[f] \in m.words
    BY <2>2, <2>3 DEF Grounded
  <2> QED BY <2>1, <2>2, <2>4 DEF Sayable
<1>4. hits # {} => \E i \in hits : \A j \in hits : i <= j
  <2> HIDE DEF hits
  <2> QED BY <1>1, <1>2, LeastNatural
<1>5. hits # {} => \E i \in hits : \A j \in hits : i >= j
  <2> HIDE DEF hits
  <2> QED BY <1>1, <1>2, GreatestNatural
<1>6. None \in Sayable(source)
  BY DEF Sayable
<1>7. hits # {} => (CHOOSE i \in hits : \A j \in hits : i <= j) \in hits
  BY <1>4
<1>8. hits # {} => (CHOOSE i \in hits : \A j \in hits : i >= j) \in hits
  BY <1>5
<1>9. FirstFound(source, f) \in Sayable(source)
  BY <1>3, <1>6, <1>7 DEF FirstFound
<1>10. LastFound(source, f) \in Sayable(source)
  BY <1>3, <1>6, <1>8 DEF LastFound
<1> QED BY <1>9, <1>10

LEMMA PlatformIsSayable ==
    ASSUME NEW source, Grounded(source)
    PROVE  ExtractPlatform(source) \in Sayable(source)
<1> DEFINE named == UNION {m.platforms : m \in ClientTexts(source)}
<1>1. ASSUME NEW p \in named PROVE p \in Sayable(source)
  BY <1>1 DEF Grounded, Sayable
<1>2. named # {} => (CHOOSE p \in named : TRUE) \in named
  OBVIOUS
<1>3. None \in Sayable(source)
  BY DEF Sayable
<1> QED BY <1>1, <1>2, <1>3 DEF ExtractPlatform

LEMMA TrustedIsSayable ==
    ASSUME NEW source, NEW x
    PROVE  Trusted(source, x) \in [ScalarFields -> Sayable(source)]
<1>1. ASSUME NEW f \in ScalarFields, source.verified[f] # None PROVE source.verified[f] \in Sayable(source)
  BY DEF Sayable
<1>2. ASSUME NEW v, NEW q PROVE GroundedOptional(source, v, q) \in Sayable(source)
  <2>1. CASE \E m \in ClientTexts(source) : v \in m.words
    <3>1. v \in Sayable(source) /\ None \in Sayable(source)
      BY <2>1 DEF Sayable
    <3> QED BY <3>1 DEF GroundedOptional
  <2>2. CASE ~ \E m \in ClientTexts(source) : v \in m.words
    <3>1. ~ (IsClientQuote(source, q) /\ v \in q)
      BY <2>2 DEF IsClientQuote
    <3> QED BY <2>2, <3>1 DEF GroundedOptional, Sayable
  <2> QED BY <2>1, <2>2
<1> QED BY <1>1, <1>2 DEF Trusted

LEMMA FieldNames ==
    /\ {"business", "brand", "product_service", "goal", "cta_intent", "language", "platform"}
          \subseteq ScalarFields
    /\ Fields \subseteq ScalarFields /\ Subjects \subseteq Fields
BY DEF ScalarFields, Fields, Subjects

LEMMA DistinguishedIsSayable ==
    ASSUME NEW source, NEW x, NEW v \in [ScalarFields -> Sayable(source)]
    PROVE  SplitGoalAndAction(Distinguished(v, x)) \in [ScalarFields -> Sayable(source)]
<1>1. None \in Sayable(source)
  BY DEF Sayable
<1>2. PICK w : w = Distinguished(v, x)
  OBVIOUS
<1>3. w \in [ScalarFields -> Sayable(source)]
  BY <1>1, <1>2, FieldNames DEF Distinguished
<1>4. SplitGoalAndAction(w) \in [ScalarFields -> Sayable(source)]
  BY <1>1, <1>3, FieldNames DEF SplitGoalAndAction
<1> QED BY <1>2, <1>4

\* What the messages supply is in them.
LEMMA CompletedIsSayable ==
    ASSUME NEW source, Grounded(source), NEW v \in [ScalarFields -> Sayable(source)],
           NEW f \in ScalarFields \ {"language"}
    PROVE  Completed(v, source)[f] \in Sayable(source)
<1>1. /\ ExtractNamedBrand(source) \in Sayable(source) /\ ExtractBusinessType(source) \in Sayable(source)
      /\ ExtractGoal(source) \in Sayable(source) /\ ExtractCta(source) \in Sayable(source)
      /\ ExtractPlatform(source) \in Sayable(source)
  BY FoundIsSayable, PlatformIsSayable DEF ExtractNamedBrand, ExtractBusinessType, ExtractGoal, ExtractCta
<1>2. PICK b : b = Or(v["business"], ExtractBusinessType(source))
  OBVIOUS
<1>3. b \in Sayable(source)
  BY <1>1, <1>2, FieldNames DEF Or
<1> QED BY <1>1, <1>2, <1>3, FieldNames DEF Completed, Or

LEMMA BriefIsSayable ==
    ASSUME NEW source, Grounded(source), NEW x, NEW f \in ScalarFields \ {"language"}
    PROVE  BuildBrief(source, x).values[f] \in Sayable(source)
<1>1. Trusted(source, x) \in [ScalarFields -> Sayable(source)]
  BY TrustedIsSayable
<1>2. SplitGoalAndAction(Distinguished(Trusted(source, x), x)) \in [ScalarFields -> Sayable(source)]
  BY <1>1, DistinguishedIsSayable
<1>3. Completed(SplitGoalAndAction(Distinguished(Trusted(source, x), x)), source)[f] \in Sayable(source)
  BY <1>2, CompletedIsSayable
<1> QED BY <1>3 DEF BuildBrief

\* A subject that was verified is in the brief, or another one is in its place.
LEMMA SubjectSurvives ==
    ASSUME NEW source, NEW x, NEW s \in Subjects, source.verified[s] # None
    PROVE  \E t \in Subjects : BuildBrief(source, x).values[t] # None
<1>1. PICK u : u = Trusted(source, x)
  OBVIOUS
<1>2. PICK d : d = Distinguished(u, x)
  OBVIOUS
<1>3. PICK g : g = SplitGoalAndAction(d)
  OBVIOUS
<1>4. DOMAIN u = ScalarFields /\ u[s] # None
  BY <1>1, FieldNames DEF Trusted
<1>5. DOMAIN d = ScalarFields /\ \E t \in Subjects : d[t] # None
  <2>1. DOMAIN d = ScalarFields /\ d["brand"] = u["brand"]
    BY <1>2, <1>4, FieldNames DEF Distinguished
  <2>2. CASE u["brand"] # None
    BY <2>1, <2>2 DEF Subjects
  <2>3. CASE u["brand"] = None
    <3>1. d["product_service"] = u["product_service"] /\ d["business"] = u["business"]
      BY <1>2, <1>4, <2>3, FieldNames DEF Distinguished
    <3> QED BY <1>4, <2>1, <3>1 DEF Subjects
  <2> QED BY <2>2, <2>3
<1>6. DOMAIN g = ScalarFields /\ \A t \in Subjects : g[t] = d[t]
  BY <1>3, <1>5, FieldNames DEF SplitGoalAndAction, Subjects
<1>7. PICK t \in Subjects : g[t] # None
  BY <1>5, <1>6
<1>8. Completed(g, source)[t] # None
  BY <1>6, <1>7, FieldNames DEF Completed, Or, Subjects
<1> QED BY <1>1, <1>2, <1>3, <1>8 DEF BuildBrief

\* The clarification engine asks only when no subject is known.
LEMMA SubjectsSuffice ==
    ASSUME NEW context
    PROVE  RequiresUserInput(context) <=> \A s \in Subjects : context.facts[s] = None
BY DEF RequiresUserInput, Classify, Fields, Subjects

LEMMA BriefSuffices ==
    ASSUME NEW i, NEW x, i.source.verified = VerifiedBy(i.context), i.context.inferred \subseteq {"goal"},
           ~ RequiresUserInput(i.context)
    PROVE  ~ BriefNeedsClient(BuildBrief(i.source, x))
<1>1. PICK s \in Subjects : i.context.facts[s] # None
  BY SubjectsSuffice
<1>2. s \in Fields /\ s \in ScalarFields /\ s # "goal"
  BY FieldNames DEF Subjects
<1>3. i.source.verified[s] # None
  BY <1>1, <1>2 DEF VerifiedBy, ProjectContext
<1>4. PICK b : b = BuildBrief(i.source, x)
  OBVIOUS
<1>5. \E t \in Subjects : b.values[t] # None
  BY <1>3, <1>4, SubjectSurvives
<1>6. ~ RequiresUserInput([facts |-> b.values])
  BY <1>5, SubjectsSuffice
<1> QED BY <1>4, <1>6 DEF BriefNeedsClient

----------------------------------------------------------------------------
(* The gates. *)

\* Whole factors: a size is a multiple of another exactly when nothing is left over.
LEMMA WholeFactor ==
    ASSUME NEW n \in Nat, NEW d \in Nat \ {0}, NEW k \in 1 .. VR!MaxExportScale
    PROVE  (n % d = 0 /\ n \div d = k) <=> n = k * d
<1>1. k \in {1, 2, 3, 4}
  BY DEF VR!MaxExportScale
<1>2. n = (n \div d) * d + (n % d) /\ n % d \in 0 .. d - 1 /\ n \div d \in Int
  OBVIOUS
<1>3. CASE k = 1
  BY <1>2, <1>3
<1>4. CASE k = 2
  BY <1>2, <1>4
<1>5. CASE k = 3
  BY <1>2, <1>5
<1>6. CASE k = 4
  BY <1>2, <1>6
<1> QED BY <1>1, <1>3, <1>4, <1>5, <1>6

LEMMA DimensionsAreExact ==
    ASSUME NEW p, p.canvas \in (Nat \ {0}) \X (Nat \ {0}), p.draft.final \in Nat \X Nat
    PROVE  ~ VR!DimensionErrors(p) <=>
              /\ p.draft.working = p.canvas
              /\ \E k \in 1 .. VR!MaxExportScale : p.draft.final = <<k * p.canvas[1], k * p.canvas[2]>>
<1>1. PICK w, h : w = p.canvas[1] /\ h = p.canvas[2] /\ w \in Nat \ {0} /\ h \in Nat \ {0}
  OBVIOUS
<1>2. PICK m, n : m = p.draft.final[1] /\ n = p.draft.final[2] /\ m \in Nat /\ n \in Nat
                  /\ p.draft.final = <<m, n>>
  OBVIOUS
<1>3. ASSUME NEW k \in 1 .. VR!MaxExportScale
      PROVE  p.draft.final = <<k * w, k * h>> <=>
                m % w = 0 /\ m \div w = k /\ n % h = 0 /\ n \div h = k
  <2>1. m \in Nat /\ n \in Nat /\ w \in Nat \ {0} /\ h \in Nat \ {0}
    BY <1>1, <1>2
  <2>2. \A a \in Nat, b \in Nat \ {0} : (a % b = 0 /\ a \div b = k) <=> a = k * b
    BY WholeFactor
  <2>3. (m % w = 0 /\ m \div w = k) <=> m = k * w
    BY ONLY <2>1, <2>2
  <2>4. (n % h = 0 /\ n \div h = k) <=> n = k * h
    BY ONLY <2>1, <2>2
  <2>5. p.draft.final = <<k * w, k * h>> <=> m = k * w /\ n = k * h
    BY <1>2
  <2> QED BY <2>3, <2>4, <2>5
<1>4. ~ VR!DimensionErrors(p) <=>
         /\ p.draft.working = p.canvas /\ m % w = 0 /\ n % h = 0
         /\ m \div w = n \div h /\ m \div w \in 1 .. VR!MaxExportScale
  BY <1>1, <1>2 DEF VR!DimensionErrors
<1> QED BY <1>1, <1>3, <1>4

\* Fewer sightings fail no other gate.
LEMMA SilenceHelps ==
    ASSUME NEW p, NEW r, NEW q, r.text \subseteq q.text, r.brands \subseteq q.brands,
           r.products \subseteq q.products
    PROVE  VR!FailedGates(p, r) \subseteq VR!FailedGates(p, q)
<1>1. VR!Foreign(p, r) \subseteq VR!Foreign(p, q)
  BY DEF VR!Foreign
<1>2. VR!BrandErrors(p, r) => VR!BrandErrors(p, q)
  BY <1>1 DEF VR!BrandErrors
<1>3. VR!ProductErrors(p, r) => VR!ProductErrors(p, q)
  BY DEF VR!ProductErrors
<1>4. VR!FakeBranding(p, r) => VR!FakeBranding(p, q)
  BY DEF VR!FakeBranding
<1>5. VR!UnwantedText(p, r) => VR!UnwantedText(p, q)
  BY DEF VR!UnwantedText
<1>6. ASSUME NEW g \in VR!FailedGates(p, r) PROVE g \in VR!FailedGates(p, q)
  BY <1>2, <1>3, <1>4, <1>5, <1>6 DEF VR!FailedGates, VR!Gates
<1> QED BY <1>6

\* A use that leaves out, replaces or generates a required asset breaks its policy.
LEMMA RequiredAreProtected ==
    ASSUME NEW attachments, NEW required, NEW x, ~ CA!PolicyErrors(attachments, x),
           NEW a \in required, a \in DOMAIN attachments, NEW use \in CA!Uses(a),
           ~ use.used \/ use.replaced \/ use.generated
    PROVE  \E p \in CA!UsageViolations(CA!AssetPolicies(attachments, required, x), {use}) : p.asset = a
<1>1. PICK q \in CA!Range(x) : q.asset = a
  BY DEF CA!PolicyErrors
<1>2. PICK p : p = CA!AssetPolicy(q.asset, q.role, q.asset \in required)
  OBVIOUS
<1>3. p \in CA!AssetPolicies(attachments, required, x)
  BY <1>1, <1>2 DEF CA!AssetPolicies
<1>4. p.asset = a /\ p.required /\ ~ p.replace /\ ~ p.generate
  BY <1>1, <1>2 DEF CA!AssetPolicy
<1>5. use.asset = a
  BY DEF CA!Uses
<1>6. {u \in {use} : u.asset = p.asset} = {use} /\ (CHOOSE u \in {use} : TRUE) = use
  BY <1>4, <1>5
<1>7. p \in CA!UsageViolations(CA!AssetPolicies(attachments, required, x), {use})
  BY <1>3, <1>4, <1>6 DEF CA!UsageViolations
<1> QED BY <1>4, <1>7

\* How the components of a draft use the originals, as asset_intelligence sees it.
UsesOfAsset(p, a) ==
    {[asset |-> a.asset, used |-> TRUE, replaced |-> FALSE, generated |-> FALSE,
      preserved |-> c.preserved, cropped |-> FALSE, dominance |-> a.range[1]] :
        c \in {c \in p.draft.components : c.source = a.asset}}
UsesOf(p) == UNION {UsesOfAsset(p, a) : a \in p.policies}

LEMMA CertifiedIsAllowed ==
    ASSUME NEW p \in Inputs["verification"], NEW r, VR!FailedGates(p, r) = {}
    PROVE  CA!UsageViolations(p.policies, UsesOf(p)) = {}
<1>1. VR!MissingAssets(p) = {} /\ ~ VR!FidelityErrors(p)
  <2>1. VR!MissingAssets(p) # {} => "required_assets_present" \in VR!FailedGates(p, r)
    BY DEF VR!FailedGates, VR!Gates
  <2>2. VR!FidelityErrors(p) => "asset_fidelity" \in VR!FailedGates(p, r)
    BY DEF VR!FailedGates, VR!Gates
  <2> QED BY <2>1, <2>2
<1>2. ASSUME NEW q \in p.policies, q.required
      PROVE  \E u \in UsesOf(p) : u.asset = q.asset
  <2>1. PICK c \in p.draft.components : c.source = q.asset
    BY <1>1, <1>2 DEF VR!MissingAssets
  <2>2. PICK u : u = [asset |-> q.asset, used |-> TRUE, replaced |-> FALSE, generated |-> FALSE,
                      preserved |-> c.preserved, cropped |-> FALSE, dominance |-> q.range[1]]
    OBVIOUS
  <2>3. u \in UsesOf(p)
    <3>1. u \in UsesOfAsset(p, q)
      BY <2>1, <2>2 DEF UsesOfAsset
    <3> QED BY <3>1 DEF UsesOf
  <2> QED BY <2>2, <2>3
<1>3. ASSUME NEW q \in p.policies, NEW u \in UsesOf(p), u.asset = q.asset
      PROVE  /\ u.used /\ ~ u.replaced /\ ~ u.generated /\ ~ u.cropped
             /\ q.preserve => u.preserved
             /\ u.dominance \in q.range[1] .. q.range[2]
  <2>1. PICK a \in p.policies, c \in p.draft.components :
           /\ c.source = a.asset
           /\ u = [asset |-> a.asset, used |-> TRUE, replaced |-> FALSE, generated |-> FALSE,
                   preserved |-> c.preserved, cropped |-> FALSE, dominance |-> a.range[1]]
    BY DEF UsesOf, UsesOfAsset
  <2>2. a = q
    BY <1>3, <2>1, VerificationInputs
  <2>3. q.preserve => c.preserved
    BY <1>1, <2>1, <2>2, VerificationInputs DEF VR!FidelityErrors
  <2>4. q.range[1] \in q.range[1] .. q.range[2]
    BY VerificationInputs
  <2> QED BY <2>1, <2>2, <2>3, <2>4
<1>4. ASSUME NEW q \in CA!UsageViolations(p.policies, UsesOf(p)) PROVE FALSE
  <2>1. q \in p.policies
    BY <1>4 DEF CA!UsageViolations
  <2>2. PICK of : of = {u \in UsesOf(p) : u.asset = q.asset}
    OBVIOUS
  <2>3. CASE of = {}
    BY <1>2, <1>4, <2>1, <2>2, <2>3 DEF CA!UsageViolations
  <2>4. CASE of # {}
    <3>1. PICK u : u = CHOOSE v \in of : TRUE
      OBVIOUS
    <3>2. u \in UsesOf(p) /\ u.asset = q.asset
      BY <2>2, <2>4, <3>1
    <3> QED BY <1>3, <1>4, <2>1, <2>2, <2>4, <3>1, <3>2 DEF CA!UsageViolations
  <2> QED BY <2>3, <2>4
<1> QED BY <1>4

----------------------------------------------------------------------------
(* The evidence a strategy cites. *)

\* Induction over the naturals, for a set instead of a predicate.
LEMMA SetInduction ==
    ASSUME NEW T, T \subseteq Nat, 0 \in T, \A n \in T : n + 1 \in T
    PROVE  T = Nat
<1>1. SUFFICES ASSUME Nat \ T # {} PROVE FALSE
  OBVIOUS
<1>2. PICK x \in Nat \ T : \A y \in Nat \ T : x <= y
  BY <1>1, LeastNatural
<1>3. x # 0 /\ x - 1 \in Nat
  BY <1>2
<1>4. x - 1 \in T
  BY <1>2, <1>3
<1> QED BY <1>2, <1>4

\* The loops of the code exist, so their definitions unfold.
LEMMA NotedUnfolds ==
    ASSUME NEW basis, NEW allowed, Len(basis) \in Nat
    PROVE  ST!NotedUpTo(basis, allowed) =
             [n \in 0 .. Len(basis) |->
                IF n = 0 THEN <<>>
                ELSE ST!Noted(ST!NotedUpTo(basis, allowed)[n - 1], basis[n], allowed)]
<1> DEFINE Step(g, n) == IF n = 0 THEN <<>> ELSE ST!Noted(g[n - 1], basis[n], allowed)
           IsLoop(g, m) == g = [n \in 0 .. m |-> Step(g, n)]
           T == {m \in Nat : \E g : IsLoop(g, m)}
<1>1. 0 \in T
  <2> DEFINE g == [n \in 0 .. 0 |-> <<>>]
  <2>1. IsLoop(g, 0)
    OBVIOUS
  <2> QED BY <2>1
<1>2. \A m \in T : m + 1 \in T
  <2> TAKE m \in T
  <2>1. PICK g : IsLoop(g, m)
    OBVIOUS
  <2> DEFINE h == [n \in 0 .. m + 1 |-> IF n = m + 1 THEN Step(g, n) ELSE g[n]]
  <2>2. ASSUME NEW n \in 0 .. m + 1 PROVE h[n] = Step(h, n)
    <3>1. CASE n = 0
      <4>1. h[n] = g[0] /\ g[0] = Step(g, 0)
        BY <2>1, <3>1
      <4> QED BY <3>1, <4>1
    <3>2. CASE n \in 1 .. m
      <4>1. h[n] = g[n] /\ h[n - 1] = g[n - 1] /\ g[n] = Step(g, n) /\ n # 0
        BY <2>1, <3>2
      <4> QED BY <4>1
    <3>3. CASE n = m + 1
      <4>1. h[n] = Step(g, n) /\ h[n - 1] = g[n - 1] /\ n # 0
        BY <3>3
      <4> QED BY <4>1
    <3> QED BY <3>1, <3>2, <3>3
  <2> HIDE DEF Step
  <2>3. h = [n \in 0 .. m + 1 |-> Step(h, n)]
    BY <2>2
  <2> HIDE DEF h
  <2>4. IsLoop(h, m + 1)
    BY <2>3
  <2> QED BY <2>4
<1>3. T = Nat
  <2> HIDE DEF T
  <2>1. T \subseteq Nat
    BY DEF T
  <2> QED BY <1>1, <1>2, <2>1, SetInduction
<1>4. \E g : IsLoop(g, Len(basis))
  BY <1>3
<1>5. IsLoop(CHOOSE g : IsLoop(g, Len(basis)), Len(basis))
  BY <1>4
<1>6. ST!NotedUpTo(basis, allowed) = CHOOSE g : IsLoop(g, Len(basis))
  BY DEF ST!NotedUpTo
<1> QED BY <1>5, <1>6

LEMMA SuppliedUnfolds ==
    ASSUME NEW basis, NEW groups, NEW allowed, Len(groups) \in Nat
    PROVE  ST!SuppliedUpTo(basis, groups, allowed) =
             [n \in 0 .. Len(groups) |->
                IF n = 0 THEN basis
                ELSE ST!Supplied(ST!SuppliedUpTo(basis, groups, allowed)[n - 1], groups[n], allowed)]
<1> DEFINE Step(g, n) == IF n = 0 THEN basis ELSE ST!Supplied(g[n - 1], groups[n], allowed)
           IsLoop(g, m) == g = [n \in 0 .. m |-> Step(g, n)]
           T == {m \in Nat : \E g : IsLoop(g, m)}
<1>1. 0 \in T
  <2> DEFINE g == [n \in 0 .. 0 |-> basis]
  <2>1. IsLoop(g, 0)
    OBVIOUS
  <2> QED BY <2>1
<1>2. \A m \in T : m + 1 \in T
  <2> TAKE m \in T
  <2>1. PICK g : IsLoop(g, m)
    OBVIOUS
  <2> DEFINE h == [n \in 0 .. m + 1 |-> IF n = m + 1 THEN Step(g, n) ELSE g[n]]
  <2>2. ASSUME NEW n \in 0 .. m + 1 PROVE h[n] = Step(h, n)
    <3>1. CASE n = 0
      <4>1. h[n] = g[0] /\ g[0] = Step(g, 0)
        BY <2>1, <3>1
      <4> QED BY <3>1, <4>1
    <3>2. CASE n \in 1 .. m
      <4>1. h[n] = g[n] /\ h[n - 1] = g[n - 1] /\ g[n] = Step(g, n) /\ n # 0
        BY <2>1, <3>2
      <4> QED BY <4>1
    <3>3. CASE n = m + 1
      <4>1. h[n] = Step(g, n) /\ h[n - 1] = g[n - 1] /\ n # 0
        BY <3>3
      <4> QED BY <4>1
    <3> QED BY <3>1, <3>2, <3>3
  <2> HIDE DEF Step
  <2>3. h = [n \in 0 .. m + 1 |-> Step(h, n)]
    BY <2>2
  <2> HIDE DEF h
  <2>4. IsLoop(h, m + 1)
    BY <2>3
  <2> QED BY <2>4
<1>3. T = Nat
  <2> HIDE DEF T
  <2>1. T \subseteq Nat
    BY DEF T
  <2> QED BY <1>1, <1>2, <2>1, SetInduction
<1>4. \E g : IsLoop(g, Len(groups))
  BY <1>3
<1>5. IsLoop(CHOOSE g : IsLoop(g, Len(groups)), Len(groups))
  BY <1>4
<1>6. ST!SuppliedUpTo(basis, groups, allowed) = CHOOSE g : IsLoop(g, Len(groups))
  BY DEF ST!SuppliedUpTo
<1> QED BY <1>5, <1>6

LEMMA NormalizedIsAllowed ==
    ASSUME NEW basis, Len(basis) \in Nat, NEW allowed
    PROVE  ST!NormalizedBasis(basis, allowed) \in Seq(allowed)
<1> DEFINE known == ST!NotedUpTo(basis, allowed)
           T == {n \in Nat : n <= Len(basis) => known[n] \in Seq(allowed)}
<1>1. known[0] = <<>>
  BY NotedUnfolds
<1>2. ASSUME NEW n \in Nat, n + 1 <= Len(basis)
      PROVE  known[n + 1] = ST!Noted(known[n], basis[n + 1], allowed)
  <2>1. n + 1 \in 0 .. Len(basis) /\ n + 1 # 0 /\ (n + 1) - 1 = n
    BY <1>2
  <2> QED BY <2>1, NotedUnfolds
<1> HIDE DEF known
<1>3. 0 \in T
  <2>1. <<>> \in Seq(allowed)
    OBVIOUS
  <2> QED BY <1>1, <2>1
<1>4. \A n \in T : n + 1 \in T
  <2> SUFFICES ASSUME NEW n \in T, n + 1 <= Len(basis) PROVE known[n + 1] \in Seq(allowed)
    OBVIOUS
  <2>1. known[n] \in Seq(allowed)
    OBVIOUS
  <2>2. ST!Resolved(basis[n + 1], allowed) \subseteq allowed
    BY DEF ST!Resolved
  <2>3. PICK new : new = ST!Resolved(basis[n + 1], allowed) \ ST!Range(known[n])
    OBVIOUS
  <2>4. new # {} => (CHOOSE a \in new : TRUE) \in allowed
    BY <2>2, <2>3
  <2>5. ST!Noted(known[n], basis[n + 1], allowed) \in Seq(allowed)
    BY <2>1, <2>3, <2>4 DEF ST!Noted
  <2> QED BY <1>2, <2>5
<1>5. T = Nat
  <2> HIDE DEF T
  <2>1. T \subseteq Nat
    BY DEF T
  <2> QED BY <1>3, <1>4, <2>1, SetInduction
<1>6. known[Len(basis)] \in Seq(allowed)
  BY <1>5
<1> QED BY <1>6 DEF ST!NormalizedBasis, known

\* Identifiers are numbered.
Numbered(allowed) == \A a \in allowed : a.item \in Nat

LEMMA FirstOptionIsOne ==
    ASSUME NEW group, NEW allowed, Numbered(allowed), DOMAIN group \subseteq Nat,
           ST!Options(group, allowed) # {}
    PROVE  ST!FirstOption(group, allowed) \in ST!Options(group, allowed)
<1>1. PICK at : at = {i \in DOMAIN group : \E a \in allowed : a.kind = group[i]}
  OBVIOUS
<1>2. at # {} /\ at \subseteq Nat
  BY <1>1 DEF ST!Options, ST!Range
<1>3. \E i \in at : \A j \in at : i <= j
  BY <1>2, LeastNatural
<1>4. PICK first : first = CHOOSE i \in at : \A j \in at : i <= j
  OBVIOUS
<1>5. first \in at
  BY <1>3, <1>4
<1>6. PICK items : items = {a \in allowed : a.kind = group[first]}
  OBVIOUS
<1>7. items # {} /\ items \subseteq ST!Options(group, allowed)
  BY <1>1, <1>5, <1>6 DEF ST!Options, ST!Range
<1>8. \E a \in items : \A b \in items : a.item <= b.item
  <2>1. PICK numbers : numbers = {a.item : a \in items}
    OBVIOUS
  <2>2. numbers # {} /\ numbers \subseteq Nat
    BY <1>6, <1>7, <2>1 DEF Numbered
  <2>3. PICK n \in numbers : \A k \in numbers : n <= k
    BY <2>2, LeastNatural
  <2> QED BY <2>1, <2>3
<1>9. ST!FirstOption(group, allowed) = CHOOSE a \in items : \A b \in items : a.item <= b.item
  BY <1>1, <1>4, <1>6 DEF ST!FirstOption
<1> QED BY <1>7, <1>8, <1>9

\* Serving one group leaves the others served.
LEMMA SuppliedServes ==
    ASSUME NEW allowed, Numbered(allowed), NEW basis \in Seq(allowed), NEW group,
           DOMAIN group \subseteq Nat, ST!Options(group, allowed) # {}
    PROVE  /\ ST!Supplied(basis, group, allowed) \in Seq(allowed)
           /\ ST!Range(basis) \subseteq ST!Range(ST!Supplied(basis, group, allowed))
           /\ ST!Range(ST!Supplied(basis, group, allowed)) \cap ST!Options(group, allowed) # {}
<1>1. PICK a : a = ST!FirstOption(group, allowed)
  OBVIOUS
<1>2. a \in ST!Options(group, allowed) /\ a \in allowed
  BY <1>1, FirstOptionIsOne DEF ST!Options
<1>3. CASE ST!Range(basis) \cap ST!Options(group, allowed) # {}
  BY <1>3 DEF ST!Supplied
<1>4. CASE ST!Range(basis) \cap ST!Options(group, allowed) = {}
  <2>1. ST!Supplied(basis, group, allowed) = Append(basis, a)
    BY <1>1, <1>4 DEF ST!Supplied
  <2>2. /\ Append(basis, a) \in Seq(allowed) /\ DOMAIN basis \subseteq DOMAIN Append(basis, a)
        /\ Append(basis, a)[Len(basis) + 1] = a /\ Len(basis) + 1 \in DOMAIN Append(basis, a)
        /\ \A i \in DOMAIN basis : Append(basis, a)[i] = basis[i]
    BY <1>2
  <2>3. ST!Range(basis) \subseteq ST!Range(Append(basis, a)) /\ a \in ST!Range(Append(basis, a))
    BY <2>2 DEF ST!Range
  <2> QED BY <1>2, <2>1, <2>2, <2>3
<1> QED BY <1>3, <1>4

LEMMA CompleteServes ==
    ASSUME NEW basis, Len(basis) \in Nat, NEW allowed, Numbered(allowed), NEW groups, Len(groups) \in Nat,
           \A i \in 1 .. Len(groups) :
              DOMAIN groups[i] \subseteq Nat /\ ST!Options(groups[i], allowed) # {}
    PROVE  /\ ST!CompleteBasis(basis, groups, allowed) \in Seq(allowed)
           /\ \A i \in 1 .. Len(groups) :
                ST!Range(ST!CompleteBasis(basis, groups, allowed)) \cap ST!Options(groups[i], allowed) # {}
<1> DEFINE start == ST!NormalizedBasis(basis, allowed)
           supplied == ST!SuppliedUpTo(start, groups, allowed)
           Served(b, n) == b \in Seq(allowed) /\ \A i \in 1 .. n : ST!Range(b) \cap ST!Options(groups[i], allowed) # {}
           T == {n \in Nat : n <= Len(groups) => Served(supplied[n], n)}
<1>1. start \in Seq(allowed)
  BY NormalizedIsAllowed
<1>2. supplied[0] = start
  BY SuppliedUnfolds
<1>3. ASSUME NEW n \in Nat, n + 1 <= Len(groups)
      PROVE  supplied[n + 1] = ST!Supplied(supplied[n], groups[n + 1], allowed)
  <2>1. n + 1 \in 0 .. Len(groups) /\ n + 1 # 0 /\ (n + 1) - 1 = n
    BY <1>3
  <2> QED BY <2>1, SuppliedUnfolds
<1> HIDE DEF start, supplied
<1>4. 0 \in T
  BY <1>1, <1>2
<1>5. \A n \in T : n + 1 \in T
  <2> SUFFICES ASSUME NEW n \in T, n + 1 <= Len(groups) PROVE Served(supplied[n + 1], n + 1)
    <3> HIDE DEF Served
    <3> QED OBVIOUS
  <2>1. PICK b : b = supplied[n]
    OBVIOUS
  <2>2. Served(b, n) /\ n + 1 \in 1 .. Len(groups)
    BY <2>1
  <2>3. PICK c : c = ST!Supplied(b, groups[n + 1], allowed)
    OBVIOUS
  <2>4. c \in Seq(allowed) /\ ST!Range(b) \subseteq ST!Range(c)
        /\ ST!Range(c) \cap ST!Options(groups[n + 1], allowed) # {}
    BY <2>2, <2>3, SuppliedServes
  <2>5. ASSUME NEW i \in 1 .. n + 1 PROVE ST!Range(c) \cap ST!Options(groups[i], allowed) # {}
    <3>1. i = n + 1 \/ i \in 1 .. n
      OBVIOUS
    <3> QED BY <2>2, <2>4, <3>1
  <2>6. Served(c, n + 1)
    BY <2>4, <2>5
  <2> QED BY <1>3, <2>1, <2>3, <2>6
<1>6. T = Nat
  <2> HIDE DEF T
  <2>1. T \subseteq Nat
    BY DEF T
  <2> QED BY <1>4, <1>5, <2>1, SetInduction
<1>7. Served(supplied[Len(groups)], Len(groups))
  <2> HIDE DEF Served
  <2> QED BY <1>6
<1> QED BY <1>7 DEF ST!CompleteBasis, start, supplied

\* A concatenation is empty when both of its parts are.
LEMMA ConcatenationEmpty ==
    ASSUME NEW m \in Nat, NEW n \in Nat, NEW f, NEW g,
           f = [i \in 1 .. m |-> f[i]], g = [i \in 1 .. n |-> g[i]]
    PROVE  /\ f \o g = <<>> <=> m = 0 /\ n = 0
           /\ f = <<>> <=> m = 0
<1> DEFINE S == {f[i] : i \in 1 .. m} \cup {g[i] : i \in 1 .. n}
<1>1. f \in [1 .. m -> S] /\ g \in [1 .. n -> S]
  OBVIOUS
<1> HIDE DEF S
<1>2. f \in Seq(S) /\ g \in Seq(S)
  BY <1>1, SeqDef
<1>3. Len(f) = m /\ Len(g) = n
  BY <1>1, <1>2, LenProperties
<1>4. f = <<>> <=> m = 0
  BY <1>2, <1>3, EmptySeq
<1>5. g = <<>> <=> n = 0
  BY <1>2, <1>3, EmptySeq
<1>6. f \o g = <<>> <=> f = <<>> /\ g = <<>>
  BY <1>2, ConcatEqualIffEmpty
<1> QED BY <1>4, <1>5, <1>6

LEMMA SequenceIsFunction ==
    ASSUME NEW S, NEW s \in Seq(S)
    PROVE  Len(s) \in Nat /\ DOMAIN s = 1 .. Len(s) /\ s = [i \in 1 .. Len(s) |-> s[i]]
BY LenProperties

\* An analysis that may be published.
Analysed(contract, x) ==
    contract \in Inputs["brand_product"] /\ x \in BA!BrandProposal /\ ~ BA!BrandErrors(contract, x)

LEMMA AudienceAlwaysAccepts ==
    ASSUME NEW contract, NEW x, Analysed(contract, x)
    PROVE  BA!AudienceAccepts(contract, BA!BrandProductAnalysis(contract, x).brand,
                              BA!BrandProductAnalysis(contract, x).product)
<1>1. PICK o : o = BA!BrandProductAnalysis(contract, x)
  OBVIOUS
<1>2. PICK facts : facts = contract.facts
  OBVIOUS
<1>3. contract \in BA!Contracts
  BY StrategyInputs DEF Analysed
<1>4. PICK K : facts \in [K -> Term]
  BY <1>2, <1>3 DEF BA!Contracts
<1>5. facts = [k \in DOMAIN facts |-> facts[k]]
  BY <1>4
<1>6. x.brand_keys \cup BA!ProductFacts(x) = DOMAIN facts
  BY <1>2 DEF Analysed, BA!BrandErrors, BA!ProductFacts
<1>7. o.brand.facts = [k \in x.brand_keys |-> facts[k]]
      /\ o.product.facts = [k \in BA!ProductFacts(x) |-> facts[k]]
  BY <1>1, <1>2 DEF BA!BrandProductAnalysis, BA!Only
<1>8. \A k \in DOMAIN o.brand.facts \cap DOMAIN o.product.facts : o.brand.facts[k] = o.product.facts[k]
  BY <1>7
<1>9. [k \in DOMAIN o.brand.facts \cup DOMAIN o.product.facts |->
         IF k \in DOMAIN o.product.facts THEN o.product.facts[k] ELSE o.brand.facts[k]] = contract.facts
  <2>1. DOMAIN o.brand.facts \cup DOMAIN o.product.facts = DOMAIN facts
    BY <1>6, <1>7
  <2>2. ASSUME NEW k \in DOMAIN facts
        PROVE  (IF k \in DOMAIN o.product.facts THEN o.product.facts[k] ELSE o.brand.facts[k]) = facts[k]
    BY <1>6, <1>7
  <2> QED BY <1>2, <1>5, <2>1, <2>2
<1>10. /\ o.brand.print = contract.print /\ o.product.print = contract.print
       /\ o.brand.identity = contract.identity /\ o.product.identity = contract.identity
       /\ o.brand.fixed = contract.fixed /\ o.product.fixed = contract.fixed
       /\ o.product.forbidden = contract.forbidden
  BY <1>1 DEF BA!BrandProductAnalysis
<1> QED BY <1>1, <1>8, <1>9, <1>10 DEF BA!AudienceAccepts

\* The strategist refuses an analysis only when it names neither a chain nor a USP.
LEMMA StrategistMostlyAccepts ==
    ASSUME NEW contract, NEW x, Analysed(contract, x), NEW product, NEW audience,
           product = BA!BrandProductAnalysis(contract, x).product, audience.print = contract.print,
           product.chains \o product.usps # <<>>
    PROVE  ST!StrategistAccepts(EvidenceOf(contract, product, audience))
<1>1. /\ product.chains = x.chains /\ product.usps = x.usps /\ product.print = contract.print
      /\ DOMAIN product.facts = BA!ProductFacts(x)
  BY DEF BA!BrandProductAnalysis, BA!Only
<1>2. x.chains \in Seq(BA!Chain) /\ x.usps \in Seq(BA!UspCandidate)
  BY DEF Analysed, BA!BrandProposal
<1>3. PICK m \in Nat, n \in Nat : /\ DOMAIN x.chains = 1 .. m /\ DOMAIN x.usps = 1 .. n
                                  /\ x.chains = [i \in 1 .. m |-> x.chains[i]]
                                  /\ x.usps = [i \in 1 .. n |-> x.usps[i]]
  <2>1. PICK c, u : c = x.chains /\ u = x.usps
    OBVIOUS
  <2>2. Len(c) \in Nat /\ DOMAIN c = 1 .. Len(c) /\ c = [i \in 1 .. Len(c) |-> c[i]]
    BY <1>2, <2>1, SequenceIsFunction
  <2>3. Len(u) \in Nat /\ DOMAIN u = 1 .. Len(u) /\ u = [i \in 1 .. Len(u) |-> u[i]]
    BY <1>2, <2>1, SequenceIsFunction
  <2> QED BY <2>1, <2>2, <2>3
<1>4. m # 0 \/ n # 0
  BY <1>1, <1>3, ConcatenationEmpty
<1>5. PICK e : e = EvidenceOf(contract, product, audience)
  OBVIOUS
<1>6. /\ e.chains = [i \in 1 .. m |-> e.chains[i]] /\ e.candidates = [i \in 1 .. n |-> e.candidates[i]]
      /\ DOMAIN e.chains = 1 .. m /\ DOMAIN e.candidates = 1 .. n
      /\ e.facts = BA!ProductFacts(x) /\ e.needs /\ e.fingerprints
  BY <1>1, <1>3, <1>5 DEF EvidenceOf
<1>7. ASSUME NEW i \in 1 .. m PROVE e.chains[i].fact \in e.facts
  <2>1. e.chains[i].fact = x.chains[i].source
    BY <1>1, <1>3, <1>5 DEF EvidenceOf
  <2> QED BY <1>3, <1>6, <2>1 DEF BA!ProductFacts, BA!Cited, BA!Items
<1>8. ASSUME NEW i \in 1 .. n PROVE e.candidates[i].fact \in e.facts
  <2>1. e.candidates[i].fact = CHOOSE f \in x.usps[i].sources : TRUE
    BY <1>1, <1>3, <1>5 DEF EvidenceOf
  <2>2. x.usps[i].sources # {}
    BY <1>3 DEF Analysed, BA!BrandErrors, BA!Items
  <2>3. e.candidates[i].fact \in x.usps[i].sources
    BY <2>1, <2>2
  <2> QED BY <1>3, <1>6, <2>3 DEF BA!ProductFacts, BA!Cited, BA!Items
<1>9. /\ {p.fact : p \in ST!Range(e.chains)} \ e.facts = {}
      /\ {p.fact : p \in ST!Range(e.candidates)} \ e.facts = {}
  BY <1>6, <1>7, <1>8 DEF ST!Range
<1>10. ~ ST!FeatureBenefitFails(e) /\ ~ ST!UspExtractorFails(e) /\ ST!UnknownFacts(e) = {}
  BY <1>9 DEF ST!FeatureBenefitFails, ST!UspExtractorFails, ST!UnknownFacts
<1>11. e.chains \o e.candidates # <<>> /\ (e.chains = <<>> => e.candidates # <<>>)
  <2>1. (e.chains \o e.candidates = <<>> <=> m = 0 /\ n = 0) /\ (e.chains = <<>> <=> m = 0)
    BY <1>6, ConcatenationEmpty
  <2>2. e.candidates = <<>> <=> n = 0
    BY <1>6, ConcatenationEmpty
  <2> QED BY <1>4, <2>1, <2>2
<1>12. ~ ST!FrameworkToolFails(e)
  BY <1>6, <1>10, <1>11 DEF ST!FrameworkToolFails, ST!PositioningFails, ST!ValuePropositionFails
<1> QED BY <1>5, <1>6, <1>12 DEF ST!StrategistAccepts

\* A group of kinds that any accepted evidence serves: one of them is always there, or
\* it is enough to have a chain or a USP.
Foundation(group) ==
    /\ DOMAIN group \subseteq Nat
    /\ \/ ST!Range(group) \cap ST!Wholes # {}
       \/ {"usp", "feature"} \subseteq ST!Range(group)
Foundations(groups) ==
    /\ Len(groups) \in Nat /\ DOMAIN groups = 1 .. Len(groups)
    /\ \A i \in 1 .. Len(groups) : Foundation(groups[i])

LEMMA DecisionsHaveFoundations ==
    ASSUME NEW d \in ST!Decisions PROVE Foundations(ST!BasisRequirements[d])
<1>1. ASSUME NEW k, k \in ST!Wholes PROVE Foundation(<<k>>)
  <2>1. DOMAIN <<k>> = {1} /\ k \in ST!Range(<<k>>)
    BY DEF ST!Range
  <2> QED BY <1>1, <2>1 DEF Foundation
<1>2. Foundation(ST!TargetEvidence)
  <2>1. DOMAIN ST!TargetEvidence = 1 .. 2 /\ "target" = ST!TargetEvidence[1]
    BY DEF ST!TargetEvidence
  <2>2. "target" \in ST!Range(ST!TargetEvidence) /\ "target" \in ST!Wholes
    BY <2>1 DEF ST!Range, ST!Wholes
  <2> QED BY <2>1, <2>2 DEF Foundation
<1>3. Foundation(ST!AudienceEvidence)
  <2>1. DOMAIN ST!AudienceEvidence = 1 .. 9 /\ "needs" = ST!AudienceEvidence[1]
    BY DEF ST!AudienceEvidence
  <2>2. "needs" \in ST!Range(ST!AudienceEvidence) /\ "needs" \in ST!Wholes
    BY <2>1 DEF ST!Range, ST!Wholes
  <2> QED BY <2>1, <2>2 DEF Foundation
<1>4. Foundation(ST!ProductEvidence)
  <2>1. DOMAIN ST!ProductEvidence = 1 .. 2 /\ "usp" = ST!ProductEvidence[1] /\ "feature" = ST!ProductEvidence[2]
    BY DEF ST!ProductEvidence
  <2> QED BY <2>1 DEF Foundation, ST!Range
<1>5. Foundation(ST!ProductValue)
  <2>1. DOMAIN ST!ProductValue = 1 .. 5 /\ "feature" = ST!ProductValue[1] /\ "usp" = ST!ProductValue[2]
    BY DEF ST!ProductValue
  <2> QED BY <2>1 DEF Foundation, ST!Range
<1>6. Foundation(<<"audience", "segments", "research_audience">>)
  <2>1. PICK g : g = <<"audience", "segments", "research_audience">>
    OBVIOUS
  <2>2. DOMAIN g = 1 .. 3 /\ "audience" = g[1]
    BY <2>1
  <2>3. "audience" \in ST!Range(g) /\ "audience" \in ST!Wholes
    BY <2>2 DEF ST!Range, ST!Wholes
  <2> QED BY <2>1, <2>2, <2>3 DEF Foundation
<1>7. Foundation(<<"goal", "cta_intent">>)
  <2>1. PICK g : g = <<"goal", "cta_intent">>
    OBVIOUS
  <2>2. DOMAIN g = 1 .. 2 /\ "goal" = g[1]
    BY <2>1
  <2>3. "goal" \in ST!Range(g) /\ "goal" \in ST!Wholes
    BY <2>2 DEF ST!Range, ST!Wholes
  <2> QED BY <2>1, <2>2, <2>3 DEF Foundation
<1>8. Foundation(<<"motivation", "purchase_intent", "customer_tension">>)
  <2>1. PICK g : g = <<"motivation", "purchase_intent", "customer_tension">>
    OBVIOUS
  <2>2. DOMAIN g = 1 .. 3 /\ "motivation" = g[1]
    BY <2>1
  <2>3. "motivation" \in ST!Range(g) /\ "motivation" \in ST!Wholes
    BY <2>2 DEF ST!Range, ST!Wholes
  <2> QED BY <2>1, <2>2, <2>3 DEF Foundation
<1>9. ASSUME NEW g, Foundation(g) PROVE Foundations(<<g>>)
  <2>1. Len(<<g>>) = 1 /\ DOMAIN <<g>> = 1 .. 1 /\ <<g>>[1] = g
    OBVIOUS
  <2>2. \A i \in 1 .. 1 : i = 1
    OBVIOUS
  <2> QED BY <1>9, <2>1, <2>2 DEF Foundations
<1>10. ASSUME NEW g, NEW h, Foundation(g), Foundation(h) PROVE Foundations(<<g, h>>)
  <2>1. Len(<<g, h>>) = 2 /\ DOMAIN <<g, h>> = 1 .. 2 /\ <<g, h>>[1] = g /\ <<g, h>>[2] = h
    OBVIOUS
  <2>2. \A i \in 1 .. 2 : i = 1 \/ i = 2
    OBVIOUS
  <2> QED BY <1>10, <2>1, <2>2 DEF Foundations
<1>11. \A k \in {"goal", "customer_tension", "cta_intent"} : Foundation(<<k>>)
  BY <1>1 DEF ST!Wholes
<1>12. d \in {"business_objective", "segmentation", "targeting", "positioning", "customer_insight",
              "customer_tension", "usp", "value_proposition", "marketing_angle",
              "single_minded_message", "desired_reaction", "cta_strategy"}
  BY DEF ST!Decisions, ST!BasisRequirements
<1>13. d \in {"business_objective", "segmentation", "targeting", "customer_insight", "customer_tension", "usp"}
       => Foundations(ST!BasisRequirements[d])
  BY <1>2, <1>3, <1>4, <1>6, <1>9, <1>11 DEF ST!BasisRequirements
<1>14. d \in {"positioning", "value_proposition", "marketing_angle", "single_minded_message"}
       => Foundations(ST!BasisRequirements[d])
  BY <1>2, <1>3, <1>5, <1>10 DEF ST!BasisRequirements
<1>15. d \in {"desired_reaction", "cta_strategy"} => Foundations(ST!BasisRequirements[d])
  BY <1>7, <1>8, <1>10, <1>11 DEF ST!BasisRequirements
<1> QED BY <1>12, <1>13, <1>14, <1>15

\* Every foundation of every decision has evidence to cite.
Citable(e) ==
    /\ Numbered(ST!AllowedBasis(e))
    /\ \A d \in ST!Decisions : \A i \in 1 .. Len(ST!BasisRequirements[d]) :
          ST!Options(ST!BasisRequirements[d][i], ST!AllowedBasis(e)) # {}

LEMMA EvidenceIsCitable ==
    ASSUME NEW contract, NEW x, Analysed(contract, x), NEW product, NEW audience,
           product = BA!BrandProductAnalysis(contract, x).product,
           ST!StrategistAccepts(EvidenceOf(contract, product, audience))
    PROVE  Citable(EvidenceOf(contract, product, audience))
<1>1. PICK e : e = EvidenceOf(contract, product, audience)
  OBVIOUS
<1>2. product.chains = x.chains /\ product.usps = x.usps /\ DOMAIN product.facts = BA!ProductFacts(x)
  BY DEF BA!BrandProductAnalysis, BA!Only
<1>3. x.chains \in Seq(BA!Chain) /\ x.usps \in Seq(BA!UspCandidate)
  BY DEF Analysed, BA!BrandProposal
<1>4. PICK m \in Nat, n \in Nat : DOMAIN x.chains = 1 .. m /\ DOMAIN x.usps = 1 .. n
  BY <1>3, LenProperties
<1>5. /\ e.chains = [i \in 1 .. m |-> e.chains[i]] /\ e.candidates = [i \in 1 .. n |-> e.candidates[i]]
      /\ DOMAIN e.chains = 1 .. m /\ DOMAIN e.candidates = 1 .. n
      /\ e.facts = BA!ProductFacts(x) /\ e.research = {} /\ e.segments = Segment
  BY <1>1, <1>2, <1>4 DEF EvidenceOf
<1>6. IsFiniteSet(e.facts) /\ IsFiniteSet(e.segments)
  <2>1. BA!ProductFacts(x) \in SUBSET Fact
    <3>1. x.product_keys \subseteq Fact
      BY DEF Analysed, BA!BrandProposal
    <3>2. ASSUME NEW c \in BA!Items(x.chains) PROVE c.source \in Fact
      <4>1. c \in BA!Chain
        BY <1>3 DEF BA!Items
      <4> QED BY <4>1 DEF BA!Chain
    <3>3. ASSUME NEW u \in BA!Items(x.usps) PROVE u.sources \subseteq Fact
      <4>1. u \in BA!UspCandidate
        BY <1>3 DEF BA!Items
      <4> QED BY <4>1 DEF BA!UspCandidate
    <3> QED BY <3>1, <3>2, <3>3 DEF BA!ProductFacts, BA!Cited
  <2> QED BY <1>5, <2>1, StrategyInputs, FS_Subset
<1>7. Cardinality(e.facts) \in Nat /\ Cardinality(e.segments) \in Nat
  BY <1>6, FS_CardinalityType
<1>8. Numbered(ST!AllowedBasis(e))
  BY <1>5, <1>7 DEF Numbered, ST!AllowedBasis, ST!Whole
<1>9. m # 0 \/ n # 0
  BY <1>1, <1>5, ConcatenationEmpty DEF ST!StrategistAccepts, ST!FrameworkToolFails, ST!PositioningFails
<1>10. /\ \A k \in ST!Wholes : \E a \in ST!AllowedBasis(e) : a.kind = k
       /\ \E a \in ST!AllowedBasis(e) : a.kind \in {"usp", "feature"}
  <2>1. ASSUME NEW k \in ST!Wholes PROVE ST!Whole(k) \in ST!AllowedBasis(e) /\ ST!Whole(k).kind = k
    BY DEF ST!AllowedBasis, ST!Whole
  <2>2. m # 0 => [kind |-> "feature", item |-> 1] \in ST!AllowedBasis(e)
    <3>1. m # 0 => 1 \in DOMAIN e.chains
      BY <1>5
    <3>2. m # 0 => [kind |-> "feature", item |-> 1] \in {[kind |-> "feature", item |-> i] : i \in DOMAIN e.chains}
      BY <3>1
    <3> QED BY <3>2 DEF ST!AllowedBasis
  <2>3. n # 0 => [kind |-> "usp", item |-> 1] \in ST!AllowedBasis(e)
    <3>1. n # 0 => 1 \in DOMAIN e.candidates
      BY <1>5
    <3>2. n # 0 => [kind |-> "usp", item |-> 1] \in {[kind |-> "usp", item |-> i] : i \in DOMAIN e.candidates}
      BY <3>1
    <3> QED BY <3>2 DEF ST!AllowedBasis
  <2>4. \E a \in ST!AllowedBasis(e) : a.kind \in {"usp", "feature"}
    BY <1>9, <2>2, <2>3
  <2> QED BY <2>1, <2>4
<1>11. ASSUME NEW d \in ST!Decisions, NEW i \in 1 .. Len(ST!BasisRequirements[d])
       PROVE  ST!Range(ST!BasisRequirements[d][i]) \cap ST!Wholes # {}
              \/ {"usp", "feature"} \subseteq ST!Range(ST!BasisRequirements[d][i])
  BY DecisionsHaveFoundations DEF Foundations, Foundation
<1>12. ASSUME NEW d \in ST!Decisions, NEW i \in 1 .. Len(ST!BasisRequirements[d])
       PROVE  ST!Options(ST!BasisRequirements[d][i], ST!AllowedBasis(e)) # {}
  BY <1>10, <1>11 DEF ST!Options
<1> QED BY <1>1, <1>8, <1>12 DEF Citable

\* Canonicalised, no answer has a basis error left.
LEMMA CanonicalHasNoBasisError ==
    ASSUME NEW e, Citable(e), NEW x \in ST!Proposal
    PROVE  ST!BasisErrors(ST!CanonicalBasis(x, ST!AllowedBasis(e)), ST!AllowedBasis(e)) = {}
<1>1. PICK allowed : allowed = ST!AllowedBasis(e)
  OBVIOUS
<1>2. ASSUME NEW d \in ST!Decisions
      PROVE  ST!CanonicalBasis(x, allowed).basis[d]
                = ST!CompleteBasis(x.basis[d], ST!BasisRequirements[d], allowed)
  BY DEF ST!CanonicalBasis, ST!Proposal
<1>3. ASSUME NEW d \in ST!Decisions
      PROVE  /\ Len(ST!BasisRequirements[d]) \in Nat
             /\ DOMAIN ST!BasisRequirements[d] = 1 .. Len(ST!BasisRequirements[d])
             /\ \A i \in 1 .. Len(ST!BasisRequirements[d]) : DOMAIN ST!BasisRequirements[d][i] \subseteq Nat
  BY DecisionsHaveFoundations DEF Foundations, Foundation
<1>4. ASSUME NEW d \in ST!Decisions
      PROVE  /\ ST!Range(ST!CanonicalBasis(x, allowed).basis[d]) \subseteq allowed
             /\ ST!MissingGroups(ST!CanonicalBasis(x, allowed).basis[d], ST!BasisRequirements[d]) = {}
  <2>1. PICK b : b = ST!CompleteBasis(x.basis[d], ST!BasisRequirements[d], allowed)
    OBVIOUS
  <2>2. Len(x.basis[d]) \in Nat
    BY DEF ST!Proposal
  <2>3. /\ b \in Seq(allowed)
        /\ \A i \in 1 .. Len(ST!BasisRequirements[d]) :
             ST!Range(b) \cap ST!Options(ST!BasisRequirements[d][i], allowed) # {}
    BY <1>1, <1>3, <2>1, <2>2, CompleteServes DEF Citable
  <2>4. ST!Range(b) \subseteq allowed
    BY <2>3 DEF ST!Range
  <2>5. ASSUME NEW g \in ST!Range(ST!BasisRequirements[d])
        PROVE  {r.kind : r \in ST!Range(b)} \cap ST!Range(g) # {}
    <3>1. PICK i \in 1 .. Len(ST!BasisRequirements[d]) : g = ST!BasisRequirements[d][i]
      BY <1>3 DEF ST!Range
    <3>2. PICK r \in ST!Range(b) : r \in ST!Options(g, allowed)
      BY <2>3, <3>1
    <3>3. r.kind \in ST!Range(g)
      BY <3>2 DEF ST!Options
    <3> QED BY <3>3
  <2> QED BY <1>2, <2>1, <2>4, <2>5 DEF ST!MissingGroups
<1> QED BY <1>1, <1>4 DEF ST!BasisErrors

----------------------------------------------------------------------------
(* One execution after another. *)

Critics == {"quality_review", "design_review", "vision_review"}
Followed == {"client_understanding", "asset_intelligence", "verification", "quality_scoring"} \cup Critics

\* A brief was built from what the agent was given.
BriefBuilt ==
    agent = "client_understanding" =>
        /\ input \in Inputs["client_understanding"]
        /\ status = "done" => \E x : output = BuildBrief(input.source, x)

\* A required asset is attached, and policies came from a valid classification.
PoliciesMade ==
    agent = "asset_intelligence" =>
        /\ input.attached.required \subseteq DOMAIN input.attached.attachments
        /\ status = "done" =>
             \/ input.attached.required = {}
             \/ \E x : /\ ~ CA!PolicyErrors(input.attached.attachments, x)
                       /\ output = CA!AssetPolicies(input.attached.attachments, input.attached.required, x)

\* The gates were applied to the bytes the draft names.
GatesApplied ==
    agent = "verification" =>
        /\ input \in Inputs["verification"]
        /\ status = "done" =>
             input.bytes = input.draft.checksum /\ \E x : output = VR!VerificationReport(input, x)

\* Every report under review is about the draft's bytes, and the gates passed it.
OneDraftSeen ==
    agent \in Critics \cup {"quality_scoring"} =>
        /\ {"draft", "reports"} \subseteq DOMAIN input /\ "verification" \in DOMAIN input.reports
        /\ VR!Certifies(input.reports["verification"], input.draft.checksum)
        /\ \A r \in DOMAIN input.reports : input.reports[r].seen = input.draft.checksum
        /\ status = "done" =>
             /\ agent \in Critics => output.seen = input.draft.checksum
             /\ agent = "quality_scoring" => output.checksum = input.draft.checksum

Inv == BriefBuilt /\ PoliciesMade /\ GatesApplied /\ OneDraftSeen

LEMMA InvInit == Init => Inv
BY DEF Init, Inv, BriefBuilt, PoliciesMade, GatesApplied, OneDraftSeen, Entry, Critics

LEMMA Elsewhere == ASSUME agent' \notin Followed PROVE Inv'
BY DEF Inv, BriefBuilt, PoliciesMade, GatesApplied, OneDraftSeen, Followed, Critics

LEMMA NothingReturned ==
    ASSUME Inv, agent' = agent, input' = input, status' # "done" PROVE Inv'
BY DEF Inv, BriefBuilt, PoliciesMade, GatesApplied, OneDraftSeen

\* An answer that is refused or kept for a correction returns nothing.
LEMMA RefusalReturnsNothing == ASSUME Inv, Refuse PROVE Inv'
BY NothingReturned DEF Refuse

LEMMA UnusableReturnsNothing ==
    ASSUME Inv, status = "asking", NEW answer, Unusable(answer) PROVE Inv'
BY NothingReturned DEF Unusable, Remember, Refuse

\* What a concluded review returns, but for the history, is its report.
LEMMA Concluded ==
    ASSUME NEW report, NEW render, NEW f \in DOMAIN report \ {"history"}, Conclude(report, render),
           "history" \in DOMAIN report
    PROVE  /\ agent' = agent /\ input' = input
           /\ status' = "done" => output'[f] = report[f]
<1>1. CASE Refuse
  BY <1>1 DEF Refuse
<1>2. CASE Return(report)
  BY <1>2 DEF Return
<1>3. CASE ~ Refuse /\ ~ Return(report)
  <2>1. \E h : Return([report EXCEPT !.history = h])
    BY <1>3 DEF Conclude
  <2> QED BY <2>1 DEF Return
<1> QED BY <1>1, <1>2, <1>3

\* An agent that looks at a render was shown the bytes the draft describes.
LEMMA ShownIsDrafted ==
    ASSUME ~ Unfit, agent \in Critics \cup {"verification"}
    PROVE  input.bytes = input.draft.checksum
<1>1. /\ agent \in Witnesses
      /\ agent \notin {"reference_validation", "generation_planning", "production", "scene_purity"}
  BY DEF Critics, Witnesses, RV!ReadBy
<1>2. RV!DescribesOneRender(agent, input)
  BY <1>1 DEF Unfit
<1> QED BY <1>2 DEF RV!DescribesOneRender

LEMMA ReviewStep ==
    ASSUME Inv, agent \in Critics, ~ Unfit, NEW findings, NEW facts,
           Conclude(RV!Report(input, findings, facts), input.draft.render)
    PROVE  Inv'
<1>1. PICK report : report = RV!Report(input, findings, facts)
  OBVIOUS
<1>2. {"seen", "history"} \subseteq DOMAIN report /\ report.seen = input.bytes
  BY <1>1 DEF RV!Report
<1>3. agent' = agent /\ input' = input /\ (status' = "done" => output'["seen"] = report["seen"])
  BY <1>1, <1>2, Concluded
<1>4. status' = "done" => output'.seen = input.draft.checksum
  BY <1>2, <1>3, ShownIsDrafted
<1>5. agent \notin {"client_understanding", "asset_intelligence", "verification", "quality_scoring"}
  BY DEF Critics
<1> QED BY <1>3, <1>4, <1>5 DEF Inv, BriefBuilt, PoliciesMade, GatesApplied, OneDraftSeen

LEMMA UnderstandStep == ASSUME Inv, Understand PROVE Inv'
<1>1. PICK answer \in Answers[agent] :
         IF answer = Unparsed THEN Refuse ELSE Return(BuildBrief(input.source, answer.x))
  BY DEF Understand
<1>2. CASE Refuse
  BY <1>2, RefusalReturnsNothing
<1>3. CASE Return(BuildBrief(input.source, answer.x))
  <2>1. agent = "client_understanding" /\ agent' = agent /\ input' = input
        /\ output' = BuildBrief(input.source, answer.x)
    BY <1>3 DEF Understand, Asking, Return
  <2> QED BY <2>1 DEF Inv, BriefBuilt, PoliciesMade, GatesApplied, OneDraftSeen, Critics
<1> QED BY <1>1, <1>2, <1>3

LEMMA HandToAssetsStep == ASSUME HandToAssets PROVE Inv'
<1>1. PICK attached \in Inputs["asset_intelligence"] :
         /\ attached.required \subseteq DOMAIN attached.attachments
         /\ Start("asset_intelligence", [copy |-> output, attached |-> attached])
  BY DEF HandToAssets
<1>2. agent' = "asset_intelligence" /\ input'.attached = attached /\ status' = "asking"
  BY <1>1 DEF Start
<1> QED BY <1>1, <1>2 DEF Inv, BriefBuilt, PoliciesMade, GatesApplied, OneDraftSeen, Critics

LEMMA ClassifyAssetsStep == ASSUME Inv, ClassifyAssets PROVE Inv'
<1>1. PICK answer \in Answers[agent] :
         IF answer = Unparsed THEN Refuse
         ELSE IF CA!PolicyErrors(input.attached.attachments, answer.x) THEN Refuse
         ELSE Return(CA!AssetPolicies(input.attached.attachments, input.attached.required, answer.x))
  BY DEF ClassifyAssets
<1>2. CASE Refuse
  BY <1>2, RefusalReturnsNothing
<1>3. CASE ~ Refuse
  <2>1. /\ agent = "asset_intelligence" /\ agent' = agent /\ input' = input
        /\ ~ CA!PolicyErrors(input.attached.attachments, answer.x)
        /\ output' = CA!AssetPolicies(input.attached.attachments, input.attached.required, answer.x)
    BY <1>1, <1>3 DEF ClassifyAssets, Asking, Return
  <2> QED BY <2>1 DEF Inv, BriefBuilt, PoliciesMade, GatesApplied, OneDraftSeen, Critics
<1> QED BY <1>2, <1>3

LEMMA NothingToClassifyStep == ASSUME Inv, NothingToClassify PROVE Inv'
<1>1. /\ agent = "asset_intelligence" /\ agent' = agent /\ input' = input
      /\ DOMAIN input.attached.attachments = {}
  BY DEF NothingToClassify, Return
<1> QED BY <1>1 DEF Inv, BriefBuilt, PoliciesMade, GatesApplied, OneDraftSeen, Critics

LEMMA VerifyStep == ASSUME Inv, Verify PROVE Inv'
<1>1. agent = "verification" /\ status = "asking" /\ ~ Unfit
  BY DEF Verify, Shown, Asking
<1>2. PICK answer \in Answers[agent] :
         IF answer = Unparsed THEN Unusable(answer) ELSE Return(VR!VerificationReport(input, answer.x))
  BY DEF Verify
<1>3. CASE Unusable(answer)
  BY <1>1, <1>3, UnusableReturnsNothing
<1>4. CASE Return(VR!VerificationReport(input, answer.x))
  <2>1. agent' = agent /\ input' = input /\ output' = VR!VerificationReport(input, answer.x)
    BY <1>4 DEF Return
  <2>2. input.bytes = input.draft.checksum
    BY <1>1, ShownIsDrafted
  <2> QED BY <1>1, <2>1, <2>2 DEF Inv, BriefBuilt, PoliciesMade, GatesApplied, OneDraftSeen, Critics
<1> QED BY <1>2, <1>3, <1>4

LEMMA ReviewMarketingStep == ASSUME Inv, ReviewMarketing PROVE Inv'
<1>1. agent \in Critics /\ status = "asking" /\ ~ Unfit
  BY DEF ReviewMarketing, Shown, Asking, Critics
<1>2. PICK answer \in Answers[agent] :
         \/ Unusable(answer)
         \/ Conclude(RV!MarketingReport(input, answer.x), input.draft.render)
  BY DEF ReviewMarketing
<1>3. CASE Unusable(answer)
  BY <1>1, <1>3, UnusableReturnsNothing
<1>4. CASE Conclude(RV!MarketingReport(input, answer.x), input.draft.render)
  BY <1>1, <1>4, ReviewStep DEF RV!MarketingReport
<1> QED BY <1>2, <1>3, <1>4

LEMMA ReviewDesignStep == ASSUME Inv, ReviewDesign PROVE Inv'
<1>1. agent \in Critics /\ status = "asking" /\ ~ Unfit
  BY DEF ReviewDesign, Shown, Asking, Critics
<1>2. PICK answer \in Answers[agent] :
         \/ Unusable(answer) \/ Refuse
         \/ Conclude(RV!DesignReport(input, answer.x), input.draft.render)
  BY DEF ReviewDesign
<1>3. CASE Unusable(answer) \/ Refuse
  BY <1>1, <1>3, UnusableReturnsNothing, RefusalReturnsNothing
<1>4. CASE Conclude(RV!DesignReport(input, answer.x), input.draft.render)
  BY <1>1, <1>4, ReviewStep DEF RV!DesignReport
<1> QED BY <1>2, <1>3, <1>4

LEMMA ReviewVisionStep == ASSUME Inv, ReviewVision PROVE Inv'
<1>1. agent \in Critics /\ status = "asking" /\ ~ Unfit
  BY DEF ReviewVision, Shown, Asking, Critics
<1>2. PICK answer \in Answers[agent] :
         \/ Unusable(answer)
         \/ Conclude(RV!VisionReport(input, answer.x), input.draft.render)
  BY DEF ReviewVision
<1>3. CASE Unusable(answer)
  BY <1>1, <1>3, UnusableReturnsNothing
<1>4. CASE Conclude(RV!VisionReport(input, answer.x), input.draft.render)
  BY <1>1, <1>4, ReviewStep DEF RV!VisionReport
<1> QED BY <1>2, <1>3, <1>4

LEMMA HandToReviewStep == ASSUME Inv, HandToReview PROVE Inv'
<1>1. PICK bytes : Start(NextReview[agent],
         [input EXCEPT !.bytes = bytes,
                       !.reports = [a \in DOMAIN @ \cup {agent} |-> IF a = agent THEN output ELSE @[a]]])
  BY DEF HandToReview
<1>2. /\ agent \in {"verification"} \cup Critics /\ status = "done" /\ output.decision = "PASS"
      /\ NextReview[agent] \in Critics \cup {"quality_scoring"}
  BY DEF HandToReview, NextReview, Critics
<1>3. {"draft", "reports"} \subseteq DOMAIN input
  BY <1>2, VerificationInputs DEF Inv, GatesApplied, OneDraftSeen
<1>4. PICK reports : reports = [a \in DOMAIN input.reports \cup {agent} |->
                                   IF a = agent THEN output ELSE input.reports[a]]
  OBVIOUS
<1>5. /\ agent' = NextReview[agent] /\ status' = "asking" /\ DOMAIN input' = DOMAIN input
      /\ input'.draft = input.draft /\ input'.reports = reports
  BY <1>1, <1>3, <1>4 DEF Start
<1>6. /\ "verification" \in DOMAIN reports /\ VR!Certifies(reports["verification"], input.draft.checksum)
      /\ \A r \in DOMAIN reports : reports[r].seen = input.draft.checksum
  <2>1. CASE agent = "verification"
    <3>1. DOMAIN reports = {"verification"} /\ reports["verification"] = output
      <4>1. DOMAIN input.reports = {}
        BY <2>1, VerificationInputs DEF Inv, GatesApplied
      <4> QED BY <1>4, <2>1, <4>1
    <3>2. output.seen = input.draft.checksum /\ output.checksum = input.draft.checksum
      BY <1>2, <2>1 DEF Inv, GatesApplied, VR!VerificationReport
    <3> QED BY <1>2, <3>1, <3>2 DEF VR!Certifies
  <2>2. CASE agent \in Critics
    <3>1. output.seen = input.draft.checksum /\ agent # "verification"
      BY <1>2, <2>2 DEF Inv, OneDraftSeen, Critics
    <3> QED BY <1>4, <2>2, <3>1 DEF Inv, OneDraftSeen
  <2> QED BY <1>2, <2>1, <2>2
<1>7. agent' \notin {"client_understanding", "asset_intelligence", "verification"}
  BY <1>2, <1>5 DEF Critics
<1> QED BY <1>2, <1>3, <1>5, <1>6, <1>7 DEF Inv, BriefBuilt, PoliciesMade, GatesApplied, OneDraftSeen

LEMMA ScoreQualityStep == ASSUME Inv, ScoreQuality PROVE Inv'
<1>1. PICK report : report = RV!QualityApproval(input)
  OBVIOUS
<1>2. {"checksum", "history"} \subseteq DOMAIN report /\ report.checksum = input.draft.checksum
  BY <1>1 DEF RV!QualityApproval
<1>3. agent = "quality_scoring" /\ (Refuse \/ Conclude(report, input.draft.render))
  BY <1>1 DEF ScoreQuality
<1>4. CASE Refuse
  BY <1>4, RefusalReturnsNothing
<1>5. CASE Conclude(report, input.draft.render)
  <2>1. agent' = agent /\ input' = input /\ (status' = "done" => output'["checksum"] = report["checksum"])
    BY <1>2, <1>5, Concluded
  <2>2. status' = "done" => output'.checksum = input.draft.checksum
    BY <1>2, <2>1
  <2> QED BY <1>3, <2>1, <2>2 DEF Inv, BriefBuilt, PoliciesMade, GatesApplied, OneDraftSeen, Critics
<1> QED BY <1>3, <1>4, <1>5

\* An execution that returns nothing, or goes on.
LEMMA StoppedStep ==
    ASSUME Inv, RejectInput \/ ProviderFails \/ StorageUnavailable PROVE Inv'
<1>1. agent' = agent /\ input' = input /\ status' # "done"
  BY DEF RejectInput, ProviderFails, StorageUnavailable, Refuse
<1> QED BY <1>1, NothingReturned

\* The other agents do what these four invariants say nothing of.
LEMMA OtherAgentsStep ==
    ASSUME \/ AnalyzeBrand \/ HandToAudience \/ AnalyzeAudience \/ HandToStrategist \/ Strategize
           \/ Direct \/ CorrectDirection \/ Write \/ Shrink \/ HandToArtDirector \/ ArtDirect
           \/ HandToSpec \/ CompileSpec \/ ValidateReferences \/ PlanGeneration \/ HandToProduction
           \/ SkipScene \/ GenerateScene \/ HandToPurity \/ NothingToInspect \/ InspectScene
           \/ HandToRegeneration \/ HandToComposition \/ Compose
    PROVE  Inv'
<1> USE DEF Followed, Critics, Asking, Shown, Return, Refuse, Remember, Start
<1>1. AnalyzeBrand => agent' \notin Followed
  BY DEF AnalyzeBrand
<1>2. HandToAudience => agent' \notin Followed
  BY DEF HandToAudience
<1>3. AnalyzeAudience => agent' \notin Followed
  BY DEF AnalyzeAudience
<1>4. HandToStrategist => agent' \notin Followed
  BY DEF HandToStrategist
<1>5. Strategize => agent' \notin Followed
  BY DEF Strategize
<1>6. Direct \/ CorrectDirection => agent' \notin Followed
  BY DEF Direct, CorrectDirection, Judge
<1>7. Write \/ Shrink => agent' \notin Followed
  BY DEF Write, Shrink
<1>8. HandToArtDirector \/ ArtDirect => agent' \notin Followed
  BY DEF HandToArtDirector, ArtDirect
<1>9. HandToSpec \/ CompileSpec => agent' \notin Followed
  BY DEF HandToSpec, CompileSpec
<1>10. ValidateReferences => agent' \notin Followed
  BY DEF ValidateReferences, ConcludeReferences, Conclude
<1>11. PlanGeneration \/ HandToProduction \/ SkipScene \/ GenerateScene => agent' \notin Followed
  BY DEF PlanGeneration, HandToProduction, SkipScene, GenerateScene
<1>12. HandToPurity \/ NothingToInspect => agent' \notin Followed
  BY DEF HandToPurity, NothingToInspect
<1>13. InspectScene => agent' \notin Followed
  BY DEF InspectScene, Unusable, Conclude
<1>14. HandToRegeneration \/ HandToComposition \/ Compose => agent' \notin Followed
  BY DEF HandToRegeneration, HandToComposition, Compose
<1>15. agent' \notin Followed
  BY <1>1, <1>2, <1>3, <1>4, <1>5, <1>6, <1>7, <1>8, <1>9, <1>10, <1>11, <1>12, <1>13, <1>14
<1> QED BY <1>15, Elsewhere

LEMMA InvNext == Inv /\ [Next]_vars => Inv'
<1> SUFFICES ASSUME Inv, [Next]_vars PROVE Inv'
  OBVIOUS
<1>1. CASE UNCHANGED vars
  BY <1>1 DEF vars, Inv, BriefBuilt, PoliciesMade, GatesApplied, OneDraftSeen
<1>2. CASE Next
  BY <1>2, UnderstandStep, HandToAssetsStep, ClassifyAssetsStep, NothingToClassifyStep, VerifyStep,
     ReviewMarketingStep, ReviewDesignStep, ReviewVisionStep, HandToReviewStep, ScoreQualityStep,
     StoppedStep, OtherAgentsStep DEF Next
<1> QED BY <1>1, <1>2

LEMMA InvAlways == Spec => []Inv
<1>1. Init => Inv
  BY InvInit
<1>2. Inv /\ [Next]_vars => Inv'
  BY InvNext
<1> QED BY <1>1, <1>2, PTL DEF Spec

----------------------------------------------------------------------------
\* Whatever the model extracts, a fact of the brief was verified by the chat or is in the
\* client's own messages, and a context that sufficed for the chat suffices for the
\* workflow (client_understanding/agent.py).
THEOREM BriefSound == Spec => []BriefIsSound
<1>1. Inv => BriefIsSound
  <2> SUFFICES ASSUME Inv, agent = "client_understanding", status = "done" PROVE BriefIsSound
    BY DEF BriefIsSound, BriefIsTheClients, ContextSuffices, Done
  <2>1. PICK x : output = BuildBrief(input.source, x)
    BY DEF Inv, BriefBuilt
  <2>2. input \in Inputs["client_understanding"]
    BY DEF Inv, BriefBuilt
  <2>3. Grounded(input.source)
    BY <2>2, UnderstandingInputs DEF Grounded, Source
  <2> DEFINE turns == {input.source.latest} \cup
                 {t.said : t \in {t \in {input.source.history[i] : i \in DOMAIN input.source.history} : t.role = "user"}}
  <2>4. ClientTexts(input.source) \subseteq turns
    BY DEF ClientTexts, ClientTurns, Message
  <2>5. ASSUME NEW f \in ScalarFields \ {"language"}
        PROVE  \/ output.values[f] \in {None} \cup {input.source.verified[g] : g \in ScalarFields}
               \/ \E m \in turns : output.values[f] \in m.words
    <3>1. output.values[f] \in Sayable(input.source)
      BY <2>1, <2>3, BriefIsSayable
    <3> HIDE DEF turns
    <3> QED BY <2>4, <3>1 DEF Sayable
  <2>6. BriefIsTheClients
    BY <2>5 DEF BriefIsTheClients
  <2>7. ContextSuffices
    BY <2>1, <2>2, UnderstandingInputs, BriefSuffices DEF ContextSuffices
  <2> QED BY <2>6, <2>7 DEF BriefIsSound
<1> QED BY <1>1, InvAlways, PTL

\* Whatever is classified, composed and seen, a required asset cannot be left out, a
\* render that passes the gates is the canvas enlarged by a whole factor with every
\* original as its policy wants it, and a witness that reports less accuses of nothing
\* more (asset_intelligence/policy.py, tools/verification).
THEOREM GatesExact == Spec => []GatesAreExact
<1>1. Inv => RequiredAssetsHold
  <2> SUFFICES ASSUME Inv, agent = "asset_intelligence", status = "done",
                      NEW a \in input.attached.required, NEW use \in CA!Uses(a),
                      ~ use.used \/ use.replaced \/ use.generated
               PROVE  \E p \in CA!UsageViolations(output, {use}) : p.asset = a
    BY DEF RequiredAssetsHold, Done
  <2>1. PICK x : /\ ~ CA!PolicyErrors(input.attached.attachments, x)
                 /\ output = CA!AssetPolicies(input.attached.attachments, input.attached.required, x)
    BY DEF Inv, PoliciesMade
  <2>2. a \in DOMAIN input.attached.attachments
    BY DEF Inv, PoliciesMade
  <2> QED BY <2>1, <2>2, RequiredAreProtected
<1>2. Inv => ExportIsExact /\ CertifiedKeepsAssets
  <2> SUFFICES ASSUME Inv, agent = "verification", status = "done"
               PROVE  ExportIsExact /\ CertifiedKeepsAssets
    BY DEF ExportIsExact, CertifiedKeepsAssets, Done
  <2>1. PICK x : output = VR!VerificationReport(input, x)
    BY DEF Inv, GatesApplied
  <2>2. PICK p : p = input
    OBVIOUS
  <2>3. p \in Inputs["verification"]
    BY <2>2 DEF Inv, GatesApplied
  <2>4. PICK r : r = VR!Readout(x)
    OBVIOUS
  <2>5. output.failed = VR!FailedGates(p, r)
        /\ (output.decision = "PASS" => VR!FailedGates(p, r) = {})
    BY <2>1, <2>2, <2>4 DEF VR!VerificationReport
  <2>6. "correct_dimensions" \notin VR!FailedGates(p, r) <=> ~ VR!DimensionErrors(p)
    BY DEF VR!FailedGates, VR!Gates
  <2>7. ExportIsExact
    BY <2>2, <2>3, <2>5, <2>6, VerificationInputs, DimensionsAreExact DEF ExportIsExact
  <2>8. CertifiedKeepsAssets
    BY <2>2, <2>3, <2>5, CertifiedIsAllowed DEF CertifiedKeepsAssets, UsesOf, UsesOfAsset
  <2> QED BY <2>7, <2>8
<1>3. SilenceNeverAccuses
  <2> SUFFICES ASSUME agent = "verification",
                      NEW less \in {a.x : a \in Answers["verification"] \ {Unparsed}},
                      NEW more \in {a.x : a \in Answers["verification"] \ {Unparsed}},
                      \A f \in DOMAIN more : less[f] \subseteq more[f]
               PROVE  VR!FailedGates(input, VR!Readout(less)) \subseteq VR!FailedGates(input, VR!Readout(more))
    BY DEF SilenceNeverAccuses
  <2>1. more \in [text: SUBSET SUBSET Token, brands: SUBSET SUBSET Token, products: SUBSET SUBSET Token]
    BY VerificationAnswers
  <2>2. DOMAIN more = {"text", "brands", "products"}
    BY <2>1
  <2>3. less.text \subseteq more.text /\ less.brands \subseteq more.brands /\ less.products \subseteq more.products
    BY <2>2
  <2>4. PICK r, q : r = VR!Readout(less) /\ q = VR!Readout(more)
    OBVIOUS
  <2>5. r.text \subseteq q.text /\ r.brands \subseteq q.brands /\ r.products \subseteq q.products
    BY <2>3, <2>4 DEF VR!Readout
  <2>6. VR!FailedGates(input, r) \subseteq VR!FailedGates(input, q)
    BY <2>5, SilenceHelps
  <2> QED BY <2>4, <2>6
<1>4. Inv => GatesAreExact
  BY <1>1, <1>2, <1>3 DEF GatesAreExact
<1> QED BY <1>4, InvAlways, PTL

\* Although every reviewer reads the image from storage anew, an approval names the bytes
\* that each of them was shown and that passed the gates (tools/quality, the stage
\* handlers of the critics).
THEOREM ApprovalRestsOnOneRender == Spec => []ApprovedAsSeen
<1>1. Inv => ApprovedAsSeen
  BY DEF Inv, OneDraftSeen, ApprovedAsSeen, Done, Critics
<1> QED BY <1>1, InvAlways, PTL

----------------------------------------------------------------------------
(* From the brand's facts to the strategy. *)

Strategic == {"brand_product", "audience_intelligence", "marketing_strategist"}

\* What brand_product publishes is an analysis of the contract it was given.
BrandAnalysed ==
    agent = "brand_product" =>
        /\ input \in Inputs["brand_product"]
        /\ status # "done" => output = None
        /\ status = "done" => \E x : Analysed(input, x) /\ output = BA!BrandProductAnalysis(input, x)

\* audience_intelligence works on such an analysis; a result that goes no further comes
\* from one without a promise.
AudienceAnalysed ==
    agent = "audience_intelligence" =>
        /\ \E x : Analysed(input.contract, x) /\ input.product = BA!BrandProductAnalysis(input.contract, x).product
        /\ status # "done" => output = None \/ input.product.chains \o input.product.usps = <<>>
        /\ status = "done" => output.print = input.contract.print

\* The strategist can cite evidence for everything, and publishes what it validated.
StrategyValidated ==
    agent = "marketing_strategist" =>
        /\ Citable(input)
        /\ kept \notin {None, Unparsed} => kept.x \in ST!Proposal
        /\ status = "done" => ~ ST!StrategyErrors(output, input)

StrategyInv == BrandAnalysed /\ AudienceAnalysed /\ StrategyValidated

LEMMA StrategyInvInit == Init => StrategyInv
BY DEF Init, StrategyInv, BrandAnalysed, AudienceAnalysed, StrategyValidated, Entry

LEMMA NotStrategic == ASSUME agent' \notin Strategic PROVE StrategyInv'
BY DEF StrategyInv, BrandAnalysed, AudienceAnalysed, StrategyValidated, Strategic

LEMMA StrategyUnchanged ==
    ASSUME StrategyInv, status = "asking", UNCHANGED <<agent, input, kept, output>>, status' # "done"
    PROVE  StrategyInv'
BY DEF StrategyInv, BrandAnalysed, AudienceAnalysed, StrategyValidated

LEMMA AnalyzeBrandStep == ASSUME StrategyInv, AnalyzeBrand PROVE StrategyInv'
<1>1. agent = "brand_product" /\ status = "asking"
  BY DEF AnalyzeBrand, Asking
<1>2. PICK answer \in Answers["brand_product"] :
         IF answer = Unparsed THEN Refuse
         ELSE IF BA!BrandErrors(input, answer.x) THEN Refuse
         ELSE Return(BA!BrandProductAnalysis(input, answer.x))
  BY <1>1 DEF AnalyzeBrand
<1>3. CASE Refuse
  BY <1>1, <1>3, StrategyUnchanged DEF Refuse
<1>4. CASE ~ Refuse
  <2>1. /\ answer # Unparsed /\ ~ BA!BrandErrors(input, answer.x)
        /\ agent' = agent /\ input' = input /\ status' = "done"
        /\ output' = BA!BrandProductAnalysis(input, answer.x)
    BY <1>2, <1>4 DEF Return
  <2>2. input \in Inputs["brand_product"]
    BY <1>1 DEF StrategyInv, BrandAnalysed
  <2>3. PICK x : x = answer.x
    OBVIOUS
  <2>4. x \in BA!BrandProposal
    BY <2>1, <2>3, StrategyInputs
  <2>5. Analysed(input, x)
    BY <2>1, <2>2, <2>3, <2>4 DEF Analysed
  <2>6. PICK contract : contract = input
    OBVIOUS
  <2>7. Analysed(contract, x) /\ input' = contract /\ output' = BA!BrandProductAnalysis(contract, x)
    BY <2>1, <2>3, <2>5, <2>6
  <2>8. BrandAnalysed'
    BY <2>1, <2>2, <2>6, <2>7 DEF BrandAnalysed
  <2> QED BY <1>1, <2>1, <2>8 DEF StrategyInv, AudienceAnalysed, StrategyValidated
<1> QED BY <1>3, <1>4

LEMMA HandToAudienceStep == ASSUME StrategyInv, HandToAudience PROVE StrategyInv'
<1>1. agent = "brand_product" /\ status = "done"
  BY DEF HandToAudience
<1>2. PICK contract, x : /\ contract = input /\ Analysed(contract, x)
                         /\ output = BA!BrandProductAnalysis(contract, x)
  BY <1>1 DEF StrategyInv, BrandAnalysed
<1>3. PICK analysis : analysis = BA!BrandProductAnalysis(contract, x)
  OBVIOUS
<1>4. BA!AudienceAccepts(input, output.brand, output.product)
  BY <1>2, AudienceAlwaysAccepts
<1>5. Start("audience_intelligence",
            [contract |-> input, brand |-> output.brand, product |-> output.product])
  BY <1>4 DEF HandToAudience
<1>6. /\ agent' = "audience_intelligence" /\ status' = "asking" /\ output' = None
      /\ input'.contract = contract /\ input'.product = analysis.product
  BY <1>2, <1>3, <1>5 DEF Start
<1>7. AudienceAnalysed'
  BY <1>2, <1>3, <1>6 DEF AudienceAnalysed
<1> QED BY <1>6, <1>7 DEF StrategyInv, BrandAnalysed, StrategyValidated

LEMMA AnalyzeAudienceStep == ASSUME StrategyInv, AnalyzeAudience PROVE StrategyInv'
<1>1. agent = "audience_intelligence" /\ status = "asking"
  BY DEF AnalyzeAudience, Asking
<1>2. PICK answer \in Answers[agent] :
         \/ Remember(answer) \/ Refuse
         \/ Return(BA!AudienceIntelligence(input.contract, answer.x))
  BY DEF AnalyzeAudience
<1>3. CASE Refuse
  BY <1>1, <1>3, StrategyUnchanged DEF Refuse
<1>4. CASE Remember(answer)
  BY <1>1, <1>4 DEF Remember, StrategyInv, BrandAnalysed, AudienceAnalysed, StrategyValidated
<1>5. CASE Return(BA!AudienceIntelligence(input.contract, answer.x))
  <2>1. /\ agent' = agent /\ input' = input /\ status' = "done"
        /\ output' = BA!AudienceIntelligence(input.contract, answer.x)
    BY <1>5 DEF Return
  <2>2. output'.print = input.contract.print
    BY <2>1 DEF BA!AudienceIntelligence
  <2> QED BY <1>1, <2>1, <2>2 DEF StrategyInv, BrandAnalysed, AudienceAnalysed, StrategyValidated
<1> QED BY <1>2, <1>3, <1>4, <1>5

LEMMA HandToStrategistStep == ASSUME StrategyInv, HandToStrategist PROVE StrategyInv'
<1>1. agent = "audience_intelligence" /\ status = "done" /\ output.print = input.contract.print
  BY DEF HandToStrategist, StrategyInv, AudienceAnalysed
<1>2. PICK contract, x : /\ contract = input.contract /\ Analysed(contract, x)
                         /\ input.product = BA!BrandProductAnalysis(contract, x).product
  BY <1>1 DEF StrategyInv, AudienceAnalysed
<1>3. PICK product, audience : product = input.product /\ audience = output
  OBVIOUS
<1>4. PICK evidence : evidence = EvidenceOf(contract, product, audience)
  OBVIOUS
<1>5. IF ST!StrategistAccepts(evidence) THEN Start("marketing_strategist", evidence)
      ELSE Refuse /\ UNCHANGED calls
  BY <1>2, <1>3, <1>4 DEF HandToStrategist
<1>6. CASE ST!StrategistAccepts(evidence)
  <2>1. Citable(evidence)
    BY <1>2, <1>3, <1>4, <1>6, EvidenceIsCitable
  <2>2. agent' = "marketing_strategist" /\ status' = "asking" /\ kept' = None /\ input' = evidence
    BY <1>5, <1>6 DEF Start
  <2>3. StrategyValidated'
    BY <2>1, <2>2 DEF StrategyValidated
  <2> QED BY <2>2, <2>3 DEF StrategyInv, BrandAnalysed, AudienceAnalysed
<1>7. CASE ~ ST!StrategistAccepts(evidence)
  <2>1. product.chains \o product.usps = <<>>
    BY <1>1, <1>2, <1>3, <1>4, <1>7, StrategistMostlyAccepts
  <2>2. agent' = agent /\ input' = input /\ status' = "refused"
    BY <1>5, <1>7 DEF Refuse
  <2> QED BY <1>1, <1>3, <2>1, <2>2 DEF StrategyInv, BrandAnalysed, AudienceAnalysed, StrategyValidated
<1> QED BY <1>6, <1>7

LEMMA StrategyIsValidated ==
    ASSUME NEW x, NEW e, NEW strategy \in ST!StrategyFrom(x, e)
    PROVE  ~ ST!StrategyErrors(strategy, e)
BY DEF ST!StrategyFrom, ST!StabilizedStrategy

LEMMA StrategizeStep == ASSUME StrategyInv, Strategize PROVE StrategyInv'
<1>1. agent = "marketing_strategist" /\ status = "asking"
  BY DEF Strategize, Asking
<1>2. PICK answer \in Answers["marketing_strategist"] :
         \/ Remember(answer) \/ Refuse
         \/ \E strategy \in IF answer = Unparsed THEN {} ELSE ST!StrategyFrom(answer.x, input) :
               Return(strategy)
  BY <1>1 DEF Strategize
<1>3. CASE Refuse
  BY <1>1, <1>3, StrategyUnchanged DEF Refuse
<1>4. CASE Remember(answer)
  <2>1. agent' = agent /\ input' = input /\ kept' = answer /\ output' = output /\ status' = status
    BY <1>4 DEF Remember
  <2>2. answer # Unparsed => answer.x \in ST!Proposal
    BY StrategyInputs
  <2> QED BY <1>1, <2>1, <2>2 DEF StrategyInv, BrandAnalysed, AudienceAnalysed, StrategyValidated
<1>5. CASE \E strategy \in IF answer = Unparsed THEN {} ELSE ST!StrategyFrom(answer.x, input) :
               Return(strategy)
  <2>1. PICK strategy \in ST!StrategyFrom(answer.x, input) : Return(strategy)
    BY <1>5
  <2>2. ~ ST!StrategyErrors(strategy, input)
    BY <2>1, StrategyIsValidated
  <2>3. agent' = agent /\ input' = input /\ kept' = kept /\ output' = strategy
    BY <2>1 DEF Return
  <2> QED BY <1>1, <2>2, <2>3 DEF StrategyInv, BrandAnalysed, AudienceAnalysed, StrategyValidated
<1> QED BY <1>2, <1>3, <1>4, <1>5

LEMMA StoppedStrategyStep ==
    ASSUME StrategyInv, RejectInput \/ ProviderFails \/ StorageUnavailable PROVE StrategyInv'
<1>1. status = "asking" /\ UNCHANGED <<agent, input, kept, output>> /\ status' # "done"
  BY DEF RejectInput, ProviderFails, StorageUnavailable, Refuse, Shown, Asking
<1> QED BY <1>1, StrategyUnchanged

LEMMA NotStrategicStep ==
    ASSUME \/ Understand \/ Direct \/ CorrectDirection \/ Write \/ Shrink \/ HandToAssets
           \/ ClassifyAssets \/ NothingToClassify \/ HandToArtDirector \/ ArtDirect \/ HandToSpec
           \/ CompileSpec \/ ValidateReferences \/ PlanGeneration \/ HandToProduction \/ SkipScene
           \/ GenerateScene \/ HandToPurity \/ NothingToInspect \/ InspectScene \/ HandToRegeneration
           \/ HandToComposition \/ Compose \/ Verify \/ ReviewMarketing \/ ReviewDesign \/ ReviewVision
           \/ HandToReview \/ ScoreQuality
    PROVE  StrategyInv'
<1> USE DEF Strategic, Asking, Shown, Return, Refuse, Remember, Start
<1>1. Understand => agent' \notin Strategic
  BY DEF Understand
<1>2. Direct \/ CorrectDirection => agent' \notin Strategic
  BY DEF Direct, CorrectDirection, Judge
<1>3. Write \/ Shrink => agent' \notin Strategic
  BY DEF Write, Shrink
<1>4. HandToAssets \/ ClassifyAssets \/ NothingToClassify => agent' \notin Strategic
  BY DEF HandToAssets, ClassifyAssets, NothingToClassify
<1>5. HandToArtDirector \/ ArtDirect => agent' \notin Strategic
  BY DEF HandToArtDirector, ArtDirect
<1>6. HandToSpec \/ CompileSpec => agent' \notin Strategic
  BY DEF HandToSpec, CompileSpec
<1>7. ValidateReferences => agent' \notin Strategic
  BY DEF ValidateReferences, ConcludeReferences, Conclude
<1>8. PlanGeneration \/ HandToProduction \/ SkipScene \/ GenerateScene => agent' \notin Strategic
  BY DEF PlanGeneration, HandToProduction, SkipScene, GenerateScene
<1>9. HandToPurity \/ NothingToInspect => agent' \notin Strategic
  BY DEF HandToPurity, NothingToInspect
<1>10. InspectScene => agent' \notin Strategic
  BY DEF InspectScene, Unusable, Conclude
<1>11. HandToRegeneration \/ HandToComposition \/ Compose => agent' \notin Strategic
  BY DEF HandToRegeneration, HandToComposition, Compose
<1>12. Verify => agent' \notin Strategic
  BY DEF Verify, Unusable
<1>13. ReviewMarketing => agent' \notin Strategic
  BY DEF ReviewMarketing, Unusable, Conclude
<1>14. ReviewDesign => agent' \notin Strategic
  BY DEF ReviewDesign, Unusable, Conclude
<1>15. ReviewVision => agent' \notin Strategic
  BY DEF ReviewVision, Unusable, Conclude
<1>16. HandToReview => agent' \notin Strategic
  BY DEF HandToReview, NextReview
<1>17. ScoreQuality => agent' \notin Strategic
  BY DEF ScoreQuality, Conclude
<1>18. agent' \notin Strategic
  BY <1>1, <1>2, <1>3, <1>4, <1>5, <1>6, <1>7, <1>8, <1>9, <1>10, <1>11, <1>12, <1>13, <1>14,
     <1>15, <1>16, <1>17
<1> QED BY <1>18, NotStrategic

LEMMA StrategyInvNext == StrategyInv /\ [Next]_vars => StrategyInv'
<1> SUFFICES ASSUME StrategyInv, [Next]_vars PROVE StrategyInv'
  OBVIOUS
<1>1. CASE UNCHANGED vars
  BY <1>1 DEF vars, StrategyInv, BrandAnalysed, AudienceAnalysed, StrategyValidated
<1>2. CASE Next
  BY <1>2, AnalyzeBrandStep, HandToAudienceStep, AnalyzeAudienceStep, HandToStrategistStep,
     StrategizeStep, StoppedStrategyStep, NotStrategicStep DEF Next
<1> QED BY <1>1, <1>2

\* Whatever the models answer, audience_intelligence accepts what brand_product publishes
\* and the strategist what both do, if it names a promise; an answer kept for correction
\* is never kept for the evidence it cites; and what is published, the model's strategy
\* or the one recovered from it, passes the whole validator (the three agents' _validate
\* and _canonicalize functions).
THEOREM StrategySound == Spec => []StrategyIsSound
<1>1. Init => StrategyInv
  BY StrategyInvInit
<1>2. StrategyInv /\ [Next]_vars => StrategyInv'
  BY StrategyInvNext
<1>3. StrategyInv => StrategyIsSound
  <2>1. StrategyInv => UpstreamIsAccepted
    BY DEF StrategyInv, BrandAnalysed, AudienceAnalysed, UpstreamIsAccepted
  <2>2. StrategyInv => BasisNeedsNoCorrection
    BY CanonicalHasNoBasisError DEF StrategyInv, StrategyValidated, BasisNeedsNoCorrection
  <2>3. StrategyInv => StrategyStands
    BY DEF StrategyInv, StrategyValidated, StrategyStands, Done
  <2> QED BY <2>1, <2>2, <2>3 DEF StrategyIsSound
<1> QED BY <1>1, <1>2, <1>3, PTL DEF Spec

----------------------------------------------------------------------------
(* Lists, sums and the plan: the loops of the review unfold. *)

LEMMA ChosenUnfolds ==
    ASSUME NEW sequence, NEW wanted, Len(sequence) \in Nat
    PROVE  RV!ChosenUpTo(sequence, wanted) =
             [n \in 0 .. Len(sequence) |->
                IF n = 0 THEN <<>>
                ELSE IF sequence[n] \in wanted THEN Append(RV!ChosenUpTo(sequence, wanted)[n - 1], sequence[n]) ELSE RV!ChosenUpTo(sequence, wanted)[n - 1]]
<1> DEFINE Step(g, n) == IF n = 0 THEN <<>> ELSE IF sequence[n] \in wanted THEN Append(g[n - 1], sequence[n]) ELSE g[n - 1]
           IsLoop(g, m) == g = [n \in 0 .. m |-> Step(g, n)]
           T == {m \in Nat : \E g : IsLoop(g, m)}
<1>1. 0 \in T
  <2> DEFINE g == [n \in 0 .. 0 |-> <<>>]
  <2>1. IsLoop(g, 0)
    OBVIOUS
  <2> QED BY <2>1
<1>2. \A m \in T : m + 1 \in T
  <2> TAKE m \in T
  <2>1. PICK g : IsLoop(g, m)
    OBVIOUS
  <2> DEFINE h == [n \in 0 .. m + 1 |-> IF n = m + 1 THEN Step(g, n) ELSE g[n]]
  <2>2. ASSUME NEW n \in 0 .. m + 1 PROVE h[n] = Step(h, n)
    <3>1. CASE n = 0
      <4>1. h[n] = g[0] /\ g[0] = Step(g, 0)
        BY <2>1, <3>1
      <4> QED BY <3>1, <4>1
    <3>2. CASE n \in 1 .. m
      <4>1. n \in 0 .. m /\ n # 0 /\ n # m + 1 /\ n - 1 \in 0 .. m + 1 /\ n - 1 # m + 1
        BY <3>2
      <4>2. h[n] = g[n] /\ h[n - 1] = g[n - 1]
        <5> HIDE DEF Step
        <5> QED BY <4>1
      <4>3. g[n] = Step(g, n)
        <5> HIDE DEF Step
        <5> QED BY <2>1, <4>1
      <4>4. Step(g, n) = Step(h, n)
        BY <4>1, <4>2
      <4> HIDE DEF Step
      <4> QED BY <4>2, <4>3, <4>4
    <3>3. CASE n = m + 1
      <4>1. h[n] = Step(g, n) /\ h[n - 1] = g[n - 1] /\ n # 0
        BY <3>3
      <4> QED BY <4>1
    <3> QED BY <3>1, <3>2, <3>3
  <2> HIDE DEF Step
  <2>3. h = [n \in 0 .. m + 1 |-> Step(h, n)]
    BY <2>2
  <2> HIDE DEF h
  <2>4. IsLoop(h, m + 1)
    BY <2>3
  <2> QED BY <2>4
<1>3. T = Nat
  <2> HIDE DEF T
  <2>1. T \subseteq Nat
    BY DEF T
  <2> QED BY <1>1, <1>2, <2>1, SetInduction
<1>4. \E g : IsLoop(g, Len(sequence))
  BY <1>3
<1>5. IsLoop(CHOOSE g : IsLoop(g, Len(sequence)), Len(sequence))
  BY <1>4, Zenon
<1>6. RV!ChosenUpTo(sequence, wanted) = CHOOSE g : IsLoop(g, Len(sequence))
  BY DEF RV!ChosenUpTo
<1> QED BY <1>5, <1>6, Zenon

LEMMA SumUnfolds ==
    ASSUME NEW values, Len(values) \in Nat
    PROVE  RV!SumUpTo(values) =
             [n \in 0 .. Len(values) |->
                IF n = 0 THEN 0
                ELSE RV!SumUpTo(values)[n - 1] + values[n]]
<1> DEFINE Step(g, n) == IF n = 0 THEN 0 ELSE g[n - 1] + values[n]
           IsLoop(g, m) == g = [n \in 0 .. m |-> Step(g, n)]
           T == {m \in Nat : \E g : IsLoop(g, m)}
<1>1. 0 \in T
  <2> DEFINE g == [n \in 0 .. 0 |-> 0]
  <2>1. IsLoop(g, 0)
    OBVIOUS
  <2> QED BY <2>1
<1>2. \A m \in T : m + 1 \in T
  <2> TAKE m \in T
  <2>1. PICK g : IsLoop(g, m)
    OBVIOUS
  <2> DEFINE h == [n \in 0 .. m + 1 |-> IF n = m + 1 THEN Step(g, n) ELSE g[n]]
  <2>2. ASSUME NEW n \in 0 .. m + 1 PROVE h[n] = Step(h, n)
    <3>1. CASE n = 0
      <4>1. h[n] = g[0] /\ g[0] = Step(g, 0)
        BY <2>1, <3>1
      <4> QED BY <3>1, <4>1
    <3>2. CASE n \in 1 .. m
      <4>1. n \in 0 .. m /\ n # 0 /\ n # m + 1 /\ n - 1 \in 0 .. m + 1 /\ n - 1 # m + 1
        BY <3>2
      <4>2. h[n] = g[n] /\ h[n - 1] = g[n - 1]
        <5> HIDE DEF Step
        <5> QED BY <4>1
      <4>3. g[n] = Step(g, n)
        <5> HIDE DEF Step
        <5> QED BY <2>1, <4>1
      <4>4. Step(g, n) = Step(h, n)
        BY <4>1, <4>2
      <4> HIDE DEF Step
      <4> QED BY <4>2, <4>3, <4>4
    <3>3. CASE n = m + 1
      <4>1. h[n] = Step(g, n) /\ h[n - 1] = g[n - 1] /\ n # 0
        BY <3>3
      <4> QED BY <4>1
    <3> QED BY <3>1, <3>2, <3>3
  <2> HIDE DEF Step
  <2>3. h = [n \in 0 .. m + 1 |-> Step(h, n)]
    BY <2>2
  <2> HIDE DEF h
  <2>4. IsLoop(h, m + 1)
    BY <2>3
  <2> QED BY <2>4
<1>3. T = Nat
  <2> HIDE DEF T
  <2>1. T \subseteq Nat
    BY DEF T
  <2> QED BY <1>1, <1>2, <2>1, SetInduction
<1>4. \E g : IsLoop(g, Len(values))
  BY <1>3
<1>5. IsLoop(CHOOSE g : IsLoop(g, Len(values)), Len(values))
  BY <1>4
<1>6. RV!SumUpTo(values) = CHOOSE g : IsLoop(g, Len(values))
  BY DEF RV!SumUpTo
<1> QED BY <1>5, <1>6

LEMMA ReachedUnfolds ==
    ASSUME NEW target, Len(RV!DefaultPlan) \in Nat
    PROVE  RV!ReachedUpTo(target) =
             [n \in 0 .. Len(RV!DefaultPlan) |->
                IF n = 0 THEN {}
                ELSE RV!Joined(RV!ReachedUpTo(target)[n - 1], RV!DefaultPlan[n], target)]
<1> DEFINE Step(g, n) == IF n = 0 THEN {} ELSE RV!Joined(g[n - 1], RV!DefaultPlan[n], target)
           IsLoop(g, m) == g = [n \in 0 .. m |-> Step(g, n)]
           T == {m \in Nat : \E g : IsLoop(g, m)}
<1>1. 0 \in T
  <2> DEFINE g == [n \in 0 .. 0 |-> {}]
  <2>1. IsLoop(g, 0)
    OBVIOUS
  <2> QED BY <2>1
<1>2. \A m \in T : m + 1 \in T
  <2> TAKE m \in T
  <2>1. PICK g : IsLoop(g, m)
    OBVIOUS
  <2> DEFINE h == [n \in 0 .. m + 1 |-> IF n = m + 1 THEN Step(g, n) ELSE g[n]]
  <2>2. ASSUME NEW n \in 0 .. m + 1 PROVE h[n] = Step(h, n)
    <3>1. CASE n = 0
      <4>1. h[n] = g[0] /\ g[0] = Step(g, 0)
        BY <2>1, <3>1
      <4> QED BY <3>1, <4>1
    <3>2. CASE n \in 1 .. m
      <4>1. n \in 0 .. m /\ n # 0 /\ n # m + 1 /\ n - 1 \in 0 .. m + 1 /\ n - 1 # m + 1
        BY <3>2
      <4>2. h[n] = g[n] /\ h[n - 1] = g[n - 1]
        <5> HIDE DEF Step
        <5> QED BY <4>1
      <4>3. g[n] = Step(g, n)
        <5> HIDE DEF Step
        <5> QED BY <2>1, <4>1
      <4>4. Step(g, n) = Step(h, n)
        BY <4>1, <4>2
      <4> HIDE DEF Step
      <4> QED BY <4>2, <4>3, <4>4
    <3>3. CASE n = m + 1
      <4>1. h[n] = Step(g, n) /\ h[n - 1] = g[n - 1] /\ n # 0
        BY <3>3
      <4> QED BY <4>1
    <3> QED BY <3>1, <3>2, <3>3
  <2> HIDE DEF Step
  <2>3. h = [n \in 0 .. m + 1 |-> Step(h, n)]
    BY <2>2
  <2> HIDE DEF h
  <2>4. IsLoop(h, m + 1)
    BY <2>3
  <2> QED BY <2>4
<1>3. T = Nat
  <2> HIDE DEF T
  <2>1. T \subseteq Nat
    BY DEF T
  <2> QED BY <1>1, <1>2, <2>1, SetInduction
<1>4. \E g : IsLoop(g, Len(RV!DefaultPlan))
  BY <1>3
<1>5. IsLoop(CHOOSE g : IsLoop(g, Len(RV!DefaultPlan)), Len(RV!DefaultPlan))
  BY <1>4
<1>6. RV!ReachedUpTo(target) = CHOOSE g : IsLoop(g, Len(RV!DefaultPlan))
  BY DEF RV!ReachedUpTo
<1> QED BY <1>5, <1>6

\* What is chosen from a list is what is wanted of it.
LEMMA ChosenIsWanted ==
    ASSUME NEW S, NEW s \in Seq(S), NEW wanted
    PROVE  /\ RV!Chosen(s, wanted) \in Seq(S)
           /\ RV!Range(RV!Chosen(s, wanted)) = RV!Range(s) \cap wanted
<1>0. PICK chosen : chosen = RV!ChosenUpTo(s, wanted)
  OBVIOUS
<1> DEFINE Right(c, n) == c \in Seq(S) /\ RV!Range(c) = {s[i] : i \in 1 .. n} \cap wanted
           T == {n \in Nat : n <= Len(s) => Right(chosen[n], n)}
<1>1. Len(s) \in Nat /\ DOMAIN s = 1 .. Len(s)
  OBVIOUS
<1>a. chosen = [n \in 0 .. Len(s) |->
                  IF n = 0 THEN <<>>
                  ELSE IF s[n] \in wanted THEN Append(chosen[n - 1], s[n]) ELSE chosen[n - 1]]
  BY <1>0, <1>1, ChosenUnfolds
<1>2. chosen[0] = <<>>
  BY <1>1, <1>a
<1>3. ASSUME NEW n \in Nat, n + 1 <= Len(s)
      PROVE  chosen[n + 1] = IF s[n + 1] \in wanted THEN Append(chosen[n], s[n + 1]) ELSE chosen[n]
  <2>1. n + 1 \in 0 .. Len(s) /\ n + 1 # 0 /\ (n + 1) - 1 = n
    BY <1>1, <1>3
  <2> QED BY <1>a, <2>1
<1>4. 0 \in T
  <2>1. <<>> \in Seq(S) /\ RV!Range(<<>>) = {}
    BY DEF RV!Range
  <2>2. {s[i] : i \in 1 .. 0} = {}
    OBVIOUS
  <2> QED BY <1>2, <2>1, <2>2
<1>5. \A n \in T : n + 1 \in T
  <2> SUFFICES ASSUME NEW n \in T, n + 1 <= Len(s) PROVE Right(chosen[n + 1], n + 1)
    <3> HIDE DEF Right
    <3> QED OBVIOUS
  <2>1. PICK c : c = chosen[n]
    OBVIOUS
  <2>2. c \in Seq(S) /\ RV!Range(c) = {s[i] : i \in 1 .. n} \cap wanted
    BY <1>1, <2>1
  <2>3. PICK e : e = s[n + 1]
    OBVIOUS
  <2>4. e \in S
    BY <1>1, <2>3
  <2>5. {s[i] : i \in 1 .. n + 1} = {s[i] : i \in 1 .. n} \cup {e}
    <3>1. 1 .. n + 1 = (1 .. n) \cup {n + 1}
      BY <1>1
    <3> QED BY <2>3, <3>1
  <2>6. CASE e \in wanted
    <3>1. Append(c, e) \in Seq(S) /\ RV!Range(Append(c, e)) = RV!Range(c) \cup {e}
      <4>1. /\ Append(c, e) \in Seq(S) /\ DOMAIN Append(c, e) = (DOMAIN c) \cup {Len(c) + 1}
            /\ Append(c, e)[Len(c) + 1] = e /\ \A i \in DOMAIN c : Append(c, e)[i] = c[i]
        BY <2>2, <2>4
      <4> QED BY <4>1 DEF RV!Range
    <3>2. chosen[n + 1] = Append(c, e)
      BY <1>3, <2>1, <2>3, <2>6
    <3> QED BY <2>2, <2>5, <2>6, <3>1, <3>2
  <2>7. CASE e \notin wanted
    <3>1. chosen[n + 1] = c
      BY <1>3, <2>1, <2>3, <2>7
    <3> QED BY <2>2, <2>5, <2>7, <3>1
  <2> QED BY <2>6, <2>7
<1>6. T = Nat
  <2> HIDE DEF T
  <2>1. T \subseteq Nat
    BY DEF T
  <2> QED BY <1>4, <1>5, <2>1, SetInduction
<1>7. Right(chosen[Len(s)], Len(s))
  <2> HIDE DEF Right
  <2> QED BY <1>1, <1>6
<1>8. RV!Chosen(s, wanted) = chosen[Len(s)]
  BY <1>0 DEF RV!Chosen
<1>9. RV!Range(s) = {s[i] : i \in 1 .. Len(s)}
  BY <1>1 DEF RV!Range
<1> QED BY <1>7, <1>8, <1>9

\* A quotient reaches what its dividend reaches a multiple of.
LEMMA QuotientReaches ==
    ASSUME NEW n \in Nat \ {0}, NEW s \in Int, NEW b \in Int, s >= n * b
    PROVE  s \div n \in Int /\ s \div n >= b
<1>1. PICK q \in Int : q = s \div n
  OBVIOUS
<1>2. PICK r \in Int : r = s % n /\ 0 <= r /\ r < n
  OBVIOUS
<1>3. s = n * q + r
  BY <1>1, <1>2
<1>4. ASSUME q < b PROVE FALSE
  <2>1. n * (b - q) >= n
    <3>1. b - q \in Nat \ {0}
      BY <1>4
    <3>2. \A k \in Nat \ {0} : n * k >= n
      BY n \in Nat
    <3> QED BY <3>1, <3>2
  <2>2. n * (b - q) = n * b - n * q
    OBVIOUS
  <2>3. PICK x \in Int, y \in Int : x = n * b /\ y = n * q
    OBVIOUS
  <2> QED BY ONLY <1>2, <1>3, <2>1, <2>2, <2>3, s >= n * b, n \in Nat, s \in Int
<1> QED BY <1>1, <1>4

LEMMA SumStarts ==
    ASSUME NEW v, Len(v) \in Nat
    PROVE  /\ RV!SumUpTo(v)[0] = 0
           /\ \A k \in 1 .. Len(v) : RV!SumUpTo(v)[k] = RV!SumUpTo(v)[k - 1] + v[k]
<1>1. PICK sum : sum = RV!SumUpTo(v)
  OBVIOUS
<1>2. sum = [n \in 0 .. Len(v) |-> IF n = 0 THEN 0 ELSE sum[n - 1] + v[n]]
  BY <1>1, SumUnfolds
<1>3. sum[0] = 0
  BY <1>2
<1>4. ASSUME NEW k \in 1 .. Len(v) PROVE sum[k] = sum[k - 1] + v[k]
  <2>1. k \in 0 .. Len(v) /\ k # 0
    BY <1>4
  <2> QED BY <1>2, <2>1
<1> QED BY <1>1, <1>3, <1>4

\* A mean is at least what every value is.
LEMMA AverageIsAtLeast ==
    ASSUME NEW v, Len(v) \in Nat \ {0}, NEW b \in Int, \A i \in 1 .. Len(v) : v[i] \in Int /\ v[i] >= b
    PROVE  RV!Average(v) \in Int /\ RV!Average(v) >= b
<1>0. PICK sum : sum = RV!SumUpTo(v)
  OBVIOUS
<1> DEFINE T == {k \in Nat : k <= Len(v) => sum[k] \in Int /\ sum[k] >= k * b}
<1>1. sum[0] = 0
  BY <1>0, SumStarts
<1>2. ASSUME NEW k \in Nat, k + 1 <= Len(v) PROVE sum[k + 1] = sum[k] + v[k + 1]
  <2>1. k + 1 \in 1 .. Len(v) /\ (k + 1) - 1 = k
    BY <1>2
  <2> QED BY <1>0, <2>1, SumStarts
<1>3. 0 \in T
  BY <1>1
<1>4. \A k \in T : k + 1 \in T
  <2> SUFFICES ASSUME NEW k \in T, k + 1 <= Len(v)
               PROVE  sum[k + 1] \in Int /\ sum[k + 1] >= (k + 1) * b
    OBVIOUS
  <2>1. PICK s, w, m : s = sum[k] /\ w = v[k + 1] /\ m = k * b
    OBVIOUS
  <2>2. s \in Int /\ w \in Int /\ m \in Int /\ s >= m /\ w >= b
    BY <2>1
  <2>3. sum[k + 1] = s + w
    BY <1>2, <2>1
  <2>4. (k + 1) * b = m + b
    BY ONLY <2>1, k \in Nat, b \in Int
  <2> QED BY ONLY <2>2, <2>3, <2>4, b \in Int
<1>5. T = Nat
  <2> HIDE DEF T
  <2>1. T \subseteq Nat
    BY DEF T
  <2> QED BY <1>3, <1>4, <2>1, SetInduction
<1>6. PICK n, s : n = Len(v) /\ s = sum[n]
  OBVIOUS
<1>7. n \in Nat \ {0} /\ s \in Int /\ s >= n * b
  <2>1. n \in Nat \ {0} /\ n <= Len(v)
    BY <1>6
  <2>2. n \in T
    <3> HIDE DEF T
    <3> QED BY <1>5, <2>1
  <2>3. sum[n] \in Int /\ sum[n] >= n * b
    BY <2>1, <2>2
  <2> QED BY <1>6, <2>1, <2>3
<1>8. s \div n \in Int /\ s \div n >= b
  BY <1>7, QuotientReaches
<1>9. RV!Average(v) \in {s \div n, s \div n + 1}
  BY <1>0, <1>6 DEF RV!Average
<1> QED BY <1>8, <1>9

----------------------------------------------------------------------------
(* The stages a revision runs again. *)

LEMMA PlanLength == Len(RV!DefaultPlan) = 21 /\ DOMAIN RV!DefaultPlan = 1 .. 21
BY DEF RV!DefaultPlan

\* Where in the plan the stages are that findings are routed to, and those between them.
LEMMA PlanStages ==
    /\ RV!DefaultPlan[3].stage = "asset_intelligence" /\ RV!DefaultPlan[7].stage = "marketing_strategy"
    /\ RV!DefaultPlan[8].stage = "creative_concept" /\ RV!DefaultPlan[9].stage = "copywriting"
    /\ RV!DefaultPlan[10].stage = "art_direction" /\ RV!DefaultPlan[11].stage = "design_spec"
    /\ RV!DefaultPlan[12].stage = "reference_validation" /\ RV!DefaultPlan[13].stage = "generation_planning"
    /\ RV!DefaultPlan[14].stage = "production"
BY DEF RV!DefaultPlan, RV!Stage

LEMMA PlanDependencies ==
    /\ "marketing_strategy" \in RV!DefaultPlan[8].dependencies
    /\ "creative_concept" \in RV!DefaultPlan[9].dependencies
    /\ "asset_intelligence" \in RV!DefaultPlan[10].dependencies
    /\ "copywriting" \in RV!DefaultPlan[11].dependencies /\ "art_direction" \in RV!DefaultPlan[11].dependencies
    /\ "design_spec" \in RV!DefaultPlan[12].dependencies
    /\ "reference_validation" \in RV!DefaultPlan[13].dependencies
    /\ "generation_planning" \in RV!DefaultPlan[14].dependencies
BY DEF RV!DefaultPlan, RV!Stage

\* No stage is planned twice.
LEMMA PlanIsInjective ==
    ASSUME NEW i \in 1 .. 21, NEW j \in 1 .. 21, RV!DefaultPlan[i].stage = RV!DefaultPlan[j].stage
    PROVE  i = j
<1> DEFINE names ==
      <<"client_understanding", "semantic_contract", "asset_intelligence", "brand_product",
        "audience_intelligence", "external_research", "marketing_strategy", "creative_concept",
        "copywriting", "art_direction", "design_spec", "reference_validation",
        "generation_planning", "production", "scene_purity", "composition", "verification",
        "quality_review", "design_review", "vision_review", "quality_scoring">>
<1>1. \A k \in 1 .. 21 : RV!DefaultPlan[k].stage = names[k]
  BY DEF RV!DefaultPlan, RV!Stage
<1>2. names[i] = names[j] => i = j
  OBVIOUS
<1> QED BY <1>1, <1>2

LEMMA ReachedSteps ==
    ASSUME NEW t
    PROVE  /\ RV!ReachedUpTo(t)[0] = {}
           /\ \A k \in 1 .. 21 :
                 RV!ReachedUpTo(t)[k] = RV!Joined(RV!ReachedUpTo(t)[k - 1], RV!DefaultPlan[k], t)
           /\ RV!Downstream(t) = RV!ReachedUpTo(t)[21]
<1>1. PICK reached : reached = RV!ReachedUpTo(t)
  OBVIOUS
<1>2. reached = [n \in 0 .. 21 |-> IF n = 0 THEN {} ELSE RV!Joined(reached[n - 1], RV!DefaultPlan[n], t)]
  BY <1>1, ReachedUnfolds, PlanLength
<1>3. reached[0] = {}
  BY <1>2
<1>4. ASSUME NEW k \in 1 .. 21 PROVE reached[k] = RV!Joined(reached[k - 1], RV!DefaultPlan[k], t)
  <2>1. k \in 0 .. 21 /\ k # 0
    BY <1>4
  <2> QED BY <1>2, <2>1
<1>5. RV!Downstream(t) = reached[21]
  BY <1>1, PlanLength DEF RV!Downstream
<1> QED BY <1>1, <1>3, <1>4, <1>5

LEMMA ReachedGrows ==
    ASSUME NEW t, NEW i \in 0 .. 21, NEW k \in i .. 21
    PROVE  RV!ReachedUpTo(t)[i] \subseteq RV!ReachedUpTo(t)[k]
<1>1. PICK reached : reached = RV!ReachedUpTo(t)
  OBVIOUS
<1> DEFINE T == {n \in Nat : n \in i .. 21 => reached[i] \subseteq reached[n]}
<1>2. ASSUME NEW n \in 1 .. 21 PROVE reached[n - 1] \subseteq reached[n]
  BY <1>1, ReachedSteps DEF RV!Joined
<1>3. 0 \in T
  OBVIOUS
<1>4. \A n \in T : n + 1 \in T
  <2> SUFFICES ASSUME NEW n \in T, n + 1 \in i .. 21 PROVE reached[i] \subseteq reached[n + 1]
    OBVIOUS
  <2>1. n + 1 = i \/ (n \in i .. 21 /\ n + 1 \in 1 .. 21 /\ (n + 1) - 1 = n)
    OBVIOUS
  <2>2. CASE n \in i .. 21 /\ n + 1 \in 1 .. 21 /\ (n + 1) - 1 = n
    <3>1. reached[i] \subseteq reached[n]
      BY <2>2
    <3>2. reached[n] \subseteq reached[n + 1]
      BY <1>2, <2>2
    <3> QED BY <3>1, <3>2
  <2> QED BY <2>1, <2>2
<1>5. T = Nat
  <2> HIDE DEF T
  <2>1. T \subseteq Nat
    BY DEF T
  <2> QED BY <1>3, <1>4, <2>1, SetInduction
<1> QED BY <1>1, <1>5

\* A stage is run again when a stage it depends on is.
Reopens(t, i) == RV!DefaultPlan[i].stage \in RV!ReachedUpTo(t)[i]

LEMMA ReopensItself ==
    ASSUME NEW i \in 1 .. 21
    PROVE  Reopens(RV!DefaultPlan[i].stage, i)
<1>1. PICK t : t = RV!DefaultPlan[i].stage
  OBVIOUS
<1>2. RV!ReachedUpTo(t)[i] = RV!Joined(RV!ReachedUpTo(t)[i - 1], RV!DefaultPlan[i], t)
  BY ReachedSteps
<1>3. t \in RV!Joined(RV!ReachedUpTo(t)[i - 1], RV!DefaultPlan[i], t)
  BY <1>1 DEF RV!Joined
<1> QED BY <1>1, <1>2, <1>3 DEF Reopens

LEMMA ReopensDependent ==
    ASSUME NEW t, NEW i \in 1 .. 21, NEW j \in 1 .. i - 1, Reopens(t, j),
           RV!DefaultPlan[j].stage \in RV!DefaultPlan[i].dependencies
    PROVE  Reopens(t, i)
<1>1. RV!DefaultPlan[j].stage \in RV!ReachedUpTo(t)[i - 1]
  BY ReachedGrows DEF Reopens
<1> QED BY <1>1, ReachedSteps DEF Reopens, RV!Joined

LEMMA ReopenedIsDownstream ==
    ASSUME NEW t, NEW i \in 1 .. 21, Reopens(t, i)
    PROVE  RV!DefaultPlan[i].stage \in RV!Downstream(t)
BY ReachedGrows, ReachedSteps DEF Reopens

LEMMA DownstreamOf ==
    /\ {"marketing_strategy", "creative_concept", "copywriting", "design_spec"}
          \subseteq RV!Downstream("marketing_strategy")
    /\ {"creative_concept", "copywriting", "design_spec"} \subseteq RV!Downstream("creative_concept")
    /\ "copywriting" \in RV!Downstream("copywriting")
    /\ {"design_spec", "production"} \subseteq RV!Downstream("design_spec")
    /\ {"asset_intelligence", "design_spec", "production"} \subseteq RV!Downstream("asset_intelligence")
    /\ "production" \in RV!Downstream("production")
<1>1. \A t : /\ Reopens(t, 7) => Reopens(t, 8)
             /\ Reopens(t, 8) => Reopens(t, 9)
             /\ Reopens(t, 9) => Reopens(t, 11)
             /\ Reopens(t, 3) => Reopens(t, 10)
             /\ Reopens(t, 10) => Reopens(t, 11)
             /\ Reopens(t, 11) => Reopens(t, 12)
             /\ Reopens(t, 12) => Reopens(t, 13)
             /\ Reopens(t, 13) => Reopens(t, 14)
  BY ReopensDependent, PlanStages, PlanDependencies
<1>2. /\ Reopens("marketing_strategy", 7) /\ Reopens("creative_concept", 8) /\ Reopens("copywriting", 9)
      /\ Reopens("design_spec", 11) /\ Reopens("asset_intelligence", 3) /\ Reopens("production", 14)
  BY ReopensItself, PlanStages
<1>3. \A t : /\ Reopens(t, 3) => "asset_intelligence" \in RV!Downstream(t)
             /\ Reopens(t, 7) => "marketing_strategy" \in RV!Downstream(t)
             /\ Reopens(t, 8) => "creative_concept" \in RV!Downstream(t)
             /\ Reopens(t, 9) => "copywriting" \in RV!Downstream(t)
             /\ Reopens(t, 11) => "design_spec" \in RV!Downstream(t)
             /\ Reopens(t, 14) => "production" \in RV!Downstream(t)
  BY ReopenedIsDownstream, PlanStages
<1> QED BY <1>1, <1>2, <1>3

\* Where a route leads in the plan.
LEMMA RouteIndices ==
    /\ RV!StageIndex("product") = 3 /\ RV!StageIndex("strategy") = 7 /\ RV!StageIndex("concept") = 8
    /\ RV!StageIndex("copy") = 9 /\ RV!StageIndex("typography") = 11 /\ RV!StageIndex("layout") = 11
    /\ RV!StageIndex("color") = 11 /\ RV!StageIndex("scene") = 14
<1>1. ASSUME NEW n \in 1 .. 21, NEW route, RV!Routing[route] = RV!DefaultPlan[n].stage
      PROVE  RV!StageIndex(route) = n
  BY <1>1, PlanLength, PlanIsInjective DEF RV!StageIndex
<1>2. /\ RV!Routing["product"] = "asset_intelligence" /\ RV!Routing["strategy"] = "marketing_strategy"
      /\ RV!Routing["concept"] = "creative_concept" /\ RV!Routing["copy"] = "copywriting"
      /\ RV!Routing["typography"] = "design_spec" /\ RV!Routing["layout"] = "design_spec"
      /\ RV!Routing["color"] = "design_spec" /\ RV!Routing["scene"] = "production"
  BY DEF RV!Routing
<1> QED BY <1>1, <1>2, PlanStages

Routes == {"product", "strategy", "concept", "copy", "typography", "layout", "color", "scene"}

LEMMA AlphabetIndices == \A r \in Routes : RV!IndexIn(RV!Alphabet, r) \in 1 .. 8
<1>1. DOMAIN RV!Alphabet = 1 .. 8
  BY DEF RV!Alphabet
<1>2. ASSUME NEW r \in Routes PROVE \E i \in 1 .. 8 : RV!Alphabet[i] = r
  <2>1. /\ RV!Alphabet[1] = "color" /\ RV!Alphabet[2] = "concept" /\ RV!Alphabet[3] = "copy"
        /\ RV!Alphabet[4] = "layout" /\ RV!Alphabet[5] = "product" /\ RV!Alphabet[6] = "scene"
        /\ RV!Alphabet[7] = "strategy" /\ RV!Alphabet[8] = "typography"
    BY DEF RV!Alphabet
  <2> QED BY <2>1 DEF Routes
<1> QED BY <1>1, <1>2 DEF RV!IndexIn

\* The primary route is one of the findings', and none leads further back.
LEMMA PrimaryIsEarliest ==
    ASSUME NEW routes, routes \subseteq Routes, routes # {}
    PROVE  /\ RV!Primary(routes) \in routes
           /\ \A q \in routes : RV!StageIndex(RV!Primary(routes)) <= RV!StageIndex(q)
<1> DEFINE key(r) == 10 * RV!StageIndex(r) + RV!IndexIn(RV!Alphabet, r)
           Least(r) == \A q \in routes :
              \/ RV!StageIndex(r) < RV!StageIndex(q)
              \/ RV!StageIndex(r) = RV!StageIndex(q) /\ RV!IndexIn(RV!Alphabet, r) <= RV!IndexIn(RV!Alphabet, q)
<1>1. \A r \in routes : RV!StageIndex(r) \in Nat /\ RV!IndexIn(RV!Alphabet, r) \in 1 .. 8
  BY RouteIndices, AlphabetIndices DEF Routes
<1>2. {key(r) : r \in routes} \subseteq Nat /\ {key(r) : r \in routes} # {}
  BY <1>1
<1>3. PICK r \in routes : \A q \in routes : key(r) <= key(q)
  <2> DEFINE K == {key(r) : r \in routes}
  <2>1. PICK k \in K : \A l \in K : k <= l
    <3> HIDE DEF K
    <3> QED BY <1>2, LeastNatural DEF K
  <2> QED BY <2>1
<1>4. Least(r)
  <2> TAKE q \in routes
  <2>1. PICK a, b, c, d : /\ a = RV!StageIndex(r) /\ b = RV!IndexIn(RV!Alphabet, r)
                          /\ c = RV!StageIndex(q) /\ d = RV!IndexIn(RV!Alphabet, q)
    OBVIOUS
  <2>2. a \in Nat /\ c \in Nat /\ b \in 1 .. 8 /\ d \in 1 .. 8 /\ 10 * a + b <= 10 * c + d
    BY <1>1, <1>3, <2>1
  <2>3. a < c \/ (a = c /\ b <= d)
    BY ONLY <2>2
  <2> QED BY <2>1, <2>3
<1>5. RV!Primary(routes) \in routes /\ Least(RV!Primary(routes))
  <2> HIDE DEF key
  <2>1. RV!Primary(routes) = CHOOSE x \in routes : Least(x)
    BY DEF RV!Primary
  <2> HIDE DEF Least
  <2> QED BY <1>4, <2>1
<1>6. \A q \in routes : RV!StageIndex(RV!Primary(routes)) <= RV!StageIndex(q)
  <2>1. PICK p \in routes : p = RV!Primary(routes)
    BY <1>5
  <2>2. Least(p)
    BY <1>5, <2>1
  <2> QED BY <1>1, <2>1, <2>2
<1> QED BY <1>5, <1>6

\* Running production again rewrites nothing of what its revision is to keep.
LEMMA ProductionKeeps == RV!Rewritten("production") \cap PR!PreservedOnRegeneration = {}
<1>1. PICK reached : reached = RV!ReachedUpTo("production")
  OBVIOUS
<1> DEFINE Apart(n) == /\ n <= 13 => reached[n] = {}
                       /\ \A i \in 1 .. 13 : RV!DefaultPlan[i].stage \notin reached[n]
           T == {n \in Nat : n <= 21 => Apart(n)}
<1>2. reached[0] = {} /\ \A k \in 1 .. 21 : reached[k] = RV!Joined(reached[k - 1], RV!DefaultPlan[k], "production")
  BY <1>1, ReachedSteps
<1>3. 0 \in T
  BY <1>2
<1>4. \A n \in T : n + 1 \in T
  <2> SUFFICES ASSUME NEW n \in T, n + 1 <= 21 PROVE Apart(n + 1)
    <3> HIDE DEF Apart
    <3> QED OBVIOUS
  <2>1. Apart(n) /\ n + 1 \in 1 .. 21 /\ (n + 1) - 1 = n
    OBVIOUS
  <2>2. PICK k : k = n + 1
    OBVIOUS
  <2>3. reached[k] = RV!Joined(reached[n], RV!DefaultPlan[k], "production") /\ k \in 1 .. 21
    BY <1>2, <2>1, <2>2
  <2>4. CASE k <= 13
    <3>1. reached[n] = {} /\ RV!DefaultPlan[k].stage # "production"
      <4>1. RV!DefaultPlan[k].stage # RV!DefaultPlan[14].stage
        BY <2>3, <2>4, PlanIsInjective
      <4> QED BY <2>1, <2>2, <2>4, <4>1, PlanStages
    <3>2. reached[k] = {}
      BY <2>3, <3>1 DEF RV!Joined
    <3> QED BY <2>2, <3>2
  <2>5. CASE k > 13
    <3>1. \A i \in 1 .. 13 : RV!DefaultPlan[i].stage # RV!DefaultPlan[k].stage
      BY <2>3, <2>5, PlanIsInjective
    <3>2. reached[k] \subseteq reached[n] \cup {RV!DefaultPlan[k].stage}
      BY <2>3 DEF RV!Joined
    <3>3. \A i \in 1 .. 13 : RV!DefaultPlan[i].stage \notin reached[k]
      BY <2>1, <3>1, <3>2
    <3> QED BY <2>2, <2>5, <3>3
  <2> QED BY <2>3, <2>4, <2>5
<1>5. T = Nat
  <2> HIDE DEF T
  <2>1. T \subseteq Nat
    BY DEF T
  <2> QED BY <1>3, <1>4, <2>1, SetInduction
<1>6. Apart(21)
  <2> HIDE DEF Apart
  <2> QED BY <1>5
<1>7. \A i \in 1 .. 21 : RV!DefaultPlan[i].stage \in RV!Downstream("production") => i \in 14 .. 21
  BY <1>1, <1>6, ReachedSteps
<1>8. \A i \in 14 .. 21 : RV!Range(RV!DefaultPlan[i].outputs) \cap PR!PreservedOnRegeneration = {}
  <2> DEFINE made(i) == RV!Range(RV!DefaultPlan[i].outputs)
  <2>1. /\ RV!DefaultPlan[14].outputs = <<"generation_artifacts">>
        /\ RV!DefaultPlan[15].outputs = <<"scene_purity", "revision_history">>
        /\ RV!DefaultPlan[16].outputs = <<"post_draft">>
        /\ RV!DefaultPlan[17].outputs = <<"verification">>
        /\ RV!DefaultPlan[18].outputs = <<"quality", "revision_history">>
        /\ RV!DefaultPlan[19].outputs = <<"design_quality", "revision_history">>
        /\ RV!DefaultPlan[20].outputs = <<"vision_quality", "revision_history">>
        /\ RV!DefaultPlan[21].outputs = <<"quality_approval", "revision_history">>
    BY DEF RV!DefaultPlan, RV!Stage
  <2>2. \A a : RV!Range(<<a>>) = {a}
    BY DEF RV!Range
  <2>3. \A a, b : RV!Range(<<a, b>>) = {a, b}
    BY DEF RV!Range
  <2>4. /\ made(14) = {"generation_artifacts"} /\ made(15) = {"scene_purity", "revision_history"}
        /\ made(16) = {"post_draft"} /\ made(17) = {"verification"}
        /\ made(18) = {"quality", "revision_history"} /\ made(19) = {"design_quality", "revision_history"}
        /\ made(20) = {"vision_quality", "revision_history"} /\ made(21) = {"quality_approval", "revision_history"}
    BY <2>1, <2>2, <2>3
  <2>5. \A i \in 14 .. 21 : i \in {14, 15, 16, 17, 18, 19, 20, 21}
    OBVIOUS
  <2> HIDE DEF made
  <2>6. \A i \in 14 .. 21 : made(i) \cap PR!PreservedOnRegeneration = {}
    BY <2>4, <2>5 DEF PR!PreservedOnRegeneration
  <2> QED BY <2>6 DEF made
<1> QED BY <1>7, <1>8, PlanLength DEF RV!Rewritten

\* What each reviewer can find; the scores that can fail are those for what a post says
\* to its audience.
Found == [RV!Findings EXCEPT !["quality_scoring"] = {"strategy"}]

\* Those who have to act on a revision are run again, and what is kept is not rewritten.
Reaches(reviewer, revision) ==
    /\ \A f \in revision.findings : RV!Routing[f.route] \in RV!Downstream(revision.target)
    /\ revision.keep \cap RV!Rewritten(revision.target) = {}
    /\ reviewer = "scene_purity" => PR!PreservedOnRegeneration \subseteq revision.keep

RoutesOf(findings) == {f.route : f \in RV!Range(findings)}

LEMMA InstructionReaches ==
    ASSUME NEW reviewer \in DOMAIN RV!Findings, NEW findings, NEW by, NEW history, NEW render,
           RoutesOf(findings) # {}, RoutesOf(findings) \subseteq Found[reviewer]
    PROVE  Reaches(reviewer, RV!Instruction(findings, by, history, render))
<1>1. PICK routes : routes = RoutesOf(findings)
  OBVIOUS
<1>2. /\ Found["reference_validation"] = {"strategy", "layout", "concept"}
      /\ Found["scene_purity"] = {"scene"} /\ Found["quality_review"] = {"copy", "strategy"}
      /\ Found["design_review"] = {"concept", "typography", "color", "layout"}
      /\ Found["vision_review"] = {"product", "scene", "typography", "layout"}
      /\ Found["quality_scoring"] = {"strategy"}
      /\ DOMAIN RV!Findings = {"reference_validation", "scene_purity", "quality_review", "design_review",
                               "vision_review", "quality_scoring"}
  BY DEF Found, RV!Findings, RV!ReferenceFindings, RV!SceneFindings, RV!MarketingFindings,
         RV!DesignFindings, RV!VisionFindings, RV!ScoringFindings
<1>3. routes \subseteq Routes /\ routes # {} /\ routes \subseteq Found[reviewer]
  BY <1>1, <1>2 DEF Routes
<1>4. PICK primary \in routes : /\ primary = RV!Primary(routes)
                                /\ \A q \in routes : RV!StageIndex(primary) <= RV!StageIndex(q)
  BY <1>3, PrimaryIsEarliest
<1>5. PICK target : target = RV!Routing[primary]
  OBVIOUS
<1>6. /\ RV!Routing["product"] = "asset_intelligence" /\ RV!Routing["strategy"] = "marketing_strategy"
      /\ RV!Routing["concept"] = "creative_concept" /\ RV!Routing["copy"] = "copywriting"
      /\ RV!Routing["typography"] = "design_spec" /\ RV!Routing["layout"] = "design_spec"
      /\ RV!Routing["color"] = "design_spec" /\ RV!Routing["scene"] = "production"
  BY DEF RV!Routing
<1>7. ASSUME NEW q \in routes PROVE RV!Routing[q] \in RV!Downstream(target)
  <2>1. RV!StageIndex(primary) <= RV!StageIndex(q)
    BY <1>4
  <2>2. CASE reviewer = "reference_validation"
    BY <1>2, <1>3, <1>5, <1>6, <2>1, <2>2, DownstreamOf, RouteIndices
  <2>3. CASE reviewer = "scene_purity"
    BY <1>2, <1>3, <1>5, <1>6, <2>3, DownstreamOf
  <2>4. CASE reviewer = "quality_review"
    BY <1>2, <1>3, <1>5, <1>6, <2>1, <2>4, DownstreamOf, RouteIndices
  <2>5. CASE reviewer = "design_review"
    BY <1>2, <1>3, <1>5, <1>6, <2>1, <2>5, DownstreamOf, RouteIndices
  <2>6. CASE reviewer = "vision_review"
    BY <1>2, <1>3, <1>5, <1>6, <2>1, <2>6, DownstreamOf, RouteIndices
  <2>7. CASE reviewer = "quality_scoring"
    BY <1>2, <1>3, <1>5, <1>6, <2>7, DownstreamOf
  <2> QED BY <1>2, <2>2, <2>3, <2>4, <2>5, <2>6, <2>7
<1>8. PICK instruction : instruction = RV!Instruction(findings, by, history, render)
  OBVIOUS
<1>9. /\ instruction.target = target /\ instruction.findings = RV!Range(findings)
      /\ instruction.keep = (RV!Preservable \ RV!Rewritten(target)) \ {RV!Change[r] : r \in routes}
  BY <1>1, <1>4, <1>5, <1>8 DEF RV!Instruction, RoutesOf
<1>10. ASSUME reviewer = "scene_purity" PROVE PR!PreservedOnRegeneration \subseteq instruction.keep
  <2>1. routes = {"scene"} /\ primary = "scene" /\ target = "production"
    BY <1>2, <1>3, <1>5, <1>6, <1>10
  <2>2. {RV!Change[r] : r \in routes} = {"generation_artifacts"}
    BY <2>1 DEF RV!Change
  <2>3. PR!PreservedOnRegeneration \subseteq RV!Preservable \ {"generation_artifacts"}
    BY DEF PR!PreservedOnRegeneration, RV!Preservable
  <2> QED BY <1>9, <2>1, <2>2, <2>3, ProductionKeeps
<1>11. \A f \in instruction.findings : f.route \in routes
  BY <1>1, <1>9 DEF RoutesOf
<1> QED BY <1>7, <1>8, <1>9, <1>10, <1>11 DEF Reaches

\* The last entry of a history says what the instruction says that was filed.
LEMMA FiledSays ==
    ASSUME NEW history, history \in Seq(RV!Range(history)), NEW findings, NEW by, NEW render,
           NEW reviewer, Reaches(reviewer, RV!Instruction(findings, by, history, render)),
           NEW filed, filed = RV!Filed(history, RV!Instruction(findings, by, history, render))
    PROVE  Reaches(reviewer, filed[Len(filed)])
<1>1. PICK instruction : instruction = RV!Instruction(findings, by, history, render)
  OBVIOUS
<1>2. {"findings", "target", "keep", "iteration"} \subseteq DOMAIN instruction
  BY <1>1 DEF RV!Instruction
<1>3. CASE RV!Filed(history, instruction) = Append(history, instruction)
  <2>1. PICK S : S = RV!Range(history) \cup {instruction}
    OBVIOUS
  <2>2. history \in Seq(S) /\ instruction \in S
    BY <2>1
  <2>3. Append(history, instruction)[Len(Append(history, instruction))] = instruction
    BY <2>2
  <2> QED BY <1>1, <1>3, <2>3
<1>4. CASE [history[Len(history)] EXCEPT !.iteration = instruction.iteration] = instruction
           /\ RV!Filed(history, instruction) = history
  <2>1. PICK last : last = history[Len(history)]
    OBVIOUS
  <2>2. PICK i : i = instruction.iteration
    OBVIOUS
  <2>3. [last EXCEPT !.iteration = i] = instruction
    BY <1>4, <2>1, <2>2
  <2>4. DOMAIN last = DOMAIN instruction
    BY <2>3
  <2>5. last.findings = instruction.findings /\ last.target = instruction.target
        /\ last.keep = instruction.keep
    BY <1>2, <2>3, <2>4
  <2> QED BY <1>1, <1>4, <2>1, <2>5 DEF Reaches
<1> QED BY <1>1, <1>3, <1>4 DEF RV!Filed

----------------------------------------------------------------------------
(* Means. *)

LEMMA EmptyFunction ==
    ASSUME NEW f, f = [i \in DOMAIN f |-> f[i]], DOMAIN f = {}
    PROVE  f = <<>>
<1>1. f \in [1 .. 0 -> {}]
  OBVIOUS
<1>2. f \in Seq({}) /\ Len(f) = 0
  BY <1>1, SeqDef, LenProperties
<1> QED BY <1>2, EmptySeq

\* The values of a tuple, and their sum.
LEMMA SumReaches ==
    ASSUME NEW v, Len(v) \in Nat \ {0}, NEW b \in Int, RV!SumUpTo(v)[Len(v)] \in Int,
           RV!SumUpTo(v)[Len(v)] >= Len(v) * b
    PROVE  RV!Average(v) \in Int /\ RV!Average(v) >= b
<1>1. PICK n, s : n = Len(v) /\ s = RV!SumUpTo(v)[n]
  OBVIOUS
<1>2. n \in Nat \ {0} /\ s \in Int /\ s >= n * b
  BY <1>1
<1>3. s \div n \in Int /\ s \div n >= b
  BY <1>2, QuotientReaches
<1>4. RV!Average(v) \in {s \div n, s \div n + 1}
  BY <1>1 DEF RV!Average
<1> QED BY <1>3, <1>4

LEMMA MeanOfPair ==
    ASSUME NEW x \in Int, NEW y \in Int, NEW b \in Int, x + y >= 2 * b
    PROVE  RV!Average(<<x, y>>) \in Int /\ RV!Average(<<x, y>>) >= b
<1>1. PICK v : v = <<x, y>>
  OBVIOUS
<1>2. Len(v) = 2 /\ v[1] = x /\ v[2] = y
  BY <1>1
<1>3. RV!SumUpTo(v)[2] = x + y
  <2>1. RV!SumUpTo(v)[0] = 0 /\ RV!SumUpTo(v)[1] = RV!SumUpTo(v)[0] + v[1]
        /\ RV!SumUpTo(v)[2] = RV!SumUpTo(v)[1] + v[2]
    BY <1>2, SumStarts
  <2> QED BY <1>2, <2>1
<1>4. Len(v) \in Nat \ {0} /\ RV!SumUpTo(v)[Len(v)] = x + y /\ Len(v) * b = 2 * b /\ x + y \in Int
  BY <1>2, <1>3
<1>5. RV!SumUpTo(v)[Len(v)] >= Len(v) * b /\ RV!SumUpTo(v)[Len(v)] \in Int
  BY <1>4
<1> QED BY <1>1, <1>4, <1>5, SumReaches

LEMMA MeanOfTwelve ==
    ASSUME NEW v, Len(v) = 12, \A i \in 1 .. 12 : v[i] \in Int, NEW b \in Int,
           v[1] + v[2] + v[3] + v[4] + v[5] + v[6] + v[7] + v[8] + v[9] + v[10] + v[11] + v[12] >= 12 * b
    PROVE  RV!Average(v) \in Int /\ RV!Average(v) >= b
<1>1. PICK sum : sum = RV!SumUpTo(v)
  OBVIOUS
<1>2. sum[0] = 0 /\ \A k \in 1 .. 12 : sum[k] = sum[k - 1] + v[k]
  <2>1. Len(v) \in Nat
    OBVIOUS
  <2>2. sum[0] = 0 /\ \A k \in 1 .. Len(v) : sum[k] = sum[k - 1] + v[k]
    BY <1>1, <2>1, SumStarts
  <2> QED BY <2>2
<1>3. /\ sum[1] = v[1] /\ sum[2] = sum[1] + v[2] /\ sum[3] = sum[2] + v[3] /\ sum[4] = sum[3] + v[4]
      /\ sum[5] = sum[4] + v[5] /\ sum[6] = sum[5] + v[6] /\ sum[7] = sum[6] + v[7]
      /\ sum[8] = sum[7] + v[8] /\ sum[9] = sum[8] + v[9] /\ sum[10] = sum[9] + v[10]
      /\ sum[11] = sum[10] + v[11] /\ sum[12] = sum[11] + v[12]
  BY <1>2
<1>4. /\ v[1] \in Int /\ v[2] \in Int /\ v[3] \in Int /\ v[4] \in Int /\ v[5] \in Int /\ v[6] \in Int
      /\ v[7] \in Int /\ v[8] \in Int /\ v[9] \in Int /\ v[10] \in Int /\ v[11] \in Int /\ v[12] \in Int
  OBVIOUS
<1>5. sum[12] = v[1] + v[2] + v[3] + v[4] + v[5] + v[6] + v[7] + v[8] + v[9] + v[10] + v[11] + v[12]
  BY ONLY <1>3, <1>4
<1>6. sum[12] \in Int
  BY ONLY <1>4, <1>5
<1>7. Len(v) \in Nat \ {0} /\ Len(v) * b = 12 * b
  OBVIOUS
<1>8. RV!SumUpTo(v)[Len(v)] >= Len(v) * b /\ RV!SumUpTo(v)[Len(v)] \in Int
  BY <1>1, <1>5, <1>6, <1>7
<1> QED BY <1>7, <1>8, SumReaches

----------------------------------------------------------------------------
(* Reports without findings. *)

\* What a report that passes says, of each critic.
Clear(critic, facts) ==
    CASE critic = "quality_review" -> \A d \in RV!Range(RV!MarketingDimensions) : facts[d] \in 8 .. 10
      [] critic = "design_review" -> \A d \in RV!Range(RV!DesignDimensions) : facts[d] = "none"
      [] OTHER -> RV!Range(facts) = {}

LEMMA NothingChosen ==
    ASSUME NEW x, x \in Seq(RV!Range(x)), NEW wanted, DOMAIN RV!Chosen(x, wanted) = {}
    PROVE  RV!Range(x) \cap wanted = {}
<1>1. RV!Range(RV!Chosen(x, wanted)) = RV!Range(x) \cap wanted
  BY ChosenIsWanted
<1> QED BY <1>1 DEF RV!Range

LEMMA MarketingClears ==
    ASSUME NEW p, NEW x, x \in Seq(RV!Range(x)), ~ RV!MarketingUnusable(x), RV!MarketingFindingsOf(x) = <<>>
    PROVE  Clear("quality_review", RV!MarketingReport(p, x).facts)
<1>1. PICK weak : weak = RV!Chosen(x, {r \in RV!Range(x) : r.score < RV!MarketingPassScore})
  OBVIOUS
<1>2. DOMAIN weak = {}
  BY <1>1 DEF RV!MarketingFindingsOf
<1>3. \A r \in RV!Range(x) : r.score \in 1 .. 10 /\ ~ (r.score < 8)
  BY <1>1, <1>2, NothingChosen DEF RV!MarketingUnusable, RV!MarketingPassScore
<1>4. ASSUME NEW d \in RV!Range(RV!MarketingDimensions) PROVE RV!By(x, d).score \in 8 .. 10
  <2>1. RV!By(x, d) \in RV!Range(x)
    BY DEF RV!MarketingUnusable, RV!Covers, RV!By
  <2>2. PICK r : r = RV!By(x, d)
    OBVIOUS
  <2> QED BY <1>3, <2>1, <2>2
<1> QED BY <1>4 DEF Clear, RV!MarketingReport, RV!Report

LEMMA DesignClears ==
    ASSUME NEW p, NEW x, x \in Seq(RV!Range(x)), ~ RV!DesignUnusable(x), RV!DesignFindingsOf(x) = <<>>
    PROVE  Clear("design_review", RV!DesignReport(p, x).facts)
<1>1. PICK failed : failed = RV!Chosen(x, {c \in RV!Range(x) : ~ RV!Passed(c)})
  OBVIOUS
<1>2. DOMAIN failed = {}
  BY <1>1 DEF RV!DesignFindingsOf
<1>3. \A c \in RV!Range(x) : c.severity = "none"
  BY <1>1, <1>2, NothingChosen DEF RV!Passed
<1>4. ASSUME NEW d \in RV!Range(RV!DesignDimensions) PROVE RV!By(x, d).severity = "none"
  <2>1. RV!By(x, d) \in RV!Range(x)
    BY DEF RV!DesignUnusable, RV!Covers, RV!By
  <2> QED BY <1>3, <2>1
<1> QED BY <1>4 DEF Clear, RV!DesignReport, RV!Report

LEMMA VisionClears ==
    ASSUME NEW p, NEW x, RV!VisionFindingsOf(x) = <<>>
    PROVE  Clear("vision_review", RV!VisionReport(p, x).facts)
<1>1. DOMAIN x.issues = {}
  BY DEF RV!VisionFindingsOf
<1> QED BY <1>1 DEF Clear, RV!VisionReport, RV!Report, RV!Range

----------------------------------------------------------------------------
(* The scores of a render that every critic passed. *)

Cleared(idea) == idea \in [CD!Dimensions -> 1 .. 10] /\ CD!GateFailures([scores |-> idea]) = {}

LEMMA ClearedScores ==
    ASSUME NEW idea, Cleared(idea), NEW d \in CD!Dimensions
    PROVE  idea[d] \in 8 .. 10
<1>1. CD!QualityThresholds[d] \in {8, 9, 10}
  BY DEF CD!Dimensions, CD!QualityThresholds
<1>2. ~ (idea[d] < CD!QualityThresholds[d])
  BY DEF Cleared, CD!GateFailures
<1>3. idea[d] \in 1 .. 10
  BY DEF Cleared
<1>4. PICK n, m : n = idea[d] /\ m = CD!QualityThresholds[d]
  OBVIOUS
<1> QED BY <1>1, <1>2, <1>3, <1>4

IdeaDimensions ==
    {"strategy_fit", "audience_fit", "brand_fit", "originality", "clarity", "visual_potential",
     "platform_fit", "territory_differentiation"}

LEMMA IdeaIsScored == IdeaDimensions \subseteq CD!Dimensions
<1>1. CD!Range(CD!SelectionDimensions) =
        {"strategy_fit", "audience_fit", "brand_fit", "originality", "clarity",
         "visual_potential", "platform_fit", "production_feasibility"}
  BY DEF CD!SelectionDimensions, CD!Range
<1> QED BY <1>1 DEF IdeaDimensions, CD!Dimensions, CD!QualityThresholds

LEMMA PerceptionClear ==
    ASSUME NEW issues, RV!Range(issues) = {}, NEW dimensions
    PROVE  RV!Perception(issues, dimensions) = 1000
<1>1. {RV!SeverityScore[i.severity] : i \in {i \in RV!Range(issues) : i.dimension \in dimensions}} = {}
  OBVIOUS
<1> QED BY <1>1 DEF RV!Perception

\* Every score is above the lower minimum, and those of the design well above.
ScoredHigh(raw) ==
    /\ \A d \in RV!Range(RV!QualityDimensions) : raw[d] \in Int /\ raw[d] >= 800
    /\ raw.brand_fit >= 900
    /\ \A d \in {"composition", "visual_hierarchy", "typography", "color", "product_fidelity",
                 "overall_polish"} : raw[d] >= 1000

LEMMA ScoresOfCleared ==
    ASSUME NEW marketing, NEW design, NEW issues, NEW idea, Clear("quality_review", marketing),
           Clear("design_review", design), Clear("vision_review", issues), Cleared(idea)
    PROVE  ScoredHigh(RV!RawScores(marketing, design, issues, idea, TRUE))
<1>1. PICK raw : raw = RV!RawScores(marketing, design, issues, idea, TRUE)
  OBVIOUS
<1>2. \A d \in IdeaDimensions : 100 * idea[d] \in Int /\ 100 * idea[d] >= 800
  <2> TAKE d \in IdeaDimensions
  <2>1. PICK n : n = idea[d]
    OBVIOUS
  <2>2. n \in 8 .. 10
    BY <2>1, IdeaIsScored, ClearedScores
  <2> QED BY <2>1, <2>2
<1>3. RV!Range(RV!MarketingDimensions) =
        {"objective_alignment", "audience_relevance", "positioning", "message_clarity",
         "usp_value_proposition", "single_minded_message", "cta", "strategy_consistency"}
  BY DEF RV!MarketingDimensions, RV!Range
<1>4. ASSUME NEW d \in RV!Range(RV!MarketingDimensions)
      PROVE  100 * marketing[d] \in Int /\ 100 * marketing[d] >= 800
  <2>1. PICK n : n = marketing[d]
    OBVIOUS
  <2>2. n \in 8 .. 10
    BY <2>1 DEF Clear
  <2> QED BY <2>1, <2>2
<1>5. RV!Range(RV!DesignDimensions) =
        {"composition", "hierarchy", "typography", "spacing", "alignment", "color", "contrast",
         "balance", "focal_point", "negative_space", "brand_consistency", "product_dominance",
         "creativity", "platform_fit", "mobile_readability", "polish"}
  BY DEF RV!DesignDimensions, RV!Range
<1>6. ASSUME NEW d \in RV!Range(RV!DesignDimensions) PROVE RV!SeverityScore[design[d]] = 1000
  <2>1. design[d] = "none"
    BY DEF Clear
  <2> QED BY <2>1 DEF RV!SeverityScore
<1>7. RV!Range(issues) = {}
  BY DEF Clear
<1>8. \A dimensions : RV!Perception(issues, dimensions) = 1000
  BY <1>7, PerceptionClear
<1>9. RV!Lower(1000, 1000) = 1000
  BY DEF RV!Lower
<1>10. raw.marketing_effectiveness \in Int /\ raw.marketing_effectiveness >= 800
  <2>1. PICK a, b, c, d, e : /\ a = 100 * marketing["objective_alignment"] /\ b = 100 * marketing["positioning"]
                             /\ c = 100 * marketing["message_clarity"]
                             /\ d = 100 * marketing["usp_value_proposition"] /\ e = 100 * marketing["cta"]
    OBVIOUS
  <2>2. /\ a \in Int /\ a >= 800 /\ b \in Int /\ b >= 800 /\ c \in Int /\ c >= 800
        /\ d \in Int /\ d >= 800 /\ e \in Int /\ e >= 800
    BY <1>3, <1>4, <2>1
  <2>3. raw.marketing_effectiveness = RV!Average(<<a, b, c, d, e>>)
    BY <1>1, <2>1 DEF RV!RawScores
  <2>4. PICK v : v = <<a, b, c, d, e>>
    OBVIOUS
  <2>0. PICK least \in Int : least = 800
    OBVIOUS
  <2>5. Len(v) \in Nat \ {0} /\ \A i \in 1 .. Len(v) : v[i] \in Int /\ v[i] >= least
    BY <2>0, <2>2, <2>4
  <2>9. RV!Average(v) \in Int /\ RV!Average(v) >= least
    BY <2>5, AverageIsAtLeast
  <2> QED BY <2>0, <2>3, <2>4, <2>9
<1>11. raw.creative_concept \in Int /\ raw.creative_concept >= 800
  <2>1. PICK a, b, c : a = 100 * idea["strategy_fit"] /\ b = 100 * idea["clarity"] /\ c = 100 * idea["visual_potential"]
    OBVIOUS
  <2>2. a \in Int /\ a >= 800 /\ b \in Int /\ b >= 800 /\ c \in Int /\ c >= 800
    BY <1>2, <2>1 DEF IdeaDimensions
  <2>3. raw.creative_concept = RV!Average(<<a, b, c>>)
    BY <1>1, <2>1 DEF RV!RawScores
  <2>4. PICK v : v = <<a, b, c>>
    OBVIOUS
  <2>0. PICK least \in Int : least = 800
    OBVIOUS
  <2>5. Len(v) \in Nat \ {0} /\ \A i \in 1 .. Len(v) : v[i] \in Int /\ v[i] >= least
    BY <2>0, <2>2, <2>4
  <2>9. RV!Average(v) \in Int /\ RV!Average(v) >= least
    BY <2>5, AverageIsAtLeast
  <2> QED BY <2>0, <2>3, <2>4, <2>9
<1>12. raw.brand_fit \in Int /\ raw.brand_fit >= 900
  <2>1. PICK a : a = 100 * idea["brand_fit"]
    OBVIOUS
  <2>2. a \in Int /\ a >= 800
    BY <1>2, <2>1 DEF IdeaDimensions
  <2>3. RV!SeverityScore[design["brand_consistency"]] = 1000
    BY <1>5, <1>6
  <2>4. raw.brand_fit = RV!Average(<<a, RV!SeverityScore[design["brand_consistency"]]>>)
    BY <1>1, <2>1 DEF RV!RawScores
  <2> QED BY <2>2, <2>3, <2>4, MeanOfPair
<1>13. raw.audience_fit \in Int /\ raw.audience_fit >= 800
  <2>1. PICK a, b : a = 100 * idea["audience_fit"] /\ b = 100 * marketing["audience_relevance"]
    OBVIOUS
  <2>2. a \in Int /\ a >= 800
    BY <1>2, <2>1 DEF IdeaDimensions
  <2>3. b \in Int /\ b >= 800
    BY <1>3, <1>4, <2>1
  <2>4. raw.audience_fit = RV!Average(<<a, b>>)
    BY <1>1, <2>1 DEF RV!RawScores
  <2> QED BY <2>2, <2>3, <2>4, MeanOfPair
<1>14. raw.platform_fit \in Int /\ raw.platform_fit >= 800
  <2>1. PICK a : a = 100 * idea["platform_fit"]
    OBVIOUS
  <2>2. a \in Int /\ a >= 800
    BY <1>2, <2>1 DEF IdeaDimensions
  <2>3. RV!SeverityScore[design["platform_fit"]] = 1000 /\ RV!SeverityScore[design["mobile_readability"]] = 1000
    BY <1>5, <1>6
  <2>4. raw.platform_fit = RV!Average(<<a, RV!SeverityScore[design["platform_fit"]],
                                        RV!SeverityScore[design["mobile_readability"]]>>)
    BY <1>1, <2>1 DEF RV!RawScores
  <2>5. PICK v : v = <<a, 1000, 1000>>
    BY Zenon
  <2>0. PICK least \in Int : least = 800
    OBVIOUS
  <2>6. Len(v) \in Nat \ {0} /\ \A i \in 1 .. Len(v) : v[i] \in Int /\ v[i] >= least
    BY <2>0, <2>2, <2>5
  <2>9. RV!Average(v) \in Int /\ RV!Average(v) >= least
    BY <2>6, AverageIsAtLeast
  <2> QED BY <2>0, <2>3, <2>4, <2>5, <2>9
<1>15. raw.differentiation \in Int /\ raw.differentiation >= 800
  <2>1. PICK a, b : a = 100 * idea["originality"] /\ b = 100 * idea["territory_differentiation"]
    OBVIOUS
  <2>2. a \in Int /\ a >= 800 /\ b \in Int /\ b >= 800
    BY <1>2, <2>1 DEF IdeaDimensions
  <2>3. raw.differentiation = RV!Average(<<a, b>>)
    BY <1>1, <2>1 DEF RV!RawScores
  <2> QED BY <2>2, <2>3, MeanOfPair
<1>16. raw.overall_polish \in Int /\ raw.overall_polish >= 1000
  <2> DEFINE v == <<1000, 1000, 1000, 1000, 1000, 1000, 1000, 1000>>
  <2>0. PICK least \in Int : least = 1000
    OBVIOUS
  <2>2. Len(v) \in Nat \ {0} /\ \A i \in 1 .. Len(v) : v[i] \in Int /\ v[i] >= least
    <3>1. /\ Len(v) = 8 /\ v[1] = 1000 /\ v[2] = 1000 /\ v[3] = 1000 /\ v[4] = 1000 /\ v[5] = 1000
          /\ v[6] = 1000 /\ v[7] = 1000 /\ v[8] = 1000
      OBVIOUS
    <3> HIDE DEF v
    <3>2. \A i \in 1 .. 8 : i \in {1, 2, 3, 4, 5, 6, 7, 8}
      OBVIOUS
    <3> QED BY ONLY <2>0, <3>1, <3>2
  <2>3. /\ RV!SeverityScore[design["polish"]] = 1000 /\ RV!SeverityScore[design["spacing"]] = 1000
        /\ RV!SeverityScore[design["alignment"]] = 1000 /\ RV!SeverityScore[design["contrast"]] = 1000
        /\ RV!SeverityScore[design["balance"]] = 1000 /\ RV!SeverityScore[design["focal_point"]] = 1000
        /\ RV!SeverityScore[design["negative_space"]] = 1000
    BY <1>5, <1>6
  <2>4. raw.overall_polish = RV!Average(v)
    BY <1>1, <1>8, <2>3 DEF RV!RawScores
  <2> HIDE DEF v
  <2> QED BY <2>0, <2>2, <2>4, AverageIsAtLeast
<1>17. /\ raw.composition = 1000 /\ raw.visual_hierarchy = 1000 /\ raw.typography = 1000
       /\ raw.color = 1000 /\ raw.product_fidelity = 1000
  <2>1. /\ RV!SeverityScore[design["composition"]] = 1000 /\ RV!SeverityScore[design["hierarchy"]] = 1000
        /\ RV!SeverityScore[design["typography"]] = 1000 /\ RV!SeverityScore[design["color"]] = 1000
    BY <1>5, <1>6
  <2> QED BY <1>1, <1>8, <1>9, <2>1 DEF RV!RawScores
<1>18. RV!Range(RV!QualityDimensions) =
         {"marketing_effectiveness", "creative_concept", "composition", "visual_hierarchy", "typography",
          "color", "brand_fit", "product_fidelity", "audience_fit", "platform_fit", "differentiation",
          "overall_polish"}
  BY DEF RV!QualityDimensions, RV!Range
<1>19. \A d \in RV!Range(RV!QualityDimensions) : raw[d] \in Int /\ raw[d] >= 800
  BY <1>10, <1>11, <1>12, <1>13, <1>14, <1>15, <1>16, <1>17, <1>18
<1>20. \A d \in {"composition", "visual_hierarchy", "typography", "color", "product_fidelity",
                 "overall_polish"} : raw[d] >= 1000
  BY <1>16, <1>17
<1>21. ScoredHigh(raw)
  BY <1>12, <1>19, <1>20 DEF ScoredHigh
<1> QED BY <1>1, <1>21

----------------------------------------------------------------------------
(* The scoring of what passed. *)

\* What the scoring can hold against a render that every critic passed.
Reworded == {"marketing_effectiveness", "audience_fit"}

\* A list of findings, none of which leads elsewhere.
Lists(findings, routes) ==
    /\ findings = [i \in DOMAIN findings |-> findings[i]] /\ RoutesOf(findings) \subseteq routes

LEMMA ScoringLists ==
    ASSUME NEW failed, failed \subseteq Reworded, failed # {}
    PROVE  Lists(RV!ScoringFindingsOf(failed), {"strategy"}) /\ RV!ScoringFindingsOf(failed) # <<>>
<1>1. PICK chosen : chosen = RV!Chosen(RV!QualityDimensions, failed)
  OBVIOUS
<1>2. RV!QualityDimensions \in Seq(RV!Range(RV!QualityDimensions))
  <2>1. PICK q : q = RV!QualityDimensions
    OBVIOUS
  <2>2. DOMAIN q = 1 .. 12 /\ q = [i \in 1 .. 12 |-> q[i]]
    BY <2>1 DEF RV!QualityDimensions
  <2>3. q \in [1 .. 12 -> RV!Range(q)]
    BY <2>2 DEF RV!Range
  <2> QED BY <2>1, <2>3, SeqDef
<1>3. RV!Range(chosen) = RV!Range(RV!QualityDimensions) \cap failed
  BY <1>1, <1>2, ChosenIsWanted
<1>4. Reworded \subseteq RV!Range(RV!QualityDimensions)
  <2>1. RV!QualityDimensions[1] = "marketing_effectiveness" /\ RV!QualityDimensions[9] = "audience_fit"
        /\ DOMAIN RV!QualityDimensions = 1 .. 12
    BY DEF RV!QualityDimensions
  <2> QED BY <2>1 DEF Reworded, RV!Range
<1>5. RV!Range(chosen) = failed
  BY <1>3, <1>4
<1>6. PICK findings : findings = RV!ScoringFindingsOf(failed)
  OBVIOUS
<1>7. findings = [i \in DOMAIN chosen |-> RV!Finding(RV!ScoringRoute(chosen[i]), chosen[i], 0)]
  BY <1>1, <1>6 DEF RV!ScoringFindingsOf
<1>8. ASSUME NEW i \in DOMAIN chosen PROVE findings[i].route = "strategy"
  <2>1. PICK d : d = chosen[i]
    OBVIOUS
  <2>2. d \in Reworded
    BY <1>5, <2>1 DEF RV!Range
  <2>3. RV!ScoringRoute(d) = "strategy"
    BY <2>2 DEF Reworded, RV!ScoringRoute, RV!Regenerate
  <2> QED BY <1>7, <2>1, <2>3 DEF RV!Finding
<1>9. DOMAIN chosen # {}
  BY <1>5 DEF RV!Range
<1>10. RoutesOf(findings) \subseteq {"strategy"}
  BY <1>7, <1>8 DEF RoutesOf, RV!Range
<1>11. findings # <<>>
  BY <1>7, <1>9
<1> QED BY <1>6, <1>7, <1>10, <1>11 DEF Lists

\* What the critics reported before an agent works.
Before ==
    [verification |-> {}, quality_review |-> {}, design_review |-> {"quality_review"},
     vision_review |-> {"quality_review", "design_review"}, quality_scoring |-> Critics]

Passed(p, a) ==
    /\ {"idea", "reports", "history", "draft"} \subseteq DOMAIN p /\ Cleared(p.idea)
    /\ a # "verification" => /\ "verification" \in DOMAIN p.reports
                             /\ p.reports["verification"].decision = "PASS"
                             /\ p.reports["verification"].failed = {}
    /\ \A r \in Before[a] : r \in DOMAIN p.reports /\ Clear(r, p.reports[r].facts)

LEMMA ApprovedOrReworded ==
    ASSUME NEW p, Passed(p, "quality_scoring"), NEW report, report = RV!QualityApproval(p)
    PROVE  /\ report.failed \subseteq Reworded
           /\ report.decision = IF report.failed = {} THEN "PASS" ELSE "MUTATE"
           /\ report.findings = IF report.failed = {} THEN <<>> ELSE RV!ScoringFindingsOf(report.failed)
<1>1. PICK raw : raw = RV!RawScores(p.reports["quality_review"].facts, p.reports["design_review"].facts,
                                    p.reports["vision_review"].facts, p.idea, TRUE)
  OBVIOUS
<1>2. /\ Clear("quality_review", p.reports["quality_review"].facts)
      /\ Clear("design_review", p.reports["design_review"].facts)
      /\ Clear("vision_review", p.reports["vision_review"].facts) /\ Cleared(p.idea)
      /\ p.reports["verification"].decision = "PASS" /\ p.reports["verification"].failed = {}
  BY DEF Passed, Before, Critics
<1>3. ScoredHigh(raw)
  BY <1>1, <1>2, ScoresOfCleared
<1>4. PICK failed : failed = {d \in RV!Range(RV!QualityDimensions) : raw[d] < RV!Threshold(d)}
  OBVIOUS
<1>5. PICK v : v = [i \in DOMAIN RV!QualityDimensions |-> raw[RV!QualityDimensions[i]]]
  OBVIOUS
<1>6. PICK overall : overall = RV!Average(v)
  OBVIOUS
<1>7. /\ report.failed = failed /\ report.decision = RV!Approval(overall, failed, {})
      /\ report.findings = IF report.decision \in {"PASS", "REJECT"} THEN <<>> ELSE RV!ScoringFindingsOf(failed)
  <2>1. RV!RawScores(p.reports["quality_review"].facts, p.reports["design_review"].facts,
                     p.reports["vision_review"].facts, p.idea, p.reports["verification"].decision = "PASS") = raw
    BY <1>1, <1>2
  <2> QED BY <1>2, <1>4, <1>5, <1>6, <2>1 DEF RV!QualityApproval
<1>8. RV!Range(RV!QualityDimensions) =
        {"marketing_effectiveness", "creative_concept", "composition", "visual_hierarchy", "typography",
         "color", "brand_fit", "product_fidelity", "audience_fit", "platform_fit", "differentiation",
         "overall_polish"}
  BY DEF RV!QualityDimensions, RV!Range
<1>9. failed \subseteq Reworded
  <2>1. ASSUME NEW d \in RV!Range(RV!QualityDimensions) \ Reworded PROVE raw[d] >= RV!Threshold(d) /\ raw[d] \in Int
    <3>1. raw[d] \in Int /\ raw[d] >= 800
      BY <1>3 DEF ScoredHigh
    <3>2. CASE d \in {"brand_fit", "product_fidelity"}
      <4>1. raw[d] >= 900
        <5>1. raw["brand_fit"] >= 900 /\ raw["product_fidelity"] >= 1000 /\ raw["product_fidelity"] \in Int
          BY <1>3, <1>8 DEF ScoredHigh
        <5> QED BY <3>2, <5>1
      <4> QED BY <3>1, <4>1 DEF RV!Threshold
    <3>3. CASE d \notin {"brand_fit", "product_fidelity"}
      <4>1. RV!Threshold(d) = 800
        BY <3>3 DEF RV!Threshold, RV!CriticalDimensions, Reworded
      <4> QED BY <3>1, <4>1
    <3> QED BY <3>2, <3>3
  <2>2. \A d : RV!Threshold(d) \in Int
    BY DEF RV!Threshold
  <2>3. ASSUME NEW d \in failed, d \notin Reworded PROVE FALSE
    <3>1. PICK x, y : x = raw[d] /\ y = RV!Threshold(d)
      OBVIOUS
    <3>2. x \in Int /\ y \in Int /\ x < y
      BY <1>4, <2>1, <2>2, <2>3, <3>1
    <3>3. x >= y
      BY <1>4, <2>1, <2>3, <3>1
    <3> QED BY ONLY <3>2, <3>3
  <2> QED BY <2>3
<1>10. overall \in Int /\ overall >= 900
  <2>1. /\ DOMAIN RV!QualityDimensions = 1 .. 12 /\ RV!QualityDimensions[1] = "marketing_effectiveness"
        /\ RV!QualityDimensions[2] = "creative_concept" /\ RV!QualityDimensions[3] = "composition"
        /\ RV!QualityDimensions[4] = "visual_hierarchy" /\ RV!QualityDimensions[5] = "typography"
        /\ RV!QualityDimensions[6] = "color" /\ RV!QualityDimensions[7] = "brand_fit"
        /\ RV!QualityDimensions[8] = "product_fidelity" /\ RV!QualityDimensions[9] = "audience_fit"
        /\ RV!QualityDimensions[10] = "platform_fit" /\ RV!QualityDimensions[11] = "differentiation"
        /\ RV!QualityDimensions[12] = "overall_polish"
    BY DEF RV!QualityDimensions
  <2>2. \A i \in 1 .. 12 : v[i] = raw[RV!QualityDimensions[i]] /\ RV!QualityDimensions[i] \in RV!Range(RV!QualityDimensions)
    BY <1>5, <2>1 DEF RV!Range
  <2>3. \A i \in 1 .. 12 : v[i] \in Int /\ v[i] >= 800
    BY <1>3, <2>2 DEF ScoredHigh
  <2>4. v[3] >= 1000 /\ v[4] >= 1000 /\ v[5] >= 1000 /\ v[6] >= 1000 /\ v[7] >= 900 /\ v[8] >= 1000 /\ v[12] >= 1000
    BY <1>3, <2>1, <2>2 DEF ScoredHigh
  <2>5. Len(v) = 12
    <3>1. v \in [1 .. 12 -> Int]
      BY <1>5, <2>1, <2>3
    <3>2. v \in Seq(Int)
      BY <3>1, SeqDef
    <3> QED BY <3>1, <3>2, LenProperties
  <2>6. v[1] + v[2] + v[3] + v[4] + v[5] + v[6] + v[7] + v[8] + v[9] + v[10] + v[11] + v[12] >= 12 * 900
    <3>1. /\ v[1] \in Int /\ v[2] \in Int /\ v[3] \in Int /\ v[4] \in Int /\ v[5] \in Int /\ v[6] \in Int
          /\ v[7] \in Int /\ v[8] \in Int /\ v[9] \in Int /\ v[10] \in Int /\ v[11] \in Int /\ v[12] \in Int
          /\ v[1] >= 800 /\ v[2] >= 800 /\ v[9] >= 800 /\ v[10] >= 800 /\ v[11] >= 800
      BY <2>3
    <3> QED BY ONLY <2>4, <3>1
  <2>7. PICK least \in Int : least = 900
    OBVIOUS
  <2>8. RV!Average(v) \in Int /\ RV!Average(v) >= least
    BY <2>3, <2>5, <2>6, <2>7, MeanOfTwelve
  <2> QED BY <1>6, <2>7, <2>8
<1>11. RV!Approval(overall, failed, {}) = IF failed = {} THEN "PASS" ELSE "MUTATE"
  <2>1. overall >= RV!OverallMinimum
    BY <1>10 DEF RV!OverallMinimum
  <2>2. failed \cap RV!Regenerate = {} /\ failed \cap RV!Recompose = {}
    BY <1>9 DEF Reworded, RV!Regenerate, RV!Recompose
  <2> QED BY <2>1, <2>2 DEF RV!Approval
<1> QED BY <1>7, <1>9, <1>11

\* What the other reviewers find leads where it may.
LEMMA ReferenceLists ==
    ASSUME NEW p, NEW x, NEW report, report = OR!ReferenceReport(p, x)
    PROVE  /\ Lists(report.findings, Found["reference_validation"]) /\ report.history = p.history
           /\ {"history", "findings", "decision"} \subseteq DOMAIN report
           /\ report.findings = <<>> => report.decision = "PASS"
<1>1. Found["reference_validation"] = {"strategy", "layout", "concept"}
  BY DEF Found, RV!Findings, RV!ReferenceFindings
<1>2. \A d : OR!ReferenceRoute(d) \in {"strategy", "layout", "concept"}
  BY DEF OR!ReferenceRoute
<1>3. PICK failed : report.findings = [i \in DOMAIN failed |->
                        [route |-> OR!ReferenceRoute(failed[i]), source |-> failed[i], chars |-> 0]]
  BY DEF OR!ReferenceReport
<1>4. Lists(report.findings, Found["reference_validation"])
  BY <1>1, <1>2, <1>3 DEF Lists, RoutesOf, RV!Range
<1> QED BY <1>4 DEF OR!ReferenceReport

LEMMA PurityLists ==
    ASSUME NEW p, NEW x, NEW report, report = PR!PurityReport(p, x)
    PROVE  /\ Lists(report.findings, Found["scene_purity"]) /\ report.history = p.history
           /\ {"history", "findings", "decision"} \subseteq DOMAIN report
           /\ report.findings = <<>> => report.decision = "PASS"
<1>1. Found["scene_purity"] = {"scene"}
  BY DEF Found, RV!Findings, RV!SceneFindings
<1>2. PICK found : report.findings = [i \in DOMAIN found |-> [route |-> "scene", source |-> found[i], chars |-> 0]]
  BY DEF PR!PurityReport
<1>3. Lists(report.findings, Found["scene_purity"])
  BY <1>1, <1>2 DEF Lists, RoutesOf, RV!Range
<1> QED BY <1>3 DEF PR!PurityReport

LEMMA CriticLists ==
    ASSUME NEW x
    PROVE  /\ Lists(RV!MarketingFindingsOf(x), Found["quality_review"])
           /\ Lists(RV!DesignFindingsOf(x), Found["design_review"])
           /\ Lists(RV!VisionFindingsOf(x), Found["vision_review"])
<1>1. /\ Found["quality_review"] = {"copy", "strategy"}
      /\ Found["design_review"] = {"concept", "typography", "color", "layout"}
      /\ Found["vision_review"] = {"product", "scene", "typography", "layout"}
  BY DEF Found, RV!Findings, RV!MarketingFindings, RV!DesignFindings, RV!VisionFindings
<1>2. \A d : RV!DesignRoute(d) \in {"concept", "typography", "color", "layout"}
  BY DEF RV!DesignRoute
<1>3. \A d : RV!VisionRoute(d) \in {"product", "scene", "typography", "layout"}
  BY DEF RV!VisionRoute
<1>4. Lists(RV!MarketingFindingsOf(x), Found["quality_review"])
  <2>1. PICK weak : weak = RV!Chosen(x, {r \in RV!Range(x) : r.score < RV!MarketingPassScore})
    OBVIOUS
  <2>2. RV!MarketingFindingsOf(x) = [i \in DOMAIN weak |->
           RV!Finding(IF weak[i].dimension \in RV!CopyDimensions THEN "copy" ELSE "strategy",
                      weak[i].dimension, 0)]
    BY <2>1 DEF RV!MarketingFindingsOf
  <2> QED BY <1>1, <2>2 DEF Lists, RoutesOf, RV!Range, RV!Finding
<1>5. Lists(RV!DesignFindingsOf(x), Found["design_review"])
  <2>1. PICK failed : failed = RV!Chosen(x, {c \in RV!Range(x) : ~ RV!Passed(c)})
    OBVIOUS
  <2>2. RV!DesignFindingsOf(x) = [i \in DOMAIN failed |->
           RV!Finding(RV!DesignRoute(failed[i].dimension), failed[i].dimension, 0)]
    BY <2>1 DEF RV!DesignFindingsOf
  <2> QED BY <1>1, <1>2, <2>2 DEF Lists, RoutesOf, RV!Range, RV!Finding
<1>6. Lists(RV!VisionFindingsOf(x), Found["vision_review"])
  <2>1. PICK issues : issues = x.issues
    OBVIOUS
  <2>2. RV!VisionFindingsOf(x) = [i \in DOMAIN issues |->
           RV!Finding(RV!VisionRoute(issues[i].dimension), issues[i].dimension, issues[i].chars + RV!ObservedChars)]
    BY <2>1 DEF RV!VisionFindingsOf
  <2> QED BY <1>1, <1>3, <2>2 DEF Lists, RoutesOf, RV!Range, RV!Finding
<1> QED BY <1>4, <1>5, <1>6

----------------------------------------------------------------------------
(* One review after another. *)

Reviewed == {"verification", "quality_scoring"} \cup Critics
Planned == {"generation_planning", "production", "scene_purity"}
Recorded == {"reference_validation"} \cup Planned \cup Reviewed

IsList(history) == history \in Seq(RV!Range(history))

\* The history of a post is a list.
HistoryListed ==
    agent \in Recorded =>
        /\ "history" \in DOMAIN input /\ IsList(input.history)
        /\ agent = "scene_purity" /\ status = "done" => IsList(output.history)

\* What a critic sees has passed those before it, and passed is who found nothing.
ReportsPassed ==
    agent \in Reviewed =>
        /\ Passed(input, agent)
        /\ status = "done" /\ output.decision = "PASS" =>
             /\ agent = "verification" => output.failed = {}
             /\ agent \in Critics => Clear(agent, output.facts)

FindingsInv == HistoryListed /\ ReportsPassed /\ FindingsAreActedOn

LEMMA Reviewers ==
    /\ DOMAIN RV!Findings = {"reference_validation", "scene_purity", "quality_scoring"} \cup Critics
    /\ DOMAIN RV!Findings \subseteq Recorded
BY DEF RV!Findings, Critics, Recorded, Planned, Reviewed

LEMMA NotRecorded == ASSUME agent' \notin Recorded PROVE FindingsInv'
BY Reviewers DEF FindingsInv, HistoryListed, ReportsPassed, FindingsAreActedOn, ScoredIsApprovedOrReworded,
   RevisionReachesOwners, Done, Recorded, Reviewed

LEMMA NoFindings ==
    ASSUME FindingsInv, agent' = agent, input' = input, status' # "done"
    PROVE  FindingsInv'
BY DEF FindingsInv, HistoryListed, ReportsPassed, FindingsAreActedOn, ScoredIsApprovedOrReworded,
   RevisionReachesOwners, Done

\* A history stays a list when an instruction is filed, and when it is settled.
LEMMA FiledIsList ==
    ASSUME NEW history, IsList(history), NEW instruction
    PROVE  IsList(RV!Filed(history, instruction))
<1>1. CASE RV!Filed(history, instruction) = history
  BY <1>1
<1>2. CASE RV!Filed(history, instruction) = Append(history, instruction)
  <2>1. PICK S : S = RV!Range(history) \cup {instruction}
    OBVIOUS
  <2>2. history \in Seq(S) /\ instruction \in S
    BY <2>1 DEF IsList
  <2>3. PICK h : h = Append(history, instruction)
    OBVIOUS
  <2>4. h \in Seq(S)
    BY <2>2, <2>3
  <2>5. PICK n \in Nat : n = Len(h)
    BY <2>4
  <2>6. h \in [1 .. n -> RV!Range(h)]
    BY <2>4, <2>5 DEF RV!Range
  <2>7. h \in Seq(RV!Range(h))
    BY <2>5, <2>6, SeqDef
  <2> QED BY <1>2, <2>3, <2>7 DEF IsList
<1> QED BY <1>1, <1>2 DEF RV!Filed

LEMMA SettledIsList ==
    ASSUME NEW history, IsList(history)
    PROVE  IsList(RV!Settled(history))
<1>1. PICK h : h = RV!Settled(history)
  OBVIOUS
<1>2. DOMAIN h = 1 .. Len(history) /\ Len(history) \in Nat
  BY <1>1 DEF RV!Settled, IsList
<1>3. h = [i \in 1 .. Len(history) |-> h[i]]
  BY <1>1, <1>2 DEF RV!Settled
<1>4. h \in [1 .. Len(history) -> RV!Range(h)]
  BY <1>2, <1>3 DEF RV!Range
<1>5. h \in Seq(RV!Range(h))
  BY <1>2, <1>4, SeqDef
<1> QED BY <1>1, <1>5 DEF IsList

\* What a review concludes: its report, or its report with the instruction filed.
LEMMA ConcludedWith ==
    ASSUME agent \in DOMAIN RV!Findings, status # "done", "history" \in DOMAIN input, IsList(input.history),
           NEW report, NEW render, Conclude(report, render), {"history", "findings", "decision"} \subseteq DOMAIN report,
           report.history = input.history, Lists(report.findings, Found[agent]),
           report.findings = <<>> => report.decision \in {"PASS", "REJECT"}
    PROVE  /\ agent' = agent /\ input' = input
           /\ RevisionReachesOwners'
           /\ status' = "done" => /\ IsList(output'.history)
                                  /\ \A f \in DOMAIN report \ {"history"} : output'[f] = report[f]
<1>1. CASE Refuse
  BY <1>1 DEF Refuse, RevisionReachesOwners
<1>2. CASE report.findings = <<>> /\ Return(report)
  BY <1>2 DEF Return, RevisionReachesOwners
<1>3. CASE report.findings # <<>> /\ ~ Refuse
  <2>1. PICK instruction : instruction = RV!Instruction(report.findings, agent, input.history, render)
    OBVIOUS
  <2>2. PICK history : history = RV!Filed(input.history, instruction)
    OBVIOUS
  <2>3. Return([report EXCEPT !.history = history])
    BY <1>3, <2>1, <2>2 DEF Conclude
  <2>4. /\ agent' = agent /\ input' = input /\ status' = "done" /\ output'.history = history
        /\ \A f \in DOMAIN report \ {"history"} : output'[f] = report[f]
    BY <2>3 DEF Return
  <2>5. RoutesOf(report.findings) # {} /\ RoutesOf(report.findings) \subseteq Found[agent]
    <3>1. DOMAIN report.findings # {}
      BY <1>3, EmptyFunction DEF Lists
    <3> QED BY <3>1 DEF Lists, RoutesOf, RV!Range
  <2>6. Reaches(agent, instruction)
    BY <2>1, <2>5, InstructionReaches
  <2>7. Reaches(agent, history[Len(history)])
    BY <2>1, <2>2, <2>6, FiledSays DEF IsList
  <2>8. IsList(history)
    BY <2>2, FiledIsList
  <2>9. RevisionReachesOwners'
    BY <2>4, <2>7 DEF RevisionReachesOwners, Reaches
  <2> QED BY <2>4, <2>8, <2>9
<1> QED BY <1>1, <1>2, <1>3 DEF Conclude

LEMMA FindingsInvInit == Init => FindingsInv
<1> SUFFICES ASSUME Init PROVE FindingsInv
  OBVIOUS
<1>1. agent \in Entry /\ input \in Inputs[agent] /\ status = "asking"
  BY DEF Init
<1>2. HistoryListed
  BY <1>1, ReviewInputs DEF HistoryListed, Entry, Recorded, Planned, Reviewed, Critics, IsList
<1>3. ReportsPassed
  <2>1. agent \in Reviewed => agent = "verification"
    BY <1>1 DEF Entry, Reviewed, Critics
  <2>2. agent = "verification" => Passed(input, agent)
    BY <1>1, ReviewInputs, VerificationInputs DEF Passed, Before, Cleared
  <2> QED BY <1>1, <2>1, <2>2 DEF ReportsPassed
<1>4. FindingsAreActedOn
  BY <1>1 DEF FindingsAreActedOn, ScoredIsApprovedOrReworded, RevisionReachesOwners, Done
<1> QED BY <1>2, <1>3, <1>4 DEF FindingsInv

LEMMA ValidateReferencesFinds == ASSUME FindingsInv, ValidateReferences PROVE FindingsInv'
<1>1. agent = "reference_validation" /\ status = "asking"
  BY DEF ValidateReferences, Shown, Asking
<1>2. agent \notin Reviewed /\ agent \in Recorded /\ agent \in DOMAIN RV!Findings /\ agent # "scene_purity"
      /\ agent # "quality_scoring"
  BY <1>1, Reviewers DEF Reviewed, Recorded, Critics
<1>3. "history" \in DOMAIN input /\ IsList(input.history)
  BY <1>2 DEF FindingsInv, HistoryListed
<1>4. PICK answer, x : Remember(answer) \/ Refuse \/ Conclude(OR!ReferenceReport(input, x), PR!Nobody)
  BY DEF ValidateReferences, ConcludeReferences
<1>5. CASE Remember(answer) \/ Refuse
  BY <1>1, <1>5, NoFindings DEF Remember, Refuse
<1>6. CASE Conclude(OR!ReferenceReport(input, x), PR!Nobody)
  <2>1. PICK report : report = OR!ReferenceReport(input, x)
    OBVIOUS
  <2>2. /\ Lists(report.findings, Found["reference_validation"]) /\ report.history = input.history
        /\ {"history", "findings", "decision"} \subseteq DOMAIN report
        /\ report.findings = <<>> => report.decision = "PASS"
    BY <2>1, ReferenceLists
  <2>3. agent' = agent /\ input' = input /\ RevisionReachesOwners'
    BY <1>1, <1>2, <1>3, <1>6, <2>1, <2>2, ConcludedWith
  <2> QED BY <1>2, <1>3, <2>3 DEF FindingsInv, HistoryListed, ReportsPassed, FindingsAreActedOn,
                                  ScoredIsApprovedOrReworded, Done
<1> QED BY <1>4, <1>5, <1>6

LEMMA InspectSceneFinds == ASSUME FindingsInv, InspectScene PROVE FindingsInv'
<1>1. agent = "scene_purity" /\ status = "asking"
  BY DEF InspectScene, Shown, Asking
<1>2. agent \notin Reviewed /\ agent \in Recorded /\ agent \in DOMAIN RV!Findings /\ agent # "quality_scoring"
  BY <1>1, Reviewers DEF Reviewed, Recorded, Critics, Planned
<1>3. "history" \in DOMAIN input /\ IsList(input.history)
  BY <1>2 DEF FindingsInv, HistoryListed
<1>4. PICK answer : Remember(answer) \/ Refuse \/ Conclude(PR!PurityReport(input, answer.x), input.scene.checksum)
  BY DEF InspectScene, Unusable
<1>5. CASE Remember(answer) \/ Refuse
  BY <1>1, <1>5, NoFindings DEF Remember, Refuse
<1>6. CASE Conclude(PR!PurityReport(input, answer.x), input.scene.checksum)
  <2>1. PICK report : report = PR!PurityReport(input, answer.x)
    OBVIOUS
  <2>2. /\ Lists(report.findings, Found["scene_purity"]) /\ report.history = input.history
        /\ {"history", "findings", "decision"} \subseteq DOMAIN report
        /\ report.findings = <<>> => report.decision = "PASS"
    BY <2>1, PurityLists
  <2>3. agent' = agent /\ input' = input /\ RevisionReachesOwners' /\ (status' = "done" => IsList(output'.history))
    BY <1>1, <1>2, <1>3, <1>6, <2>1, <2>2, ConcludedWith
  <2> QED BY <1>2, <1>3, <2>3 DEF FindingsInv, HistoryListed, ReportsPassed, FindingsAreActedOn,
                                  ScoredIsApprovedOrReworded, Done
<1> QED BY <1>4, <1>5, <1>6

\* What planning and production return finds nothing.
LEMMA ReturnsNoFindings ==
    ASSUME FindingsInv, agent \in Planned, agent' = agent, input' = input,
           agent = "scene_purity" /\ status' = "done" => IsList(output'.history) /\ output'.decision = "PASS"
    PROVE  FindingsInv'
<1>1. agent \notin Reviewed /\ agent \in Recorded /\ agent # "quality_scoring"
      /\ (agent \in DOMAIN RV!Findings => agent = "scene_purity")
  BY Reviewers DEF Reviewed, Recorded, Critics, Planned
<1> QED BY <1>1 DEF FindingsInv, HistoryListed, ReportsPassed, FindingsAreActedOn,
                    ScoredIsApprovedOrReworded, RevisionReachesOwners, Done

\* The next stage of production starts with the history it is handed.
LEMMA StartsListed ==
    ASSUME NEW a \in Planned, NEW payload, Start(a, payload), "history" \in DOMAIN payload, IsList(payload.history)
    PROVE  FindingsInv'
<1>1. agent' = a /\ input' = payload /\ status' = "asking" /\ a \notin Reviewed
  BY DEF Start, Planned, Reviewed, Critics
<1> QED BY <1>1 DEF FindingsInv, HistoryListed, ReportsPassed, FindingsAreActedOn,
                    ScoredIsApprovedOrReworded, RevisionReachesOwners, Done

LEMMA ProductionFinds ==
    ASSUME FindingsInv,
           \/ PlanGeneration \/ HandToProduction \/ SkipScene \/ GenerateScene \/ HandToPurity
           \/ NothingToInspect \/ HandToRegeneration
    PROVE  FindingsInv'
<1>0. ASSUME agent \in Planned PROVE "history" \in DOMAIN input /\ IsList(input.history)
  BY <1>0 DEF FindingsInv, HistoryListed, Recorded
<1>1. CASE PlanGeneration
  <2>1. agent = "generation_planning" /\ agent' = agent /\ input' = input
    BY <1>1 DEF PlanGeneration, Return
  <2> QED BY <2>1, ReturnsNoFindings DEF Planned
<1>2. CASE HandToProduction
  <2>1. agent = "generation_planning" /\ Start("production", [input EXCEPT !.plan = output])
    BY <1>2 DEF HandToProduction
  <2>2. PICK payload : payload = [input EXCEPT !.plan = output]
    OBVIOUS
  <2>3. "history" \in DOMAIN payload /\ payload.history = input.history
    BY <1>0, <2>1, <2>2 DEF Planned
  <2> QED BY <1>0, <2>1, <2>2, <2>3, StartsListed DEF Planned
<1>3. CASE SkipScene
  <2>1. agent = "production" /\ agent' = agent /\ input' = input
    BY <1>3 DEF SkipScene, Return
  <2> QED BY <2>1, ReturnsNoFindings DEF Planned
<1>4. CASE GenerateScene
  <2>1. agent = "production" /\ agent' = agent /\ input' = input
    BY <1>4 DEF GenerateScene, Shown, Asking, Return, Refuse
  <2> QED BY <2>1, ReturnsNoFindings DEF Planned
<1>5. CASE HandToPurity
  <2>1. agent = "production" /\ \E bytes : Start("scene_purity", [input EXCEPT !.scene = output, !.bytes = bytes])
    BY <1>5 DEF HandToPurity
  <2>2. PICK bytes : Start("scene_purity", [input EXCEPT !.scene = output, !.bytes = bytes])
    BY <2>1
  <2>3. PICK payload : payload = [input EXCEPT !.scene = output, !.bytes = bytes]
    OBVIOUS
  <2>4. "history" \in DOMAIN payload /\ payload.history = input.history
    BY <1>0, <2>1, <2>3 DEF Planned
  <2> QED BY <1>0, <2>1, <2>2, <2>3, <2>4, StartsListed DEF Planned
<1>6. CASE NothingToInspect
  <2>1. agent = "scene_purity" /\ agent' = agent /\ input' = input /\ output' = PR!Uninspected(input)
    BY <1>6 DEF NothingToInspect, Return
  <2>2. output'.decision = "PASS" /\ output'.history = input.history
    BY <2>1 DEF PR!Uninspected
  <2> QED BY <1>0, <2>1, <2>2, ReturnsNoFindings DEF Planned
<1>7. CASE HandToRegeneration
  <2>1. agent = "scene_purity" /\ status = "done"
        /\ Start("production", [input EXCEPT !.scene = PR!NoScene, !.history = RV!Settled(output.history)])
    BY <1>7 DEF HandToRegeneration
  <2>2. PICK payload : payload = [input EXCEPT !.scene = PR!NoScene, !.history = RV!Settled(output.history)]
    OBVIOUS
  <2>3. "history" \in DOMAIN payload /\ payload.history = RV!Settled(output.history)
    BY <1>0, <2>1, <2>2 DEF Planned
  <2>4. IsList(output.history)
    BY <2>1 DEF FindingsInv, HistoryListed, Recorded, Planned
  <2> QED BY <2>1, <2>2, <2>3, <2>4, SettledIsList, StartsListed DEF Planned
<1> QED BY <1>1, <1>2, <1>3, <1>4, <1>5, <1>6, <1>7

LEMMA VerifyFinds == ASSUME FindingsInv, Verify PROVE FindingsInv'
<1>1. agent = "verification" /\ status = "asking"
  BY DEF Verify, Shown, Asking
<1>2. PICK answer : Remember(answer) \/ Refuse \/ Return(VR!VerificationReport(input, answer.x))
  BY DEF Verify, Unusable
<1>3. CASE Remember(answer) \/ Refuse
  BY <1>1, <1>3, NoFindings DEF Remember, Refuse
<1>4. CASE Return(VR!VerificationReport(input, answer.x))
  <2>1. agent' = agent /\ input' = input /\ output' = VR!VerificationReport(input, answer.x)
    BY <1>4 DEF Return
  <2>2. output'.decision = "PASS" => output'.failed = {}
    BY <2>1 DEF VR!VerificationReport
  <2>3. agent \notin DOMAIN RV!Findings /\ agent # "scene_purity" /\ agent \notin Critics
    BY <1>1, Reviewers DEF Critics
  <2> QED BY <1>1, <2>1, <2>2, <2>3 DEF FindingsInv, HistoryListed, ReportsPassed, FindingsAreActedOn,
             ScoredIsApprovedOrReworded, RevisionReachesOwners, Done
<1> QED BY <1>2, <1>3, <1>4

\* A critic that concludes: what it found leads where it may, and who found nothing passes.
LEMMA CriticFinds ==
    ASSUME FindingsInv, agent \in Critics, status = "asking", NEW findings, NEW facts,
           Conclude(RV!Report(input, findings, facts), input.draft.render),
           Lists(findings, Found[agent]), findings = <<>> => Clear(agent, facts)
    PROVE  FindingsInv'
<1>1. agent \in Recorded /\ agent \in Reviewed /\ agent \in DOMAIN RV!Findings
      /\ agent \notin {"scene_purity", "quality_scoring", "verification"}
  BY Reviewers DEF Recorded, Reviewed, Critics
<1>2. "history" \in DOMAIN input /\ IsList(input.history)
  BY <1>1 DEF FindingsInv, HistoryListed
<1>3. PICK report : report = RV!Report(input, findings, facts)
  OBVIOUS
<1>4. /\ {"history", "findings", "decision", "facts"} \subseteq DOMAIN report /\ report.history = input.history
      /\ report.findings = findings /\ report.facts = facts
      /\ report.decision = IF findings = <<>> THEN "PASS" ELSE "REVISE"
  BY <1>3 DEF RV!Report
<1>5. /\ agent' = agent /\ input' = input /\ RevisionReachesOwners'
      /\ status' = "done" => \A f \in DOMAIN report \ {"history"} : output'[f] = report[f]
  BY <1>1, <1>2, <1>3, <1>4, ConcludedWith
<1>6. status' = "done" /\ output'.decision = "PASS" => Clear(agent, output'.facts)
  BY <1>4, <1>5
<1> QED BY <1>1, <1>5, <1>6 DEF FindingsInv, HistoryListed, ReportsPassed, FindingsAreActedOn,
                                ScoredIsApprovedOrReworded, Done

LEMMA ReviewMarketingFinds == ASSUME FindingsInv, ReviewMarketing PROVE FindingsInv'
<1>1. agent = "quality_review" /\ status = "asking" /\ agent \in Critics
  BY DEF ReviewMarketing, Shown, Asking, Critics
<1>2. PICK answer \in Answers[agent] :
         \/ Remember(answer) \/ Refuse
         \/ /\ answer # Unparsed /\ ~ RV!MarketingUnusable(answer.x)
            /\ Conclude(RV!MarketingReport(input, answer.x), input.draft.render)
  BY DEF ReviewMarketing, Unusable
<1>3. CASE Remember(answer) \/ Refuse
  BY <1>1, <1>3, NoFindings DEF Remember, Refuse
<1>4. CASE /\ answer # Unparsed /\ ~ RV!MarketingUnusable(answer.x)
           /\ Conclude(RV!MarketingReport(input, answer.x), input.draft.render)
  <2>1. PICK x : x = answer.x
    OBVIOUS
  <2>2. x \in Seq(RV!Range(x))
    BY <1>1, <1>4, <2>1, ReviewAnswers
  <2>3. PICK facts : facts = [d \in RV!Range(RV!MarketingDimensions) |-> RV!By(x, d).score]
    OBVIOUS
  <2>4. RV!MarketingReport(input, x) = RV!Report(input, RV!MarketingFindingsOf(x), facts)
    BY <2>3 DEF RV!MarketingReport
  <2>5. RV!MarketingFindingsOf(x) = <<>> => Clear("quality_review", facts)
    BY <1>4, <2>1, <2>2, <2>4, MarketingClears DEF RV!Report
  <2> QED BY <1>1, <1>4, <2>1, <2>4, <2>5, CriticLists, CriticFinds
<1> QED BY <1>2, <1>3, <1>4

LEMMA ReviewDesignFinds == ASSUME FindingsInv, ReviewDesign PROVE FindingsInv'
<1>1. agent = "design_review" /\ status = "asking" /\ agent \in Critics
  BY DEF ReviewDesign, Shown, Asking, Critics
<1>2. PICK answer \in Answers[agent] :
         \/ Remember(answer) \/ Refuse
         \/ /\ answer # Unparsed /\ ~ RV!DesignUnusable(answer.x)
            /\ Conclude(RV!DesignReport(input, answer.x), input.draft.render)
  BY DEF ReviewDesign, Unusable
<1>3. CASE Remember(answer) \/ Refuse
  BY <1>1, <1>3, NoFindings DEF Remember, Refuse
<1>4. CASE /\ answer # Unparsed /\ ~ RV!DesignUnusable(answer.x)
           /\ Conclude(RV!DesignReport(input, answer.x), input.draft.render)
  <2>1. PICK x : x = answer.x
    OBVIOUS
  <2>2. x \in Seq(RV!Range(x))
    BY <1>1, <1>4, <2>1, ReviewAnswers
  <2>3. PICK facts : facts = [d \in RV!Range(RV!DesignDimensions) |-> RV!By(x, d).severity]
    OBVIOUS
  <2>4. RV!DesignReport(input, x) = RV!Report(input, RV!DesignFindingsOf(x), facts)
    BY <2>3 DEF RV!DesignReport
  <2>5. RV!DesignFindingsOf(x) = <<>> => Clear("design_review", facts)
    BY <1>4, <2>1, <2>2, <2>4, DesignClears DEF RV!Report
  <2> QED BY <1>1, <1>4, <2>1, <2>4, <2>5, CriticLists, CriticFinds
<1> QED BY <1>2, <1>3, <1>4

LEMMA ReviewVisionFinds == ASSUME FindingsInv, ReviewVision PROVE FindingsInv'
<1>1. agent = "vision_review" /\ status = "asking" /\ agent \in Critics
  BY DEF ReviewVision, Shown, Asking, Critics
<1>2. PICK answer : \/ Remember(answer) \/ Refuse
                    \/ Conclude(RV!VisionReport(input, answer.x), input.draft.render)
  BY DEF ReviewVision, Unusable
<1>3. CASE Remember(answer) \/ Refuse
  BY <1>1, <1>3, NoFindings DEF Remember, Refuse
<1>4. CASE Conclude(RV!VisionReport(input, answer.x), input.draft.render)
  <2>1. PICK x : x = answer.x
    OBVIOUS
  <2>2. RV!VisionReport(input, x) = RV!Report(input, RV!VisionFindingsOf(x), x.issues)
    BY DEF RV!VisionReport
  <2>3. RV!VisionFindingsOf(x) = <<>> => Clear("vision_review", x.issues)
    BY <2>2, VisionClears DEF RV!Report
  <2> QED BY <1>1, <1>4, <2>1, <2>2, <2>3, CriticLists, CriticFinds
<1> QED BY <1>2, <1>3, <1>4

LEMMA HandToReviewFinds == ASSUME FindingsInv, HandToReview PROVE FindingsInv'
<1>1. PICK bytes : Start(NextReview[agent],
         [input EXCEPT !.bytes = bytes,
                       !.reports = [a \in DOMAIN @ \cup {agent} |-> IF a = agent THEN output ELSE @[a]]])
  BY DEF HandToReview
<1>2. agent \in {"verification"} \cup Critics /\ status = "done" /\ output.decision = "PASS"
  BY DEF HandToReview, NextReview, Critics
<1>3. agent \in Reviewed /\ agent \in Recorded /\ Passed(input, agent)
  BY <1>2 DEF FindingsInv, ReportsPassed, Reviewed, Recorded
<1>4. {"idea", "reports", "history", "draft"} \subseteq DOMAIN input /\ Cleared(input.idea) /\ IsList(input.history)
  BY <1>3 DEF Passed, FindingsInv, HistoryListed
<1>5. PICK reports : reports = [a \in DOMAIN input.reports \cup {agent} |->
                                   IF a = agent THEN output ELSE input.reports[a]]
  OBVIOUS
<1>6. PICK next : next = NextReview[agent]
  OBVIOUS
<1>7. /\ agent' = next /\ status' = "asking" /\ DOMAIN input' = DOMAIN input
      /\ input'.idea = input.idea /\ input'.reports = reports /\ input'.history = input.history
  BY <1>1, <1>4, <1>5, <1>6 DEF Start
<1>8. next \in Critics \cup {"quality_scoring"}
      /\ Before[next] \subseteq Before[agent] \cup (IF agent = "verification" THEN {} ELSE {agent})
  BY <1>2, <1>6 DEF Critics, NextReview, Before
<1>9. /\ "verification" \in DOMAIN reports /\ reports["verification"].decision = "PASS"
      /\ reports["verification"].failed = {}
  <2>1. CASE agent = "verification"
    <3>1. output.failed = {}
      BY <1>2, <1>3, <2>1 DEF FindingsInv, ReportsPassed
    <3> QED BY <1>2, <1>5, <2>1, <3>1
  <2>2. CASE agent # "verification"
    BY <1>3, <1>5, <2>2 DEF Passed
  <2> QED BY <2>1, <2>2
<1>10. ASSUME NEW r \in Before[next] PROVE r \in DOMAIN reports /\ Clear(r, reports[r].facts)
  <2>1. CASE r = agent
    <3>1. agent \in Critics
      BY <1>2, <1>8, <2>1 DEF Before, Critics
    <3>2. Clear(agent, output.facts)
      BY <1>2, <1>3, <3>1 DEF FindingsInv, ReportsPassed
    <3> QED BY <1>5, <2>1, <3>2
  <2>2. CASE r # agent
    <3>1. r \in Before[agent]
      BY <1>8, <1>10, <2>2
    <3> QED BY <1>3, <1>5, <2>2, <3>1 DEF Passed
  <2> QED BY <2>1, <2>2
<1>11. Passed(input', next)
  BY <1>4, <1>7, <1>9, <1>10 DEF Passed
<1>12. next # "scene_purity"
  BY <1>8 DEF Critics
<1> QED BY <1>4, <1>7, <1>11, <1>12 DEF FindingsInv, HistoryListed, ReportsPassed, FindingsAreActedOn,
                     ScoredIsApprovedOrReworded, RevisionReachesOwners, Done

LEMMA ScoreQualityFinds == ASSUME FindingsInv, ScoreQuality PROVE FindingsInv'
<1>1. agent = "quality_scoring" /\ status = "asking"
  BY DEF ScoreQuality
<1>2. PICK report : report = RV!QualityApproval(input)
  OBVIOUS
<1>3. Refuse \/ Conclude(report, input.draft.render)
  BY <1>2 DEF ScoreQuality
<1>4. CASE Refuse
  BY <1>1, <1>4, NoFindings DEF Refuse
<1>5. CASE Conclude(report, input.draft.render)
  <2>1. agent \in Recorded /\ agent \in Reviewed /\ agent \in DOMAIN RV!Findings
        /\ agent \notin Critics \cup {"scene_purity", "verification"}
    BY <1>1, Reviewers DEF Recorded, Reviewed, Critics
  <2>2. "history" \in DOMAIN input /\ IsList(input.history) /\ Passed(input, "quality_scoring")
    BY <1>1, <2>1 DEF FindingsInv, HistoryListed, ReportsPassed
  <2>3. /\ report.failed \subseteq Reworded
        /\ report.decision = IF report.failed = {} THEN "PASS" ELSE "MUTATE"
        /\ report.findings = IF report.failed = {} THEN <<>> ELSE RV!ScoringFindingsOf(report.failed)
    BY <1>2, <2>2, ApprovedOrReworded
  <2>4. {"history", "findings", "decision", "failed"} \subseteq DOMAIN report /\ report.history = input.history
    BY <1>2 DEF RV!QualityApproval
  <2>5. Found["quality_scoring"] = {"strategy"}
    BY DEF Found, RV!Findings
  <2>6. Lists(report.findings, {"strategy"}) /\ (report.findings = <<>> => report.decision = "PASS")
    <3>1. CASE report.failed = {}
      <4>1. Lists(<<>>, {"strategy"})
        BY DEF Lists, RoutesOf, RV!Range
      <4> QED BY <2>3, <3>1, <4>1
    <3>2. CASE report.failed # {}
      BY <2>3, <3>2, ScoringLists
    <3> QED BY <3>1, <3>2
  <2>7. /\ agent' = agent /\ input' = input /\ RevisionReachesOwners'
        /\ status' = "done" => \A f \in DOMAIN report \ {"history"} : output'[f] = report[f]
    BY <1>1, <1>5, <2>1, <2>2, <2>4, <2>5, <2>6, ConcludedWith
  <2>8. status' = "done" => output'.failed = report.failed /\ output'.decision = report.decision
    BY <2>4, <2>7
  <2>9. ScoredIsApprovedOrReworded'
    BY <2>3, <2>8 DEF ScoredIsApprovedOrReworded, Done, Reworded
  <2> QED BY <2>1, <2>7, <2>9 DEF FindingsInv, HistoryListed, ReportsPassed, FindingsAreActedOn
<1> QED BY <1>3, <1>4, <1>5

LEMMA StoppedFinds ==
    ASSUME FindingsInv, RejectInput \/ ProviderFails \/ StorageUnavailable PROVE FindingsInv'
<1>1. agent' = agent /\ input' = input /\ status' # "done"
  BY DEF RejectInput, ProviderFails, StorageUnavailable, Refuse
<1> QED BY <1>1, NoFindings

LEMMA NotRecordedStep ==
    ASSUME \/ Understand \/ AnalyzeBrand \/ HandToAudience \/ AnalyzeAudience \/ HandToStrategist
           \/ Strategize \/ Direct \/ CorrectDirection \/ Write \/ Shrink \/ HandToAssets
           \/ ClassifyAssets \/ NothingToClassify \/ HandToArtDirector \/ ArtDirect
           \/ HandToSpec \/ CompileSpec \/ HandToComposition \/ Compose
    PROVE  FindingsInv'
<1> USE DEF Recorded, Planned, Reviewed, Critics, Asking, Return, Refuse, Remember, Start
<1>1. Understand => agent' \notin Recorded
  BY DEF Understand
<1>2. AnalyzeBrand => agent' \notin Recorded
  BY DEF AnalyzeBrand
<1>3. HandToAudience => agent' \notin Recorded
  BY DEF HandToAudience
<1>4. AnalyzeAudience => agent' \notin Recorded
  BY DEF AnalyzeAudience
<1>5. HandToStrategist => agent' \notin Recorded
  BY DEF HandToStrategist
<1>6. Strategize => agent' \notin Recorded
  BY DEF Strategize
<1>7. Direct \/ CorrectDirection => agent' \notin Recorded
  BY DEF Direct, CorrectDirection, Judge
<1>8. Write \/ Shrink => agent' \notin Recorded
  BY DEF Write, Shrink
<1>9. HandToAssets \/ ClassifyAssets \/ NothingToClassify => agent' \notin Recorded
  BY DEF HandToAssets, ClassifyAssets, NothingToClassify
<1>10. HandToArtDirector \/ ArtDirect => agent' \notin Recorded
  BY DEF HandToArtDirector, ArtDirect
<1>11. HandToSpec \/ CompileSpec => agent' \notin Recorded
  BY DEF HandToSpec, CompileSpec
<1>12. HandToComposition \/ Compose => agent' \notin Recorded
  BY DEF HandToComposition, Compose
<1>13. agent' \notin Recorded
  BY <1>1, <1>2, <1>3, <1>4, <1>5, <1>6, <1>7, <1>8, <1>9, <1>10, <1>11, <1>12
<1> QED BY <1>13, NotRecorded

LEMMA FindingsInvNext == FindingsInv /\ [Next]_vars => FindingsInv'
<1> SUFFICES ASSUME FindingsInv, [Next]_vars PROVE FindingsInv'
  OBVIOUS
<1>1. CASE UNCHANGED vars
  BY <1>1 DEF vars, FindingsInv, HistoryListed, ReportsPassed, FindingsAreActedOn,
              ScoredIsApprovedOrReworded, RevisionReachesOwners, Done
<1>2. CASE Next
  BY <1>2, ValidateReferencesFinds, InspectSceneFinds, ProductionFinds, VerifyFinds,
     ReviewMarketingFinds, ReviewDesignFinds, ReviewVisionFinds, HandToReviewFinds, ScoreQualityFinds,
     StoppedFinds, NotRecordedStep DEF Next
<1> QED BY <1>1, <1>2

\* Whoever has to act on what a reviewer found is run again by the one instruction that is
\* filed, though it names the earliest of them only; and a render that every critic passed
\* is approved or goes back for what it says, never for how it looks (revision_director,
\* tools/quality).
THEOREM FindingsActedOn == Spec => []FindingsAreActedOn
<1>1. Init => FindingsInv
  BY FindingsInvInit
<1>2. FindingsInv /\ [Next]_vars => FindingsInv'
  BY FindingsInvNext
<1>3. FindingsInv => FindingsAreActedOn
  BY DEF FindingsInv
<1> QED BY <1>1, <1>2, <1>3, PTL DEF Spec

----------------------------------------------------------------------------
(* The layout of a draft. *)

Box(b) == b[1] \in Int /\ b[2] \in Int /\ b[3] \in Int /\ b[4] \in Int

\* A value has a nearest line.
LEMMA NearestIsLine ==
    ASSUME NEW lines, lines \subseteq Int, lines # {}, NEW value \in Int
    PROVE  PR!Nearest(lines, value) \in lines
<1> DEFINE D == {PR!Distance(l, value) : l \in lines}
<1>0. \A l \in lines : PR!Distance(l, value) \in Nat
                       /\ (l = value - PR!Distance(l, value) \/ l = value + PR!Distance(l, value))
  BY DEF PR!Distance
<1>1. D \subseteq Nat /\ D # {}
  BY <1>0
<1>2. PICK d \in D : \A e \in D : d <= e
  <2> HIDE DEF D
  <2> QED BY <1>1, LeastNatural
<1>3. d \in Nat /\ \A l \in lines : d <= PR!Distance(l, value)
  BY <1>1, <1>2
<1>4. PICK m \in lines : PR!Distance(m, value) = d
  BY <1>2
<1>5. PICK l \in lines : PR!Distance(l, value) = d /\ \A k \in lines : PR!Distance(k, value) = d => l <= k
  <2>1. CASE value - d \in lines
    <3>1. PR!Distance(value - d, value) = d
      BY <1>3 DEF PR!Distance
    <3>2. \A k \in lines : PR!Distance(k, value) = d => value - d <= k
      BY <1>0, <1>3
    <3> QED BY <2>1, <3>1, <3>2
  <2>2. CASE value - d \notin lines
    <3>1. \A k \in lines : PR!Distance(k, value) = d => k = value + d
      BY <1>0, <2>2
    <3>2. m = value + d /\ m \in Int
      BY <1>4, <3>1
    <3> QED BY <1>4, <3>1, <3>2
  <2> QED BY <2>1, <2>2
<1>6. ASSUME NEW k \in lines
      PROVE  \/ PR!Distance(l, value) < PR!Distance(k, value)
             \/ PR!Distance(l, value) = PR!Distance(k, value) /\ l <= k
  <2>1. PICK e \in Nat : e = PR!Distance(k, value) /\ d <= e
    BY <1>0, <1>3
  <2> QED BY <1>3, <1>5, <2>1
<1> QED BY <1>5, <1>6 DEF PR!Nearest

\* What is clamped lies within its container, and does not vanish.
LEMMA ClampHolds ==
    ASSUME NEW b, Box(b), NEW c, Box(c), c[3] >= 1, c[4] >= 1
    PROVE  /\ Box(PR!Clamp(b, c)) /\ PR!Clamp(b, c)[3] >= 1 /\ PR!Clamp(b, c)[4] >= 1
           /\ PR!Within(PR!Clamp(b, c), c)
<1>1. PICK x \in Int, y \in Int, w \in Int, h \in Int : x = b[1] /\ y = b[2] /\ w = b[3] /\ h = b[4]
  BY DEF Box
<1>2. PICK X \in Int, Y \in Int, W \in Int, H \in Int : X = c[1] /\ Y = c[2] /\ W = c[3] /\ H = c[4]
  BY DEF Box
<1>3. PICK left \in Int : left = PR!Greater(X, PR!Lesser(x, X + W - 1)) /\ X <= left /\ left <= X + W - 1
  BY <1>1, <1>2 DEF PR!Greater, PR!Lesser
<1>4. PICK top \in Int : top = PR!Greater(Y, PR!Lesser(y, Y + H - 1)) /\ Y <= top /\ top <= Y + H - 1
  BY <1>1, <1>2 DEF PR!Greater, PR!Lesser
<1>5. PICK right \in Int : /\ right = PR!Lesser(X + W, PR!Greater(left + 1, x + w))
                           /\ left + 1 <= right /\ right <= X + W
  BY <1>1, <1>2, <1>3 DEF PR!Greater, PR!Lesser
<1>6. PICK bottom \in Int : /\ bottom = PR!Lesser(Y + H, PR!Greater(top + 1, y + h))
                            /\ top + 1 <= bottom /\ bottom <= Y + H
  BY <1>1, <1>2, <1>4 DEF PR!Greater, PR!Lesser
<1>a. PR!RightOf(b) = x + w /\ PR!BottomOf(b) = y + h /\ PR!RightOf(c) = X + W /\ PR!BottomOf(c) = Y + H
  BY <1>1, <1>2 DEF PR!RightOf, PR!BottomOf
<1>b. left = PR!Greater(c[1], PR!Lesser(b[1], PR!RightOf(c) - 1))
      /\ top = PR!Greater(c[2], PR!Lesser(b[2], PR!BottomOf(c) - 1))
  BY <1>1, <1>2, <1>3, <1>4, <1>a
<1>c. right = PR!Lesser(PR!RightOf(c), PR!Greater(left + 1, PR!RightOf(b)))
      /\ bottom = PR!Lesser(PR!BottomOf(c), PR!Greater(top + 1, PR!BottomOf(b)))
  BY <1>5, <1>6, <1>a
<1>7. PR!Clamp(b, c) = <<left, top, right - left, bottom - top>>
  BY <1>b, <1>c, Zenon DEF PR!Clamp
<1> QED BY <1>2, <1>3, <1>4, <1>5, <1>6, <1>7 DEF Box, PR!Within, PR!RightOf, PR!BottomOf

LEMMA RoundedIsInt == ASSUME NEW n \in Int, NEW d \in Nat \ {0} PROVE PR!Rounded(n, d) \in Int
BY DEF PR!Rounded

LEMMA TrackLinesAreInt ==
    ASSUME NEW start \in Int, NEW size \in Int, NEW count \in Nat \ {0}, NEW gutter \in Int
    PROVE  PR!TrackLines(start, size, count, gutter) \subseteq Int
           /\ PR!TrackLines(start, size, count, gutter) # {}
<1>1. \A i \in 1 .. count - 1 : start * count + i * (size + gutter) \in Int
  OBVIOUS
<1>2. \A i \in 1 .. count - 1 : PR!Rounded(start * count + i * (size + gutter), count) \in Int
  BY <1>1, RoundedIsInt
<1>3. PICK rest : rest = {PR!Rounded(start * count + i * (size + gutter), count) : i \in 1 .. count - 1}
  OBVIOUS
<1>4. rest \subseteq Int
  BY <1>2, <1>3
<1>5. PR!TrackLines(start, size, count, gutter) = {start, start + size} \cup rest
  BY <1>3 DEF PR!TrackLines
<1> QED BY <1>4, <1>5

LEMMA SnappedSpanIsInt ==
    ASSUME NEW lines, lines \subseteq Int, lines # {}, NEW from \in Int, NEW to \in Int, NEW end \in Int,
           NEW baseline \in Int
    PROVE  PR!SnappedSpan(lines, from, to, end, baseline)[1] \in Int
           /\ PR!SnappedSpan(lines, from, to, end, baseline)[2] \in Int
<1>1. PICK low \in Int, high \in Int : low = PR!Nearest(lines, from) /\ high = PR!Nearest(lines, to)
  BY NearestIsLine
<1> QED BY <1>1 DEF PR!SnappedSpan, PR!Lesser

----------------------------------------------------------------------------
\* What is planned: a spec that passed, a copy of words, the originals and their images.
SpecReady(p) ==
    /\ ~ CA!SpecErrors(p.spec, p.copy) /\ p.spec.safe \in Nat
    /\ \A r \in DOMAIN p.spec.regions :
          p.spec.regions[r] \in Nat \X Nat \X (Nat \ {0}) \X (Nat \ {0})
CopyReady(p) ==
    /\ p.copy.headline # <<>> /\ p.copy.cta # <<>>
    /\ \A f \in {"headline", "subheadline", "supporting_copy", "offer_copy", "cta"} :
          /\ p.copy[f] \in Seq(RV!Range(p.copy[f]))
          /\ \A w \in RV!Range(p.copy[f]) : w.chars \in Nat \ {0}
OriginalsReady(p) ==
    /\ p.policies \in Seq(RV!Range(p.policies))
    /\ \A a \in RV!Range(p.policies) :
          a.asset # PR!Nobody /\ p.images[a.asset] \in (Nat \ {0}) \X (Nat \ {0})
    /\ \A a, b \in RV!Range(p.policies) : a.asset = b.asset => a = b

LEMMA InRange == ASSUME NEW a \in Int, NEW b \in Int, NEW x \in a .. b PROVE x \in Int /\ x >= a
OBVIOUS

\* The sizes of an accepted spec.
LEMMA SpecIsSized ==
    ASSUME NEW p, SpecReady(p)
    PROVE  /\ p.spec.canvas[1] \in Nat /\ p.spec.canvas[2] \in Nat
           /\ p.spec.canvas[1] - 2 * p.spec.safe >= 1 /\ p.spec.canvas[2] - 2 * p.spec.safe >= 1
           /\ p.spec.grid.columns \in Nat \ {0} /\ p.spec.grid.rows \in Nat \ {0}
           /\ p.spec.grid.gutter \in Nat /\ p.spec.grid.baseline \in Nat \ {0}
           /\ {"product", "headline", "cta", "logo"} \subseteq DOMAIN p.spec.regions
<1>1. PICK spec : spec = p.spec
  OBVIOUS
<1>2. ~ CA!SpecErrors(spec, p.copy) /\ spec.safe \in Nat
  BY <1>1 DEF SpecReady
<1>3. /\ spec.canvas[1] \in Int /\ spec.canvas[1] >= 320 /\ spec.canvas[2] \in Int /\ spec.canvas[2] >= 320
      /\ ~ (2 * spec.safe >= spec.canvas[1]) /\ ~ (2 * spec.safe >= spec.canvas[2])
  <2>1. ~ CA!CanvasErrors(spec.canvas, spec.safe)
    BY <1>2 DEF CA!SpecErrors
  <2>2. PICK sides, safe : sides = {spec.canvas[1], spec.canvas[2]} /\ safe = spec.safe
    OBVIOUS
  <2>a. PICK canvas : canvas = spec.canvas
    OBVIOUS
  <2>b. ~ CA!CanvasErrors(canvas, safe) /\ sides = {canvas[1], canvas[2]}
    BY <2>1, <2>2, <2>a
  <2>3. \A side \in sides : side \in 320 .. 8192 /\ ~ (2 * safe >= side)
    BY ONLY <2>b DEF CA!CanvasErrors
  <2>4. ASSUME NEW side \in sides PROVE  side \in Int /\ side >= 320 /\ ~ (2 * safe >= side)
    <3>1. side \in 320 .. 8192 /\ ~ (2 * safe >= side)
      BY <2>3
    <3>2. side \in Int /\ side >= 320
      BY ONLY <3>1
    <3> QED BY <3>1, <3>2
  <2> QED BY <2>2, <2>4
<1>4. ~ CA!GridErrors(spec.grid) /\ {"product", "headline", "cta", "logo"} \subseteq DOMAIN spec.regions
  BY <1>2 DEF CA!SpecErrors, CA!RegionErrors
<1>5. /\ spec.grid.columns \in 1 .. 24 /\ spec.grid.rows \in 1 .. 24
      /\ spec.grid.gutter \in 0 .. 512 /\ spec.grid.baseline \in 1 .. 256
  BY <1>4, Zenon DEF CA!GridErrors
<1>7. /\ spec.grid.columns \in Nat \ {0} /\ spec.grid.rows \in Nat \ {0}
      /\ spec.grid.gutter \in Nat /\ spec.grid.baseline \in Nat \ {0}
  <2>1. /\ spec.grid.columns \in Int /\ spec.grid.columns >= 1 /\ spec.grid.rows \in Int /\ spec.grid.rows >= 1
    BY <1>5, InRange
  <2>2. /\ spec.grid.gutter \in Int /\ spec.grid.gutter >= 0
        /\ spec.grid.baseline \in Int /\ spec.grid.baseline >= 1
    BY <1>5, InRange
  <2> QED BY <2>1, <2>2
<1>8. /\ spec.canvas[1] - 2 * spec.safe >= 1 /\ spec.canvas[2] - 2 * spec.safe >= 1
  BY <1>2, <1>3
<1> QED BY <1>1, <1>3, <1>4, <1>7, <1>8

LEMMA ContainerIsBox ==
    ASSUME NEW p, SpecReady(p), NEW role
    PROVE  /\ Box(PR!Container(p.spec, role))
           /\ PR!Container(p.spec, role)[3] >= 1 /\ PR!Container(p.spec, role)[4] >= 1
<1>1. PICK w \in Nat, h \in Nat, s \in Nat : w = p.spec.canvas[1] /\ h = p.spec.canvas[2] /\ s = p.spec.safe
  BY SpecIsSized DEF SpecReady
<1>2. w - 2 * s >= 1 /\ h - 2 * s >= 1
  BY <1>1, SpecIsSized
<1>3. PR!Container(p.spec, role) \in {<<0, 0, w, h>>, <<s, s, w - 2 * s, h - 2 * s>>}
  BY <1>1 DEF PR!Container, PR!CanvasBounds, PR!SafeBounds
<1> QED BY <1>2, <1>3 DEF Box

\* Every region is placed within the safe area, the product within the canvas.
LEMMA PlacedWithin ==
    ASSUME NEW p, SpecReady(p), NEW role \in DOMAIN p.spec.regions
    PROVE  LET place == PR!Placements(p.spec)[role]
           IN  /\ Box(place) /\ place[3] >= 1 /\ place[4] >= 1
               /\ PR!Within(place, PR!Container(p.spec, role))
<1>1. PICK c : c = PR!Container(p.spec, role)
  OBVIOUS
<1>2. Box(c) /\ c[3] >= 1 /\ c[4] >= 1
  BY <1>1, ContainerIsBox
<1>3. PICK g : g = p.spec.grid
  OBVIOUS
<1>4. g.columns \in Nat \ {0} /\ g.rows \in Nat \ {0} /\ g.gutter \in Nat /\ g.baseline \in Nat \ {0}
  BY <1>3, SpecIsSized
<1>5. Box(p.spec.regions[role])
  BY DEF SpecReady, Box
<1>6. PICK b : b = PR!Clamp(p.spec.regions[role], c)
  OBVIOUS
<1>7. Box(b)
  BY <1>2, <1>5, <1>6, ClampHolds
<1>8. PICK s : s = PR!Snap(b, c, g)
  OBVIOUS
<1>9. Box(s)
  <2>1. PICK xs, ys : /\ xs = PR!TrackLines(c[1], c[3], g.columns, g.gutter)
                      /\ ys = PR!TrackLines(c[2], c[4], g.rows, g.gutter)
    OBVIOUS
  <2>2. xs \subseteq Int /\ xs # {} /\ ys \subseteq Int /\ ys # {}
    <3>1. c[1] \in Int /\ c[2] \in Int /\ c[3] \in Int /\ c[4] \in Int /\ g.gutter \in Int
      BY <1>2, <1>4 DEF Box
    <3>2. xs \subseteq Int /\ xs # {}
      BY <1>4, <2>1, <3>1, TrackLinesAreInt
    <3>3. ys \subseteq Int /\ ys # {}
      BY <1>4, <2>1, <3>1, TrackLinesAreInt
    <3> QED BY <3>2, <3>3
  <2>3. PICK across, down : /\ across = PR!SnappedSpan(xs, b[1], PR!RightOf(b), PR!RightOf(c), g.baseline)
                            /\ down = PR!SnappedSpan(ys, b[2], PR!BottomOf(b), PR!BottomOf(c), g.baseline)
    OBVIOUS
  <2>4. /\ b[1] \in Int /\ PR!RightOf(b) \in Int /\ PR!RightOf(c) \in Int /\ g.baseline \in Int
        /\ b[2] \in Int /\ PR!BottomOf(b) \in Int /\ PR!BottomOf(c) \in Int
    BY <1>2, <1>4, <1>7 DEF Box, PR!RightOf, PR!BottomOf
  <2>5. across[1] \in Int /\ across[2] \in Int
    BY <2>2, <2>3, <2>4, SnappedSpanIsInt
  <2>6. down[1] \in Int /\ down[2] \in Int
    BY <2>2, <2>3, <2>4, SnappedSpanIsInt
  <2>7. s = <<across[1], down[1], across[2], down[2]>>
    BY <1>8, <2>1, <2>3 DEF PR!Snap
  <2> QED BY <2>5, <2>6, <2>7 DEF Box
<1>10. PR!Placements(p.spec)[role] = PR!Clamp(s, c)
  BY <1>1, <1>3, <1>6, <1>8 DEF PR!Placements, PR!Snapped
<1> QED BY <1>1, <1>2, <1>9, <1>10, ClampHolds

----------------------------------------------------------------------------
(* The texts of a draft. *)

LEMMA WrappedUnfolds ==
    ASSUME NEW text, NEW width, NEW size, NEW tracking, Len(text) \in Nat
    PROVE  PR!WrappedUpTo(text, width, size, tracking) =
             [n \in 0 .. Len(text) |->
                IF n = 0 THEN [full |-> 0, line |-> PR!Blank]
                ELSE PR!Wrapped(PR!WrappedUpTo(text, width, size, tracking)[n - 1], text[n], width, size, tracking)]
<1> DEFINE Step(g, n) == IF n = 0 THEN [full |-> 0, line |-> PR!Blank]
                         ELSE PR!Wrapped(g[n - 1], text[n], width, size, tracking)
           IsLoop(g, m) == g = [n \in 0 .. m |-> Step(g, n)]
           T == {m \in Nat : \E g : IsLoop(g, m)}
<1>1. 0 \in T
  <2> DEFINE g == [n \in 0 .. 0 |-> [full |-> 0, line |-> PR!Blank]]
  <2>1. IsLoop(g, 0)
    OBVIOUS
  <2> QED BY <2>1
<1>2. \A m \in T : m + 1 \in T
  <2> TAKE m \in T
  <2>1. PICK g : IsLoop(g, m)
    OBVIOUS
  <2> DEFINE h == [n \in 0 .. m + 1 |-> IF n = m + 1 THEN Step(g, n) ELSE g[n]]
  <2>2. ASSUME NEW n \in 0 .. m + 1 PROVE h[n] = Step(h, n)
    <3>1. CASE n = 0
      <4>1. h[n] = g[0] /\ g[0] = Step(g, 0)
        BY <2>1, <3>1
      <4> QED BY <3>1, <4>1
    <3>2. CASE n \in 1 .. m
      <4>1. n \in 0 .. m /\ n # 0 /\ n # m + 1 /\ n - 1 \in 0 .. m + 1 /\ n - 1 # m + 1
        BY <3>2
      <4>2. h[n] = g[n] /\ h[n - 1] = g[n - 1]
        <5> HIDE DEF Step
        <5> QED BY <4>1
      <4>3. g[n] = Step(g, n)
        <5> HIDE DEF Step
        <5> QED BY <2>1, <4>1
      <4>4. Step(g, n) = Step(h, n)
        BY <4>1, <4>2
      <4> HIDE DEF Step
      <4> QED BY <4>2, <4>3, <4>4
    <3>3. CASE n = m + 1
      <4>1. h[n] = Step(g, n) /\ h[n - 1] = g[n - 1] /\ n # 0
        BY <3>3
      <4> QED BY <4>1
    <3> QED BY <3>1, <3>2, <3>3
  <2> HIDE DEF Step
  <2>3. h = [n \in 0 .. m + 1 |-> Step(h, n)]
    BY <2>2
  <2> HIDE DEF h
  <2>4. IsLoop(h, m + 1)
    BY <2>3
  <2> QED BY <2>4
<1>3. T = Nat
  <2> HIDE DEF T
  <2>1. T \subseteq Nat
    BY DEF T
  <2> QED BY <1>1, <1>2, <2>1, SetInduction
<1>4. \E g : IsLoop(g, Len(text))
  BY <1>3
<1>5. IsLoop(CHOOSE g : IsLoop(g, Len(text)), Len(text))
  BY <1>4
<1>6. PR!WrappedUpTo(text, width, size, tracking) = CHOOSE g : IsLoop(g, Len(text))
  BY DEF PR!WrappedUpTo
<1> QED BY <1>5, <1>6

LEMMA LargestIsMember ==
    ASSUME NEW A, NEW n \in Nat, A \subseteq 0 .. n, A # {}
    PROVE  PR!Largest(A) \in A
<1>1. PICK x \in A : \A y \in A : x >= y
  BY GreatestNatural
<1>2. \A y \in A : y <= x
  BY <1>1
<1> QED BY <1>2 DEF PR!Largest

\* A word that is split leaves some of it on every line.
LEMMA RoomIsPositive ==
    ASSUME NEW w, w.chars \in Nat \ {0}, NEW width, NEW size, NEW tracking
    PROVE  PR!Room(w, width, size, tracking) \in Nat \ {0}
<1>1. PICK n \in Nat : n = w.chars /\ n >= 1
  OBVIOUS
<1>2. PICK A : A = {1} \cup {k \in 1 .. w.chars :
                      PR!Measure([units |-> PR!Glyph * k, chars |-> k], size, tracking) <= 100 * width}
  OBVIOUS
<1>3. A \subseteq 1 .. n /\ A # {}
  BY <1>1, <1>2
<1>4. A \subseteq 0 .. n
  BY <1>3
<1>5. PR!Largest(A) \in A
  BY <1>3, <1>4, LargestIsMember
<1>6. PR!Room(w, width, size, tracking) = PR!Largest(A)
  BY <1>2 DEF PR!Room
<1>7. 1 .. n \subseteq Nat \ {0}
  OBVIOUS
<1> QED BY <1>3, <1>5, <1>6, <1>7

LEMMA WrappedIsCounted ==
    ASSUME NEW before, before.full \in Nat, NEW w, w.chars \in Nat \ {0}, NEW width, NEW size, NEW tracking
    PROVE  PR!Wrapped(before, w, width, size, tracking).full \in Nat
<1>1. PICK broken \in Nat : broken = PR!Broken(before)
  BY DEF PR!Broken
<1>2. PICK room \in Nat \ {0} : room = PR!Room(w, width, size, tracking)
  BY RoomIsPositive
<1>3. PICK parts \in Nat : parts = PR!PartsOf(w, room)
  <2>1. PICK n \in Nat : n = w.chars - 1
    OBVIOUS
  <2>2. n \div room \in Nat
    OBVIOUS
  <2> QED BY <2>1, <2>2 DEF PR!PartsOf
<1>4. PR!SplitWord(w, width, size, tracking).full \in {parts, parts + 1}
  BY <1>2, <1>3 DEF PR!SplitWord, PR!SplitBy, PR!LastPart
<1>5. PR!Following(before, PR!SplitWord(w, width, size, tracking)).full \in Nat
  BY <1>1, <1>4 DEF PR!Following
<1> QED BY <1>1, <1>5 DEF PR!Wrapped

LEMMA LineCountIsPositive ==
    ASSUME NEW S, NEW text \in Seq(S), \A w \in S : w.chars \in Nat \ {0}, NEW width, NEW size, NEW tracking
    PROVE  PR!LineCount(text, width, size, tracking) \in Nat \ {0}
<1>0. PICK set : set = PR!WrappedUpTo(text, width, size, tracking)
  OBVIOUS
<1> DEFINE T == {n \in Nat : n <= Len(text) => set[n].full \in Nat}
<1>1. Len(text) \in Nat
  OBVIOUS
<1>2. set = [n \in 0 .. Len(text) |-> IF n = 0 THEN [full |-> 0, line |-> PR!Blank]
                                      ELSE PR!Wrapped(set[n - 1], text[n], width, size, tracking)]
  BY <1>0, <1>1, WrappedUnfolds
<1>3. 0 \in T
  <2>1. set[0] = [full |-> 0, line |-> PR!Blank]
    BY <1>1, <1>2
  <2> QED BY <2>1
<1>4. \A n \in T : n + 1 \in T
  <2> SUFFICES ASSUME NEW n \in T, n + 1 <= Len(text) PROVE set[n + 1].full \in Nat
    OBVIOUS
  <2>1. n + 1 \in 0 .. Len(text) /\ n + 1 # 0 /\ (n + 1) - 1 = n /\ n <= Len(text) /\ n + 1 \in 1 .. Len(text)
    BY <1>1
  <2>2. set[n + 1] = PR!Wrapped(set[n], text[n + 1], width, size, tracking)
    BY <1>2, <2>1
  <2>3. set[n].full \in Nat /\ text[n + 1] \in S
    BY <2>1
  <2>4. text[n + 1].chars \in Nat \ {0}
    BY <2>3
  <2> QED BY <2>2, <2>3, <2>4, WrappedIsCounted
<1>5. T = Nat
  <2> HIDE DEF T
  <2>1. T \subseteq Nat
    BY DEF T
  <2> QED BY <1>3, <1>4, <2>1, SetInduction
<1>6. set[Len(text)].full \in Nat
  BY <1>1, <1>5
<1> QED BY <1>0, <1>6 DEF PR!LineCount

\* Any line of a style in its bounds is twelve pixels high.
LEMMA LinesAreHigh ==
    ASSUME NEW n \in Nat, n >= 16, NEW style, style.leading \in 80 .. 250
    PROVE  PR!LineHeight(n, style) \in Nat /\ PR!LineHeight(n, style) >= 12
<1>1. PICK l \in Nat : l = style.leading /\ l >= 80
  OBVIOUS
<1>2. n * l \in Nat /\ n * l >= 1280
  <2>1. n * 80 >= 1280
    OBVIOUS
  <2>2. PICK d \in Nat : d = l - 80
    BY <1>1
  <2>3. n * d \in Nat /\ n * l = n * 80 + n * d
    BY <1>1, <2>2
  <2> QED BY ONLY <2>1, <2>3, n \in Nat, l \in Nat
<1>3. PICK m \in Nat : m = n * l /\ m >= 1280
  BY <1>2
<1>4. m \div 100 \in Nat /\ m \div 100 >= 12
  BY <1>3
<1>5. PR!Rounded(m, 100) \in {m \div 100, m \div 100 + 1}
  BY DEF PR!Rounded
<1> QED BY <1>1, <1>3, <1>4, <1>5 DEF PR!LineHeight, PR!Greater

\* A text that fits keeps to the left, the top and the width of its region, and needs no
\* more than its height, nor less than a line of it.
LEMMA BlockFits ==
    ASSUME NEW role \in RV!Range(PR!TextRoles), NEW S, NEW text \in Seq(S), \A w \in S : w.chars \in Nat \ {0},
           NEW style, ~ CA!StyleErrors(style), NEW c, c[4] \in Int, NEW colors,
           PR!FitBlock(role, text, style, c, colors).failure = "none"
    PROVE  \E h \in Nat : /\ 12 <= h /\ h <= c[4]
                          /\ PR!FitBlock(role, text, style, c, colors).bounds = <<c[1], c[2], c[3], h>>
<1>1. style.leading \in 80 .. 250 /\ style.size \in 8 .. 320
  BY DEF CA!StyleErrors
<1>2. PICK least \in Nat : least = PR!MinSize[role] /\ least >= 16
  BY DEF PR!MinSize, PR!TextRoles, RV!Range
<1>3. PICK lines : lines = [size \in least .. style.size |-> PR!LineCount(text, c[3], size, style.tracking)]
  OBVIOUS
<1>4. PICK fits : fits = PR!Fitting(lines, style, c[4])
  OBVIOUS
<1>5. PR!FitBlock(role, text, style, c, colors) = PR!SizedBlock(role, lines, fits, style, c, colors)
  BY <1>2, <1>3, <1>4 DEF PR!FitBlock, PR!LinedBlock
<1>6. fits # {}
  BY <1>5 DEF PR!SizedBlock, PR!NoBlock
<1>7. fits \subseteq least .. style.size
  BY <1>3, <1>4 DEF PR!Fitting
<1>8. PICK size : size = PR!Largest(fits)
  OBVIOUS
<1>9. size \in fits /\ size \in Nat /\ size >= 16 /\ size \in least .. style.size
  <2>0. style.size \in Int /\ style.size >= 8
    <3>1. PICK top : top = style.size
      OBVIOUS
    <3>2. top \in 8 .. 320
      BY <1>1, <3>1
    <3>3. top \in Int /\ top >= 8
      BY ONLY <3>2
    <3> QED BY <3>1, <3>3
  <2>1. fits \subseteq 0 .. style.size /\ style.size \in Nat
    BY <1>2, <1>7, <2>0
  <2>2. size \in fits
    BY <1>6, <1>8, <2>1, LargestIsMember
  <2> QED BY <1>2, <1>7, <2>0, <2>2
<1>10. PICK count \in Nat \ {0} : count = lines[size]
  <2>1. lines[size] = PR!LineCount(text, c[3], size, style.tracking)
    BY <1>3, <1>9
  <2> QED BY <2>1, LineCountIsPositive
<1>11. PICK high \in Nat : high = PR!LineHeight(size, style) /\ high >= 12
  BY <1>1, <1>9, LinesAreHigh
<1>12. PICK h \in Nat : h = high * count /\ h >= 12
  <2>1. PICK d \in Nat : count = d + 1
    <3>1. count - 1 \in Nat /\ count = (count - 1) + 1
      BY <1>10
    <3> QED BY <3>1
  <2>2. PICK m \in Nat : m = high * d
    OBVIOUS
  <2>3. high * (d + 1) = m + high
    BY ONLY <2>2, high \in Nat, d \in Nat
  <2>4. high * count = m + high
    BY <2>1, <2>3
  <2> QED BY ONLY <1>11, <2>2, <2>4, high \in Nat, m \in Nat
<1>13. h <= c[4]
  BY <1>4, <1>9, <1>10, <1>11, <1>12 DEF PR!Fitting
<1>14. PR!FitBlock(role, text, style, c, colors) = PR!BlockOf(role, size, h, style, c, colors)
  BY <1>5, <1>6, <1>8, <1>10, <1>11, <1>12 DEF PR!SizedBlock
<1>15. PR!FitBlock(role, text, style, c, colors).bounds = <<c[1], c[2], c[3], h>>
  BY <1>14 DEF PR!BlockOf, PR!NoBlock
<1> QED BY <1>12, <1>13, <1>15

----------------------------------------------------------------------------
(* The texts that share the region of the headline. *)

\* A text that the engine can set: a role, words and a style in its bounds.
TextReady(p, role) ==
    /\ role \in RV!Range(PR!TextRoles)
    /\ PR!CopyOf(p.copy, role) \in Seq(RV!Range(PR!CopyOf(p.copy, role)))
    /\ \A w \in RV!Range(PR!CopyOf(p.copy, role)) : w.chars \in Nat \ {0}
    /\ ~ CA!StyleErrors(PR!StyleOf(p.spec, role))

\* The headline, the call to action and the offer, if there is one, are set.
LEMMA RequestedIsReady ==
    ASSUME NEW p, SpecReady(p), CopyReady(p)
    PROVE  /\ PR!Requested(p.spec, p.copy) \subseteq RV!Range(PR!TextRoles)
           /\ \A role \in PR!Requested(p.spec, p.copy) : TextReady(p, role)
           /\ {"headline", "cta"} \subseteq PR!Requested(p.spec, p.copy)
           /\ "offer" \in PR!Requested(p.spec, p.copy) <=> p.copy.offer_copy # <<>>
<1>1. PICK copy, t : copy = p.copy /\ t = p.spec.typography
  OBVIOUS
<1>2. ~ CA!TypographyErrors(t, copy.offer_copy # <<>>)
  BY <1>1 DEF SpecReady, CA!SpecErrors
<1>3. PICK roles : roles = {s.role : s \in CA!Range(t)}
  OBVIOUS
<1>4. /\ \A s \in CA!Range(t) : ~ CA!StyleErrors(s)
      /\ {"headline", "cta"} \subseteq roles
      /\ (copy.offer_copy # <<>>) <=> ("offer" \in roles)
  BY <1>2, <1>3 DEF CA!TypographyErrors, CA!RolesOf
<1>5. PICK named : named = RV!Range(PR!TextRoles)
  OBVIOUS
<1>6. named = {"headline", "subheadline", "offer", "supporting", "cta"}
  <2>1. DOMAIN PR!TextRoles = {1, 2, 3, 4, 5}
    BY DEF PR!TextRoles
  <2> QED BY <1>5, <2>1 DEF PR!TextRoles, RV!Range
<1>7. CA!Range(t) = PR!Range(t) /\ RV!Range(PR!TextRoles) = PR!Range(PR!TextRoles)
  BY DEF CA!Range, PR!Range, RV!Range
<1>8. PR!Requested(p.spec, p.copy) =
        {role \in named : PR!CopyOf(copy, role) # <<>> /\ PR!StyleKey(role) \in roles}
  BY <1>1, <1>3, <1>5, <1>7 DEF PR!Requested
<1>9. ASSUME NEW role \in named, PR!StyleKey(role) \in roles PROVE TextReady(p, role)
  <2>1. ~ CA!StyleErrors(PR!StyleOf(p.spec, role))
    <3>1. PICK s \in PR!Range(t) : s.role = PR!StyleKey(role)
      BY <1>3, <1>7, <1>9
    <3>2. PR!StyleOf(p.spec, role) \in PR!Range(t)
      BY <1>1, <3>1 DEF PR!StyleOf
    <3> QED BY <1>4, <1>7, <3>2
  <2>2. PICK f \in {"headline", "subheadline", "supporting_copy", "offer_copy", "cta"} :
           PR!CopyOf(p.copy, role) = p.copy[f]
    <3>1. PR!CopyOf(p.copy, role) \in {p.copy.offer_copy, p.copy.supporting_copy, p.copy[role]}
      BY <1>6 DEF PR!CopyOf
    <3>2. role \in {"headline", "subheadline", "cta"} \/ PR!CopyOf(p.copy, role) \in {p.copy.offer_copy, p.copy.supporting_copy}
      BY <1>6 DEF PR!CopyOf
    <3> QED BY <3>1, <3>2
  <2> QED BY <1>5, <2>1, <2>2 DEF TextReady, CopyReady
<1>10. /\ PR!CopyOf(copy, "headline") = copy.headline /\ PR!CopyOf(copy, "cta") = copy.cta
       /\ PR!CopyOf(copy, "offer") = copy.offer_copy
       /\ PR!StyleKey("headline") = "headline" /\ PR!StyleKey("cta") = "cta" /\ PR!StyleKey("offer") = "offer"
  BY DEF PR!CopyOf, PR!StyleKey
<1>11. copy.headline # <<>> /\ copy.cta # <<>>
  BY <1>1 DEF CopyReady
<1> QED BY <1>1, <1>4, <1>5, <1>6, <1>8, <1>9, <1>10, <1>11

LEMMA FittedUnfolds ==
    ASSUME NEW spec, NEW copy, NEW container, NEW roles, NEW available, Len(roles) \in Nat
    PROVE  PR!FittedUpTo(spec, copy, container, roles, available) =
             [n \in 0 .. Len(roles) |->
                IF n = 0 THEN [y |-> container[2], used |-> 0, blocks |-> <<>>]
                ELSE PR!FitNext(spec, copy, container, roles[n],
                        PR!FittedUpTo(spec, copy, container, roles, available)[n - 1],
                        IF n = Len(roles)
                        THEN available - PR!FittedUpTo(spec, copy, container, roles, available)[n - 1].used
                        ELSE (available * PR!Share(roles[n])) \div PR!Shares(roles))]
<1> DEFINE Step(g, n) == IF n = 0 THEN [y |-> container[2], used |-> 0, blocks |-> <<>>]
                         ELSE PR!FitNext(spec, copy, container, roles[n], g[n - 1],
                                 IF n = Len(roles) THEN available - g[n - 1].used
                                 ELSE (available * PR!Share(roles[n])) \div PR!Shares(roles))
           IsLoop(g, m) == g = [n \in 0 .. m |-> Step(g, n)]
           T == {m \in Nat : \E g : IsLoop(g, m)}
<1>1. 0 \in T
  <2> DEFINE g == [n \in 0 .. 0 |-> [y |-> container[2], used |-> 0, blocks |-> <<>>]]
  <2>1. IsLoop(g, 0)
    OBVIOUS
  <2> QED BY <2>1
<1>2. \A m \in T : m + 1 \in T
  <2> TAKE m \in T
  <2>1. PICK g : IsLoop(g, m)
    OBVIOUS
  <2> DEFINE h == [n \in 0 .. m + 1 |-> IF n = m + 1 THEN Step(g, n) ELSE g[n]]
  <2>2. ASSUME NEW n \in 0 .. m + 1 PROVE h[n] = Step(h, n)
    <3>1. CASE n = 0
      <4>1. h[n] = g[0] /\ g[0] = Step(g, 0)
        BY <2>1, <3>1
      <4> QED BY <3>1, <4>1
    <3>2. CASE n \in 1 .. m
      <4>1. n \in 0 .. m /\ n # 0 /\ n # m + 1 /\ n - 1 \in 0 .. m + 1 /\ n - 1 # m + 1
        BY <3>2
      <4>2. h[n] = g[n] /\ h[n - 1] = g[n - 1]
        <5> HIDE DEF Step
        <5> QED BY <4>1
      <4>3. g[n] = Step(g, n)
        <5> HIDE DEF Step
        <5> QED BY <2>1, <4>1
      <4>4. Step(g, n) = Step(h, n)
        BY <4>1, <4>2
      <4> HIDE DEF Step
      <4> QED BY <4>2, <4>3, <4>4
    <3>3. CASE n = m + 1
      <4>1. h[n] = Step(g, n) /\ h[n - 1] = g[n - 1] /\ n # 0
        BY <3>3
      <4> QED BY <4>1
    <3> QED BY <3>1, <3>2, <3>3
  <2> HIDE DEF Step
  <2>3. h = [n \in 0 .. m + 1 |-> Step(h, n)]
    BY <2>2
  <2> HIDE DEF h
  <2>4. IsLoop(h, m + 1)
    BY <2>3
  <2> QED BY <2>4
<1>3. T = Nat
  <2> HIDE DEF T
  <2>1. T \subseteq Nat
    BY DEF T
  <2> QED BY <1>1, <1>2, <2>1, SetInduction
<1>4. \E g : IsLoop(g, Len(roles))
  BY <1>3
<1>5. IsLoop(CHOOSE g : IsLoop(g, Len(roles)), Len(roles))
  BY <1>4
<1>6. PR!FittedUpTo(spec, copy, container, roles, available) = CHOOSE g : IsLoop(g, Len(roles))
  BY DEF PR!FittedUpTo
<1> QED BY <1>5, <1>6, Zenon

LEMMA AppendIsList ==
    ASSUME NEW s, IsList(s), NEW e
    PROVE  /\ IsList(Append(s, e)) /\ Len(Append(s, e)) = Len(s) + 1
           /\ \A i \in 1 .. Len(s) : Append(s, e)[i] = s[i]
           /\ Append(s, e)[Len(s) + 1] = e
<1>1. PICK S : S = RV!Range(s) \cup {e}
  OBVIOUS
<1>2. s \in Seq(S) /\ e \in S
  BY <1>1 DEF IsList
<1>3. PICK h : h = Append(s, e)
  OBVIOUS
<1>4. /\ h \in Seq(S) /\ Len(h) = Len(s) + 1 /\ Len(s) \in Nat
      /\ \A i \in 1 .. Len(s) : h[i] = s[i] /\ h[Len(s) + 1] = e
  BY <1>2, <1>3
<1>5. PICK n \in Nat : n = Len(h)
  BY <1>4
<1>6. h \in [1 .. n -> RV!Range(h)]
  BY <1>4, <1>5 DEF RV!Range
<1>7. h \in Seq(RV!Range(h))
  BY <1>5, <1>6, SeqDef
<1>8. Append(s, e)[Len(s) + 1] = e
  BY <1>2
<1> QED BY <1>3, <1>4, <1>7, <1>8 DEF IsList

\* The blocks set so far, in the region c: one below the other, a baseline apart.
Stacked(b, f, c, baseline) ==
    /\ \A j \in 1 .. Len(b) :
          /\ b[j].bounds = <<c[1], b[j].bounds[2], c[3], b[j].bounds[4]>>
          /\ b[j].bounds[2] \in Int /\ b[j].bounds[4] \in Int
          /\ c[2] <= b[j].bounds[2] /\ 12 <= b[j].bounds[4]
          /\ b[j].bounds[2] + b[j].bounds[4] + baseline <= f.y
    /\ \A j, k \in 1 .. Len(b) : j < k =>
          b[j].bounds[2] + b[j].bounds[4] + baseline <= b[k].bounds[2]
FittedSoFar(f, n, c, baseline) ==
    /\ f.y \in Int /\ f.used \in Nat /\ f.y = c[2] + f.used + baseline * n
    /\ Stacked(f.blocks, f, c, baseline)
AllFit(blocks) == \A j \in 1 .. Len(blocks) : blocks[j].failure = "none"

\* Another text: it starts a baseline below the last one and is no higher than it may be.
LEMMA NextIsStacked ==
    ASSUME NEW p, NEW role, TextReady(p, role), NEW c, c[2] \in Int, p.spec.grid.baseline \in Nat \ {0},
           NEW before, IsList(before.blocks), NEW n \in Nat, Len(before.blocks) = n,
           AllFit(before.blocks) => FittedSoFar(before, n, c, p.spec.grid.baseline),
           NEW height, AllFit(before.blocks) => height \in Int,
           NEW after, after = PR!FitNext(p.spec, p.copy, c, role, before, height)
    PROVE  /\ IsList(after.blocks) /\ Len(after.blocks) = n + 1
           /\ AllFit(after.blocks) =>
                 /\ FittedSoFar(after, n + 1, c, p.spec.grid.baseline)
                 /\ after.used <= before.used + height
                 /\ before.used \in Nat
<1>1. PICK baseline \in Nat \ {0} : baseline = p.spec.grid.baseline
  OBVIOUS
<1>2. PICK region : region = <<c[1], before.y, c[3], PR!Greater(1, height)>>
  OBVIOUS
<1>3. PICK block : block = PR!FitBlock(role, PR!CopyOf(p.copy, role), PR!StyleOf(p.spec, role), region, p.spec.colors)
  OBVIOUS
<1>4. after = [y |-> before.y + block.bounds[4] + baseline, used |-> before.used + block.bounds[4],
               blocks |-> Append(before.blocks, block)]
  BY <1>1, <1>2, <1>3 DEF PR!FitNext, PR!NextBlock
<1>5. PICK b : b = after.blocks
  OBVIOUS
<1>6. /\ IsList(b) /\ Len(b) = n + 1 /\ b[n + 1] = block
      /\ \A i \in 1 .. n : b[i] = before.blocks[i]
  BY <1>4, <1>5, AppendIsList
<1>7. SUFFICES ASSUME AllFit(b)
               PROVE  /\ FittedSoFar(after, n + 1, c, baseline)
                      /\ after.used <= before.used + height
                      /\ before.used \in Nat
  BY <1>1, <1>5, <1>6
<1>8. block.failure = "none" /\ AllFit(before.blocks)
  <2>1. \A i \in 1 .. n : i \in 1 .. n + 1
    OBVIOUS
  <2> QED BY <1>6, <1>7, <2>1 DEF AllFit
<1>9. FittedSoFar(before, n, c, baseline) /\ height \in Int
  BY <1>1, <1>8
<1>10. PICK y \in Int, u \in Nat, top \in Int, most \in Int :
          /\ y = before.y /\ u = before.used /\ top = c[2] /\ most = PR!Greater(1, height)
          /\ most \in {1, height}
  BY <1>9 DEF FittedSoFar, PR!Greater
<1>11. PICK h \in Nat : 12 <= h /\ h <= most /\ block.bounds = <<c[1], y, c[3], h>>
  <2>1. PICK text : text = PR!CopyOf(p.copy, role)
    OBVIOUS
  <2>2. text \in Seq(RV!Range(text)) /\ (\A w \in RV!Range(text) : w.chars \in Nat \ {0})
        /\ role \in RV!Range(PR!TextRoles) /\ ~ CA!StyleErrors(PR!StyleOf(p.spec, role))
    BY <2>1 DEF TextReady
  <2>3. region[1] = c[1] /\ region[2] = y /\ region[3] = c[3] /\ region[4] = most
    BY <1>2, <1>10
  <2> QED BY <1>3, <1>8, <1>10, <2>1, <2>2, <2>3, BlockFits
<1>12. block.bounds[2] = y /\ block.bounds[4] = h
  BY <1>11
<1>13. h <= height
  BY <1>9, <1>10, <1>11
<1>14. after.y = y + h + baseline /\ after.used = u + h /\ after.used \in Nat /\ after.y \in Int
  <2>1. after.y = before.y + block.bounds[4] + baseline /\ after.used = before.used + block.bounds[4]
    BY <1>4
  <2>2. after.y = y + h + baseline /\ after.used = u + h
    BY <1>10, <1>12, <2>1
  <2>3. y + h + baseline \in Int /\ u + h \in Nat
    OBVIOUS
  <2> QED BY <2>2, <2>3
<1>15. after.y = c[2] + after.used + baseline * (n + 1)
  <2>1. y = top + u + baseline * n
    BY <1>9, <1>10 DEF FittedSoFar
  <2>2. baseline * (n + 1) = baseline * n + baseline
    OBVIOUS
  <2>3. PICK m \in Int : m = baseline * n
    OBVIOUS
  <2>4. y + h + baseline = top + (u + h) + (m + baseline)
    BY <2>1, <2>3
  <2> QED BY <1>10, <1>14, <2>2, <2>3, <2>4
<1>16. /\ \A j \in 1 .. n :
             /\ b[j].bounds = <<c[1], b[j].bounds[2], c[3], b[j].bounds[4]>>
             /\ b[j].bounds[2] \in Int /\ b[j].bounds[4] \in Int
             /\ top <= b[j].bounds[2] /\ 12 <= b[j].bounds[4]
             /\ b[j].bounds[2] + b[j].bounds[4] + baseline <= y
       /\ \A j, k \in 1 .. n : j < k =>
             b[j].bounds[2] + b[j].bounds[4] + baseline <= b[k].bounds[2]
  BY <1>6, <1>9, <1>10 DEF FittedSoFar, Stacked
<1>17. top <= y
  <2>1. y = top + u + baseline * n
    BY <1>9, <1>10 DEF FittedSoFar
  <2>2. baseline * n \in Nat
    OBVIOUS
  <2> QED BY <2>1, <2>2
<1>18. ASSUME NEW j \in 1 .. n + 1
       PROVE  /\ b[j].bounds = <<c[1], b[j].bounds[2], c[3], b[j].bounds[4]>>
              /\ b[j].bounds[2] \in Int /\ b[j].bounds[4] \in Int
              /\ top <= b[j].bounds[2] /\ 12 <= b[j].bounds[4]
              /\ b[j].bounds[2] + b[j].bounds[4] + baseline <= after.y
  <2>1. CASE j \in 1 .. n
    <3>1. PICK v \in Int, w \in Int : /\ v = b[j].bounds[2] /\ w = b[j].bounds[4] /\ v + w + baseline <= y
      BY <1>16, <2>1
    <3>2. v + w + baseline <= y + h + baseline
      BY ONLY <3>1, y \in Int, h \in Nat, baseline \in Nat \ {0}
    <3> QED BY <1>14, <1>16, <2>1, <3>1, <3>2
  <2>2. CASE j = n + 1
    BY <1>6, <1>11, <1>12, <1>14, <1>17, <2>2
  <2> QED BY <2>1, <2>2
<1>19. ASSUME NEW j \in 1 .. n + 1, NEW k \in 1 .. n + 1, j < k
       PROVE  b[j].bounds[2] + b[j].bounds[4] + baseline <= b[k].bounds[2]
  <2>1. j \in 1 .. n
    BY <1>19
  <2>2. CASE k \in 1 .. n
    BY <1>16, <1>19, <2>1, <2>2
  <2>3. CASE k = n + 1
    BY <1>6, <1>12, <1>16, <2>1, <2>3
  <2> QED BY <2>2, <2>3
<1>20. Stacked(b, after, c, baseline)
  BY <1>6, <1>10, <1>18, <1>19 DEF Stacked
<1> QED BY <1>5, <1>9, <1>10, <1>13, <1>14, <1>15, <1>20 DEF FittedSoFar

\* The blocks of n texts: whole within the region c, one below the other, a baseline apart.
GroupSet(b, n, c, baseline) ==
    /\ \A j \in 1 .. n :
          /\ b[j].bounds = <<c[1], b[j].bounds[2], c[3], b[j].bounds[4]>>
          /\ b[j].bounds[2] \in Int /\ b[j].bounds[4] \in Int
          /\ c[2] <= b[j].bounds[2] /\ 12 <= b[j].bounds[4]
          /\ b[j].bounds[2] + b[j].bounds[4] <= c[2] + c[4]
    /\ \A j, k \in 1 .. n : j < k =>
          b[j].bounds[2] + b[j].bounds[4] + baseline <= b[k].bounds[2]
GroupReady(p, group) ==
    /\ p.spec.grid.baseline \in Nat \ {0} /\ Len(group) \in Nat \ {0} /\ DOMAIN group = 1 .. Len(group)
    /\ \A i \in 1 .. Len(group) : TextReady(p, group[i])
NoneFails(b, n) == \A i \in 1 .. n : b[i].failure = "none"

LEMMA GroupFits ==
    ASSUME NEW p, NEW c, Box(c), NEW group, GroupReady(p, group),
           NEW b, b = PR!FitGroup(p.spec, p.copy, c, group), NoneFails(b, Len(group))
    PROVE  GroupSet(b, Len(group), c, p.spec.grid.baseline)
<1> USE DEF GroupReady, NoneFails
<1>1. PICK baseline \in Nat \ {0} : baseline = p.spec.grid.baseline
  OBVIOUS
<1>2. PICK count \in Nat \ {0} : count = Len(group)
  OBVIOUS
<1>3. PICK top \in Int, tall \in Int : top = c[2] /\ tall = c[4]
  BY DEF Box
<1>4. PICK available \in Int : available = tall - baseline * (count - 1)
  OBVIOUS
<1>5. available = c[4] - p.spec.grid.baseline * (Len(group) - 1)
  BY <1>1, <1>2, <1>3, <1>4
<1>6. ~ (available <= 0) /\ b = PR!FitAll(p.spec, p.copy, c, group, available)
  <2>1. CASE available <= 0
    <3>1. b = [i \in 1 .. Len(group) |-> PR!NoBlock("overflow")]
      BY <1>5, <2>1 DEF PR!FitGroup
    <3>2. 1 \in 1 .. Len(group)
      BY <1>2
    <3>3. b[1].failure = "overflow"
      BY <3>1, <3>2 DEF PR!NoBlock
    <3> QED BY <3>2, <3>3
  <2>2. CASE ~ (available <= 0)
    BY <1>5, <2>2 DEF PR!FitGroup
  <2> QED BY <2>1, <2>2
<1>7. PICK set : set = PR!FittedUpTo(p.spec, p.copy, c, group, available)
  OBVIOUS
<1> DEFINE height(n) == IF n = Len(group) THEN available - set[n - 1].used
                        ELSE (available * PR!Share(group[n])) \div PR!Shares(group)
           Right(f, n) == /\ IsList(f.blocks) /\ Len(f.blocks) = n
                          /\ AllFit(f.blocks) => FittedSoFar(f, n, c, baseline)
           T == {n \in Nat : n <= count => Right(set[n], n)}
<1>8. set = [n \in 0 .. Len(group) |->
               IF n = 0 THEN [y |-> c[2], used |-> 0, blocks |-> <<>>]
               ELSE PR!FitNext(p.spec, p.copy, c, group[n], set[n - 1],
                               IF n = Len(group) THEN available - set[n - 1].used
                               ELSE (available * PR!Share(group[n])) \div PR!Shares(group))]
  <2>1. Len(group) \in Nat
    OBVIOUS
  <2> HIDE DEF height, Right, T
  <2>2. PR!FittedUpTo(p.spec, p.copy, c, group, available) =
          [n \in 0 .. Len(group) |->
             IF n = 0 THEN [y |-> c[2], used |-> 0, blocks |-> <<>>]
             ELSE PR!FitNext(p.spec, p.copy, c, group[n],
                     PR!FittedUpTo(p.spec, p.copy, c, group, available)[n - 1],
                     IF n = Len(group)
                     THEN available - PR!FittedUpTo(p.spec, p.copy, c, group, available)[n - 1].used
                     ELSE (available * PR!Share(group[n])) \div PR!Shares(group))]
    BY ONLY <2>1, FittedUnfolds
  <2> QED BY ONLY <1>7, <2>2
<1>9. 0 \in T
  <2>1. set[0] = [y |-> c[2], used |-> 0, blocks |-> <<>>]
    <3>1. 0 \in 0 .. Len(group)
      OBVIOUS
    <3> HIDE DEF height, Right, T
    <3> QED BY <1>8, <3>1
  <2>2. IsList(<<>>) /\ Len(<<>>) = 0 /\ 1 .. 0 = {}
    BY DEF IsList, RV!Range
  <2>3. PICK f : f = set[0]
    OBVIOUS
  <2>4. f.y = top /\ f.used = 0 /\ f.blocks = <<>>
    BY <1>3, <2>1, <2>3
  <2>5. Stacked(f.blocks, f, c, baseline)
    BY <2>2, <2>4 DEF Stacked
  <2>6. top = top + 0 + baseline * 0
    OBVIOUS
  <2>7. FittedSoFar(f, 0, c, baseline)
    BY <1>3, <2>4, <2>5, <2>6 DEF FittedSoFar
  <2> QED BY <2>2, <2>3, <2>4, <2>7
<1>10. ASSUME NEW n \in Nat, n + 1 <= count, Right(set[n], n)
       PROVE  /\ Right(set[n + 1], n + 1)
              /\ AllFit(set[n + 1].blocks) =>
                    set[n].used \in Nat /\ set[n + 1].used <= set[n].used + height(n + 1)
  <2>1. n + 1 \in 0 .. Len(group) /\ n + 1 # 0 /\ (n + 1) - 1 = n /\ n + 1 \in 1 .. Len(group)
    BY <1>2, <1>10
  <2>2. PICK h : h = height(n + 1)
    BY Zenon
  <2>3. set[n + 1] = PR!FitNext(p.spec, p.copy, c, group[n + 1], set[n], h)
    BY <1>8, <2>1, <2>2, Zenon
  <2>4. AllFit(set[n].blocks) => h \in Int
    <3>1. CASE n + 1 = Len(group)
      <4>1. h = available - set[n].used
        BY <2>1, <2>2, <3>1
      <4>2. AllFit(set[n].blocks) => set[n].used \in Nat
        BY <1>10 DEF FittedSoFar
      <4> QED BY <4>1, <4>2
    <3>2. CASE n + 1 # Len(group)
      <4>1. PICK a \in Int, d \in Nat \ {0} : a = available * PR!Share(group[n + 1]) /\ d = PR!Shares(group)
        <5>1. available * PR!Share(group[n + 1]) \in Int
          BY DEF PR!Share
        <5>2. PR!Shares(group) \in Nat \ {0}
          BY <1>2 DEF PR!Shares
        <5> QED BY <5>1, <5>2
      <4>2. h = a \div d
        BY <2>2, <3>2, <4>1, Zenon
      <4> QED BY <4>2
    <3> QED BY <3>1, <3>2
  <2>5. TextReady(p, group[n + 1])
    BY <2>1
  <2>6. PICK before, after : before = set[n] /\ after = set[n + 1]
    OBVIOUS
  <2>7. /\ IsList(before.blocks) /\ Len(before.blocks) = n
        /\ AllFit(before.blocks) => FittedSoFar(before, n, c, p.spec.grid.baseline)
    BY <1>1, <1>10, <2>6
  <2>8. c[2] \in Int
    BY <1>3
  <2>9. /\ IsList(after.blocks) /\ Len(after.blocks) = n + 1
        /\ AllFit(after.blocks) =>
              /\ FittedSoFar(after, n + 1, c, p.spec.grid.baseline)
              /\ after.used <= before.used + h
              /\ before.used \in Nat
    <3> HIDE DEF height, Right, T
    <3>1. after = PR!FitNext(p.spec, p.copy, c, group[n + 1], before, h)
      BY <2>3, <2>6
    <3>2. AllFit(before.blocks) => h \in Int
      BY <2>4, <2>6
    <3>3. p.spec.grid.baseline \in Nat \ {0}
      OBVIOUS
    <3>4. PICK role : role = group[n + 1]
      OBVIOUS
    <3>5. TextReady(p, role) /\ after = PR!FitNext(p.spec, p.copy, c, role, before, h)
      BY <2>5, <3>1, <3>4
    <3> QED BY ONLY SMTT(40), <2>7, <2>8, <3>2, <3>3, <3>5, n \in Nat, NextIsStacked
  <2> QED BY <1>1, <2>2, <2>6, <2>9
<1>11. T = Nat
  <2>1. \A n \in T : n + 1 \in T
    <3> SUFFICES ASSUME NEW n \in T, n + 1 <= count PROVE Right(set[n + 1], n + 1)
      BY DEF T
    <3>1. n \in Nat /\ n <= count /\ Right(set[n], n)
      BY <1>2
    <3> HIDE DEF Right, T
    <3> QED BY <1>10, <3>1
  <2> HIDE DEF T
  <2>2. T \subseteq Nat
    BY DEF T
  <2> QED BY <1>9, <2>1, <2>2, SetInduction
<1>12. PICK m \in Nat : count = m + 1
  <2>1. count - 1 \in Nat /\ count = (count - 1) + 1
    OBVIOUS
  <2> QED BY <2>1
<1>13. PICK f : f = set[count]
  OBVIOUS
<1>14. b = f.blocks
  BY <1>2, <1>6, <1>7, <1>13 DEF PR!FitAll
<1>15. Right(f, count) /\ Right(set[m], m)
  <2>1. count \in T /\ m \in T /\ m <= count
    BY <1>11, <1>12
  <2> HIDE DEF Right
  <2> QED BY <1>13, <2>1
<1>16. Len(b) = count /\ AllFit(b)
  BY <1>2, <1>14, <1>15 DEF AllFit
<1>17. FittedSoFar(f, count, c, baseline)
  BY <1>14, <1>15, <1>16
<1>18. f.used <= available
  <2>1. height(m + 1) = available - set[m].used
    BY <1>2, <1>12
  <2>2. set[m].used \in Nat /\ f.used <= set[m].used + height(m + 1)
    <3> HIDE DEF height, Right
    <3> QED BY <1>10, <1>12, <1>13, <1>14, <1>15, <1>16
  <2>3. PICK u \in Nat : u = set[m].used
    BY <2>2
  <2>4. f.used \in Nat
    BY <1>17 DEF FittedSoFar
  <2>5. PICK v \in Nat : v = f.used
    BY <2>4
  <2>6. v <= u + height(m + 1) /\ height(m + 1) = available - u
    BY <2>1, <2>2, <2>3, <2>5, Zenon
  <2>7. v <= available
    <3> HIDE DEF height
    <3> QED BY <2>6
  <2> QED BY <2>5, <2>7
<1>19. PICK y \in Int : y = f.y /\ y <= top + tall + baseline
  <2>1. PICK u \in Nat, y \in Int : u = f.used /\ y = f.y /\ y = top + u + baseline * count
    BY <1>3, <1>17 DEF FittedSoFar
  <2>2. PICK k \in Int : k = baseline * (count - 1)
    OBVIOUS
  <2>3. baseline * count = k + baseline
    BY <2>2
  <2>4. u <= tall - k
    BY <1>4, <1>18, <2>1, <2>2
  <2> QED BY <2>1, <2>3, <2>4
<1>20. Stacked(b, f, c, baseline)
  BY <1>14, <1>17 DEF FittedSoFar
<1>21. ASSUME NEW j \in 1 .. count
       PROVE  b[j].bounds[2] + b[j].bounds[4] <= c[2] + c[4]
  <2>1. /\ b[j].bounds[2] \in Int /\ b[j].bounds[4] \in Int
        /\ b[j].bounds[2] + b[j].bounds[4] + baseline <= y
    BY <1>16, <1>19, <1>20 DEF Stacked
  <2>2. PICK v \in Int, w \in Int : v = b[j].bounds[2] /\ w = b[j].bounds[4]
    BY <2>1
  <2>3. v + w <= top + tall
    <3>1. v + w + baseline <= y
      BY <2>1, <2>2
    <3> QED BY ONLY <1>19, <3>1, v \in Int, w \in Int, baseline \in Nat \ {0}, y \in Int, top \in Int, tall \in Int
  <2> QED BY <1>3, <2>2, <2>3
<1> QED BY <1>1, <1>2, <1>16, <1>20, <1>21 DEF Stacked, GroupSet

LEMMA ChosenAlike == ASSUME NEW s, NEW wanted PROVE PR!Chosen(s, wanted) = RV!Chosen(s, wanted)
<1>1. PR!ChosenUpTo(s, wanted) = RV!ChosenUpTo(s, wanted)
  BY DEF PR!ChosenUpTo, RV!ChosenUpTo
<1> QED BY <1>1 DEF PR!Chosen, RV!Chosen

\* The texts beside the headline are chosen once each.
LEMMA GroupedOnce ==
    ASSUME NEW roles, "headline" \in roles,
           NEW group, group = PR!Chosen(PR!Grouped, roles)
    PROVE  /\ IsList(group) /\ Len(group) \in Nat \ {0}
           /\ RV!Range(group) = {"headline", "subheadline", "supporting"} \cap roles
           /\ \A i, j \in 1 .. Len(group) : group[i] = group[j] => i = j
<1>1. PICK s : s = PR!Grouped
  OBVIOUS
<1>2. s = <<"headline", "subheadline", "supporting">> /\ Len(s) = 3
  BY <1>1 DEF PR!Grouped
<1>3. PICK chosen : chosen = RV!ChosenUpTo(s, roles)
  OBVIOUS
<1>4. ASSUME NEW n \in 0 .. 3
      PROVE  chosen[n] = IF n = 0 THEN <<>>
                         ELSE IF s[n] \in roles THEN Append(chosen[n - 1], s[n]) ELSE chosen[n - 1]
  <2>1. Len(s) \in Nat /\ n \in 0 .. Len(s)
    BY <1>2
  <2>2. RV!ChosenUpTo(s, roles) =
          [k \in 0 .. Len(s) |->
             IF k = 0 THEN <<>>
             ELSE IF s[k] \in roles THEN Append(RV!ChosenUpTo(s, roles)[k - 1], s[k])
                  ELSE RV!ChosenUpTo(s, roles)[k - 1]]
    BY ONLY <2>1, ChosenUnfolds
  <2> QED BY ONLY <1>3, <2>1, <2>2
<1>5. s[1] = "headline" /\ s[2] = "subheadline" /\ s[3] = "supporting"
  BY <1>2
<1> DEFINE Once(c, n) == /\ IsList(c) /\ (n >= 1 => Len(c) >= 1)
                         /\ \A i \in 1 .. Len(c) : \E k \in 1 .. n : c[i] = s[k]
                         /\ \A i, j \in 1 .. Len(c) : c[i] = c[j] => i = j
<1>6. Once(chosen[0], 0)
  <2>1. chosen[0] = <<>>
    BY <1>4
  <2>2. IsList(<<>>) /\ Len(<<>>) = 0 /\ 1 .. 0 = {}
    BY DEF IsList, RV!Range
  <2> QED BY <2>1, <2>2
<1>7. ASSUME NEW n \in 0 .. 2, Once(chosen[n], n) PROVE Once(chosen[n + 1], n + 1)
  <2>1. PICK c, d : c = chosen[n] /\ d = chosen[n + 1]
    OBVIOUS
  <2>2. n + 1 \in 0 .. 3 /\ n + 1 # 0 /\ (n + 1) - 1 = n
    OBVIOUS
  <2>3. d = IF s[n + 1] \in roles THEN Append(c, s[n + 1]) ELSE c
    BY <1>4, <2>1, <2>2
  <2>4. /\ IsList(c) /\ (n >= 1 => Len(c) >= 1)
        /\ \A i \in 1 .. Len(c) : \E k \in 1 .. n : c[i] = s[k]
        /\ \A i, j \in 1 .. Len(c) : c[i] = c[j] => i = j
    BY <1>7, <2>1
  <2>5. \A k \in 1 .. n : s[k] # s[n + 1] /\ k \in 1 .. n + 1
    BY <1>5
  <2>6. PICK m \in Nat : m = Len(c)
    BY <2>4 DEF IsList
  <2>7. CASE s[n + 1] \in roles
    <3>1. IsList(d) /\ Len(d) = m + 1 /\ (\A i \in 1 .. m : d[i] = c[i]) /\ d[m + 1] = s[n + 1]
      BY <2>3, <2>4, <2>6, <2>7, AppendIsList
    <3>2. ASSUME NEW i \in 1 .. m + 1 PROVE \E k \in 1 .. n + 1 : d[i] = s[k]
      <4>1. CASE i \in 1 .. m
        BY <2>4, <2>5, <2>6, <3>1, <4>1
      <4>2. CASE i = m + 1
        BY <2>2, <3>1, <4>2
      <4> QED BY <4>1, <4>2
    <3>3. ASSUME NEW i \in 1 .. m + 1, NEW j \in 1 .. m + 1, d[i] = d[j] PROVE i = j
      <4>1. \A l \in 1 .. m : d[l] # s[n + 1]
        BY <2>4, <2>5, <2>6, <3>1
      <4>2. (i \in 1 .. m \/ i = m + 1) /\ (j \in 1 .. m \/ j = m + 1)
        OBVIOUS
      <4>3. CASE i \in 1 .. m /\ j \in 1 .. m
        BY <2>4, <2>6, <3>1, <3>3, <4>3
      <4> QED BY <3>1, <3>3, <4>1, <4>2, <4>3
    <3> QED BY <2>1, <2>6, <3>1, <3>2, <3>3
  <2>8. CASE s[n + 1] \notin roles
    <3>1. d = c /\ n >= 1
      <4>1. n # 0
        BY <1>5, <2>8
      <4> QED BY <2>3, <2>8, <4>1
    <3>2. \A i \in 1 .. Len(d) : \E k \in 1 .. n + 1 : d[i] = s[k]
      BY <2>4, <2>5, <3>1
    <3> QED BY <2>1, <2>4, <3>1, <3>2
  <2> QED BY <2>7, <2>8
<1>8. Once(chosen[3], 3)
  <2> HIDE DEF Once
  <2>1. 0 \in 0 .. 2 /\ 1 \in 0 .. 2 /\ 2 \in 0 .. 2 /\ 0 + 1 = 1 /\ 1 + 1 = 2 /\ 2 + 1 = 3
    OBVIOUS
  <2>2. Once(chosen[1], 1)
    BY <1>6, <1>7, <2>1
  <2>3. Once(chosen[2], 2)
    BY <1>7, <2>1, <2>2
  <2> QED BY <1>7, <2>1, <2>3
<1>9. group = chosen[3]
  BY <1>1, <1>2, <1>3, ChosenAlike DEF RV!Chosen
<1>10. IsList(group) /\ Len(group) >= 1 /\ Len(group) \in Nat
       /\ \A i, j \in 1 .. Len(group) : group[i] = group[j] => i = j
  BY <1>8, <1>9 DEF IsList
<1>11. RV!Range(group) = {"headline", "subheadline", "supporting"} \cap roles
  <2>1. PICK S : S = {"headline", "subheadline", "supporting"}
    OBVIOUS
  <2>2. s \in Seq(S) /\ RV!Range(s) = S
    BY <1>2, <2>1 DEF RV!Range
  <2> QED BY <1>1, <2>1, <2>2, ChosenAlike, ChosenIsWanted
<1> QED BY <1>10, <1>11

\* Regions of texts keep a baseline apart, headline above offer above call to action.
LEMMA FlowApart ==
    ASSUME NEW placed, NEW baseline \in Nat \ {0}, ~ PR!Crowded(placed, baseline),
           {"headline", "cta"} \subseteq DOMAIN placed,
           \A r \in DOMAIN placed : Box(placed[r]) /\ placed[r][4] >= 1
    PROVE  /\ placed["headline"][2] + placed["headline"][4] + baseline <= placed["cta"][2]
           /\ "offer" \in DOMAIN placed =>
                /\ placed["headline"][2] + placed["headline"][4] + baseline <= placed["offer"][2]
                /\ placed["offer"][2] + placed["offer"][4] + baseline <= placed["cta"][2]
<1>1. DOMAIN PR!Flow = {1, 2, 3, 4} /\ PR!Flow[1] = "headline" /\ PR!Flow[2] = "offer" /\ PR!Flow[3] = "cta"
  BY DEF PR!Flow
<1>2. ASSUME NEW i \in {1, 2, 3}, NEW j \in {1, 2, 3}, PR!Follows(placed, i, j)
      PROVE  placed[PR!Flow[i]][2] + placed[PR!Flow[i]][4] + baseline <= placed[PR!Flow[j]][2]
  <2>1. ~ (placed[PR!Flow[j]][2] - PR!BottomOf(placed[PR!Flow[i]]) < baseline)
    BY <1>1, <1>2 DEF PR!Crowded
  <2>2. PR!Flow[i] \in DOMAIN placed /\ PR!Flow[j] \in DOMAIN placed
    BY <1>2 DEF PR!Follows
  <2>3. PICK y \in Int, h \in Int, z \in Int :
           y = placed[PR!Flow[i]][2] /\ h = placed[PR!Flow[i]][4] /\ z = placed[PR!Flow[j]][2]
    BY <2>2 DEF Box
  <2> QED BY <2>1, <2>3 DEF PR!BottomOf
<1>3. CASE "offer" \in DOMAIN placed
  <2>1. PR!Follows(placed, 1, 2) /\ PR!Follows(placed, 2, 3)
    BY <1>1, <1>3 DEF PR!Follows
  <2>2. /\ placed["headline"][2] + placed["headline"][4] + baseline <= placed["offer"][2]
        /\ placed["offer"][2] + placed["offer"][4] + baseline <= placed["cta"][2]
    BY <1>1, <1>2, <2>1
  <2>3. PICK y \in Int, h \in Int, v \in Int, w \in Int, z \in Int :
           /\ y = placed["headline"][2] /\ h = placed["headline"][4]
           /\ v = placed["offer"][2] /\ w = placed["offer"][4] /\ w >= 1 /\ z = placed["cta"][2]
    BY <1>3 DEF Box
  <2> QED BY <2>2, <2>3
<1>4. CASE "offer" \notin DOMAIN placed
  <2>1. PR!Follows(placed, 1, 3)
    BY <1>1, <1>4 DEF PR!Follows
  <2> QED BY <1>1, <1>2, <1>4, <2>1
<1> QED BY <1>3, <1>4

RegionOf(role) == IF role \in {"offer", "cta"} THEN role ELSE "headline"
InRegion(b, c) ==
    /\ b = <<c[1], b[2], c[3], b[4]>> /\ b[2] \in Int /\ b[4] \in Int
    /\ c[2] <= b[2] /\ 12 <= b[4] /\ b[2] + b[4] <= c[2] + c[4]
Over(b, d, baseline) == b[2] + b[4] + baseline <= d[2]

\* A draft's texts, when nothing failed: each in its region, a baseline apart.
LEMMA TextsFit ==
    ASSUME NEW p, SpecReady(p), CopyReady(p),
           NEW placed, placed = PR!Placements(p.spec), ~ PR!LayoutErrors(p.spec, placed),
           NEW blocks, blocks = PR!TextBlocks(p.spec, p.copy, placed), PR!TypographyFailures(blocks) = {}
    PROVE  /\ DOMAIN blocks = PR!Requested(p.spec, p.copy)
           /\ \A r \in DOMAIN blocks :
                 RegionOf(r) \in DOMAIN placed /\ InRegion(blocks[r].bounds, placed[RegionOf(r)])
           /\ \A r, q \in DOMAIN blocks : r # q =>
                 \/ Over(blocks[r].bounds, blocks[q].bounds, p.spec.grid.baseline)
                 \/ Over(blocks[q].bounds, blocks[r].bounds, p.spec.grid.baseline)
<1>1. PICK roles : roles = PR!Requested(p.spec, p.copy)
  OBVIOUS
<1>2. /\ roles \subseteq {"headline", "subheadline", "offer", "supporting", "cta"}
      /\ \A role \in roles : TextReady(p, role)
      /\ "headline" \in roles
  <2>1. RV!Range(PR!TextRoles) = {"headline", "subheadline", "offer", "supporting", "cta"}
    <3>1. DOMAIN PR!TextRoles = {1, 2, 3, 4, 5}
      BY DEF PR!TextRoles
    <3> QED BY <3>1 DEF PR!TextRoles, RV!Range
  <2> QED BY <1>1, <2>1, RequestedIsReady
<1>3. PICK group : group = PR!Chosen(PR!Grouped, roles)
  OBVIOUS
<1>4. PICK beside : beside = {"headline", "subheadline", "supporting"}
  OBVIOUS
<1>5. /\ IsList(group) /\ Len(group) \in Nat \ {0} /\ DOMAIN group = 1 .. Len(group)
      /\ RV!Range(group) = beside \cap roles
      /\ \A i, j \in 1 .. Len(group) : group[i] = group[j] => i = j
  BY <1>2, <1>3, <1>4, GroupedOnce DEF IsList
<1>6. PICK single, fitted : /\ fitted = PR!FitGroup(p.spec, p.copy, placed["headline"], group)
                            /\ single = [role \in roles \ PR!Range(PR!Grouped) |-> PR!FitSingle(p.spec, p.copy, placed, role)]
  OBVIOUS
<1>7. PR!Range(PR!Grouped) = beside
  <2>1. DOMAIN PR!Grouped = {1, 2, 3}
    BY DEF PR!Grouped
  <2> QED BY <1>4, <2>1 DEF PR!Grouped, PR!Range
<1>8. blocks = PR!BlocksOf(roles, group, fitted, single)
  BY <1>1, <1>3, <1>6 DEF PR!TextBlocks
<1>9. DOMAIN blocks = roles /\ DOMAIN single = roles \ beside
  BY <1>6, <1>7, <1>8 DEF PR!BlocksOf
<1>10. \A r \in roles : blocks[r].failure = "none"
  BY <1>9 DEF PR!TypographyFailures
<1>11. ASSUME NEW r \in roles \ beside
       PROVE  r \in {"offer", "cta"} /\ blocks[r] = PR!FitSingle(p.spec, p.copy, placed, r)
  BY <1>2, <1>4, <1>6, <1>7, <1>8, <1>9 DEF PR!BlocksOf
<1>12. ASSUME NEW i \in 1 .. Len(group) PROVE group[i] \in roles \cap beside /\ blocks[group[i]] = fitted[i]
  <2>1. group[i] \in roles /\ group[i] \in beside
    BY <1>5 DEF RV!Range
  <2>2. (CHOOSE k \in DOMAIN group : group[k] = group[i]) = i
    BY <1>5
  <2> QED BY <1>8, <1>9, <2>1, <2>2, Zenon DEF PR!BlocksOf
<1>13. ASSUME NEW r \in roles \cap beside PROVE \E i \in 1 .. Len(group) : group[i] = r
  BY <1>5 DEF RV!Range
<1>14. p.spec.grid.baseline \in Nat \ {0} /\ {"headline", "cta"} \subseteq DOMAIN placed
       /\ DOMAIN placed = DOMAIN p.spec.regions
  BY SpecIsSized DEF PR!Placements
<1>15. \A r \in DOMAIN placed : Box(placed[r]) /\ placed[r][4] >= 1
  BY <1>14, PlacedWithin
<1>16. PICK baseline \in Nat \ {0} : baseline = p.spec.grid.baseline
  BY <1>14
<1>17. PICK c : c = placed["headline"] /\ Box(c)
  BY <1>14, <1>15
<1>18. GroupSet(fitted, Len(group), c, baseline)
  <2>1. ASSUME NEW i \in 1 .. Len(group) PROVE TextReady(p, group[i]) /\ fitted[i].failure = "none"
    <3>1. PICK r \in roles : r = group[i] /\ blocks[r] = fitted[i]
      BY <1>12
    <3> QED BY <1>2, <1>10, <3>1
  <2>2. GroupReady(p, group) /\ NoneFails(fitted, Len(group))
    BY <1>5, <1>14, <2>1 DEF GroupReady, NoneFails
  <2>3. fitted = PR!FitGroup(p.spec, p.copy, c, group)
    BY <1>6, <1>17
  <2> QED BY ONLY <1>16, <1>17, <2>2, <2>3, GroupFits
<1>19. ASSUME NEW r \in roles \ beside
       PROVE  r \in DOMAIN placed /\ InRegion(blocks[r].bounds, placed[r]) /\ blocks[r].bounds[2] = placed[r][2]
  <2>1. r \in DOMAIN placed
    BY <1>10, <1>11 DEF PR!FitSingle, PR!NoBlock
  <2>2. PICK d : d = placed[r] /\ Box(d)
    BY <1>15, <2>1
  <2>3. PICK text, style : text = PR!CopyOf(p.copy, r) /\ style = PR!StyleOf(p.spec, r)
    OBVIOUS
  <2>4. blocks[r] = PR!FitBlock(r, text, style, d, p.spec.colors)
    BY <1>11, <2>1, <2>2, <2>3 DEF PR!FitSingle
  <2>5. /\ r \in RV!Range(PR!TextRoles) /\ text \in Seq(RV!Range(text)) /\ ~ CA!StyleErrors(style)
        /\ \A w \in RV!Range(text) : w.chars \in Nat \ {0}
    BY <1>2, <2>3 DEF TextReady
  <2>6. PICK h \in Nat : 12 <= h /\ h <= d[4] /\ blocks[r].bounds = <<d[1], d[2], d[3], h>>
    <3>1. d[4] \in Int /\ PR!FitBlock(r, text, style, d, p.spec.colors).failure = "none"
      BY <1>10, <2>2, <2>4 DEF Box
    <3> QED BY <2>4, <2>5, <3>1, BlockFits
  <2>7. PICK y \in Int, t \in Int : y = d[2] /\ t = d[4]
    BY <2>2 DEF Box
  <2>8. y + h <= y + t
    BY <2>6, <2>7
  <2> QED BY <2>1, <2>2, <2>6, <2>7, <2>8 DEF InRegion
<1>20. ASSUME NEW i \in 1 .. Len(group) PROVE InRegion(fitted[i].bounds, c)
  BY <1>18 DEF InRegion, GroupSet
<1>21. ASSUME NEW r \in roles
       PROVE  RegionOf(r) \in DOMAIN placed /\ InRegion(blocks[r].bounds, placed[RegionOf(r)])
  <2>1. CASE r \in beside
    <3>1. RegionOf(r) = "headline"
      BY <1>4, <2>1 DEF RegionOf
    <3>2. PICK i \in 1 .. Len(group) : group[i] = r /\ blocks[r] = fitted[i]
      BY <1>12, <1>13, <2>1
    <3> QED BY <1>14, <1>17, <1>20, <3>1, <3>2
  <2>2. CASE r \notin beside
    BY <1>11, <1>19, <2>2 DEF RegionOf
  <2> QED BY <2>1, <2>2
<1>22. ~ PR!Crowded(placed, baseline)
  BY <1>16 DEF PR!LayoutErrors
<1>23. /\ placed["headline"][2] + placed["headline"][4] + baseline <= placed["cta"][2]
       /\ "offer" \in DOMAIN placed =>
            /\ placed["headline"][2] + placed["headline"][4] + baseline <= placed["offer"][2]
            /\ placed["offer"][2] + placed["offer"][4] + baseline <= placed["cta"][2]
  BY <1>14, <1>15, <1>22, FlowApart
<1>24. ASSUME NEW b, NEW d, NEW r \in DOMAIN placed, NEW q \in DOMAIN placed,
              InRegion(b, placed[r]), InRegion(d, placed[q]), d[2] = placed[q][2],
              placed[r][2] + placed[r][4] + baseline <= placed[q][2]
       PROVE  Over(b, d, baseline)
  <2>1. Box(placed[r]) /\ Box(placed[q])
    BY <1>15
  <2>2. PICK v \in Int, w \in Int, y \in Int, h \in Int, z \in Int :
           v = b[2] /\ w = b[4] /\ y = placed[r][2] /\ h = placed[r][4] /\ z = placed[q][2]
    BY <1>24, <2>1 DEF Box, InRegion
  <2>3. v + w <= y + h /\ y + h + baseline <= z /\ d[2] = z
    BY <1>24, <2>2 DEF InRegion
  <2>4. v + w + baseline <= z
    BY ONLY <2>3, v \in Int, w \in Int, y \in Int, h \in Int, z \in Int, baseline \in Nat \ {0}
  <2> QED BY <2>2, <2>3, <2>4 DEF Over
<1>25. ASSUME NEW r \in roles, NEW q \in roles, r # q
       PROVE  \/ Over(blocks[r].bounds, blocks[q].bounds, baseline)
              \/ Over(blocks[q].bounds, blocks[r].bounds, baseline)
  <2>1. CASE r \in beside /\ q \in beside
    <3>1. PICK i \in 1 .. Len(group) : group[i] = r /\ blocks[r] = fitted[i]
      BY <1>12, <1>13, <2>1
    <3>2. PICK j \in 1 .. Len(group) : group[j] = q /\ blocks[q] = fitted[j]
      BY <1>12, <1>13, <2>1
    <3>3. i # j
      BY <1>25, <3>1, <3>2
    <3>4. i < j \/ j < i
      BY <1>5, <3>3
    <3> QED BY <1>18, <3>1, <3>2, <3>4 DEF Over, GroupSet
  <2>2. ASSUME NEW s \in roles \cap beside, NEW t \in roles \ beside
        PROVE  Over(blocks[s].bounds, blocks[t].bounds, baseline)
    <3>1. RegionOf(s) = "headline" /\ InRegion(blocks[s].bounds, placed["headline"])
      BY <1>4, <1>21, <2>2 DEF RegionOf
    <3>2. /\ t \in {"offer", "cta"} /\ t \in DOMAIN placed
          /\ InRegion(blocks[t].bounds, placed[t]) /\ blocks[t].bounds[2] = placed[t][2]
      BY <1>11, <1>19
    <3>3. placed["headline"][2] + placed["headline"][4] + baseline <= placed[t][2]
      BY <1>23, <3>2
    <3> QED BY <1>14, <1>24, <3>1, <3>2, <3>3
  <2>3. ASSUME "offer" \in roles, "cta" \in roles
        PROVE  Over(blocks["offer"].bounds, blocks["cta"].bounds, baseline)
    <3>1. "offer" \in roles \ beside /\ "cta" \in roles \ beside
      BY <1>4, <2>3
    <3>2. /\ "offer" \in DOMAIN placed /\ InRegion(blocks["offer"].bounds, placed["offer"])
          /\ "cta" \in DOMAIN placed /\ InRegion(blocks["cta"].bounds, placed["cta"])
          /\ blocks["cta"].bounds[2] = placed["cta"][2]
      BY <1>19, <3>1
    <3> QED BY <1>23, <1>24, <3>2
  <2>4. CASE r \notin beside /\ q \notin beside
    <3>1. r \in {"offer", "cta"} /\ q \in {"offer", "cta"}
      BY <1>11, <2>4
    <3> QED BY <1>25, <2>3, <3>1
  <2> QED BY <2>1, <2>2, <2>4
<1> QED BY <1>1, <1>9, <1>16, <1>21, <1>25

----------------------------------------------------------------------------
(* The products of a draft. *)

LEMMA DivisionHolds ==
    ASSUME NEW n \in Int, NEW d \in Nat \ {0}
    PROVE  /\ n \div d \in Int /\ n % d \in 0 .. d - 1
           /\ n = d * (n \div d) + (n % d)
OBVIOUS

LEMMA ProductGrows ==
    ASSUME NEW k \in Nat, NEW m \in Nat, k <= m, NEW s \in Nat
    PROVE  k * s \in Nat /\ k * s <= m * s
<1>1. PICK d \in Nat : m = k + d
  <2>1. m - k \in Nat /\ m = k + (m - k)
    OBVIOUS
  <2> QED BY <2>1
<1>2. d * s \in Nat /\ (k + d) * s = k * s + d * s /\ k * s \in Nat
  OBVIOUS
<1> QED BY <1>1, <1>2

\* What is rounded does not exceed a whole number that the quotient does not exceed.
LEMMA RoundedAtMost ==
    ASSUME NEW n \in Nat, NEW d \in Nat \ {0}, NEW k \in Nat, n <= k * d
    PROVE  PR!Rounded(n, d) \in Nat /\ PR!Rounded(n, d) <= k
<1>1. PICK q \in Int, r \in Int : q = n \div d /\ r = n % d /\ 0 <= r /\ r < d /\ n = d * q + r
  BY DivisionHolds
<1>2. q \in Nat
  BY <1>1
<1>3. q <= k
  <2>1. CASE q >= k + 1
    <3>1. (k + 1) * d <= q * d
      BY <1>2, <2>1, ProductGrows
    <3>2. (k + 1) * d = k * d + d /\ q * d = d * q /\ k * d \in Nat
      BY <1>2
    <3>3. PICK a \in Nat, b \in Nat : a = k * d /\ b = d * q
      BY <1>2, <3>2
    <3> QED BY <1>1, <3>1, <3>2, <3>3
  <2> QED BY <1>2, <2>1
<1>4. CASE q < k
  <2>1. PR!Rounded(n, d) \in {q, q + 1}
    BY <1>1 DEF PR!Rounded
  <2> QED BY <1>2, <1>4, <2>1
<1>5. CASE q = k
  <2>1. r = 0
    <3>1. PICK a \in Nat : a = k * d
      OBVIOUS
    <3>2. d * q = a
      BY <1>5, <3>1
    <3> QED BY <1>1, <3>1, <3>2
  <2>2. PR!Rounded(n, d) = q
    BY <1>1, <2>1 DEF PR!Rounded
  <2> QED BY <1>5, <2>2
<1> QED BY <1>2, <1>3, <1>4, <1>5

\* An image that is contained in a box does not leave it.
LEMMA ContainedWithin ==
    ASSUME NEW image, image \in (Nat \ {0}) \X (Nat \ {0}), NEW b, Box(b), b[3] >= 1, b[4] >= 1
    PROVE  PR!Within(PR!Contained(image, b), b) /\ Box(PR!Contained(image, b))
<1>1. PICK x \in Int, y \in Int, w \in Nat \ {0}, h \in Nat \ {0} : x = b[1] /\ y = b[2] /\ w = b[3] /\ h = b[4]
  BY DEF Box
<1>2. PICK iw \in Nat \ {0}, ih \in Nat \ {0} : iw = image[1] /\ ih = image[2]
  OBVIOUS
<1>3. PICK width, height : /\ width = PR!Greater(1, IF iw * h <= w * ih THEN PR!Rounded(iw * h, ih) ELSE w)
                           /\ height = PR!Greater(1, IF iw * h <= w * ih THEN h ELSE PR!Rounded(ih * w, iw))
  OBVIOUS
<1>4. PR!Contained(image, b) = <<x + (w - width) \div 2, y + (h - height) \div 2, width, height>>
  BY <1>1, <1>2, <1>3 DEF PR!Contained
<1>5. iw * h \in Nat /\ w * ih \in Nat /\ ih * w \in Nat /\ h * iw \in Nat /\ iw * h = h * iw /\ w * ih = ih * w
  OBVIOUS
<1>6. width \in Nat /\ width <= w /\ height \in Nat /\ height <= h
  <2>1. CASE iw * h <= w * ih
    <3>1. PICK n \in Nat : n = iw * h /\ n <= w * ih
      BY <1>5, <2>1
    <3>2. PR!Rounded(n, ih) \in Nat /\ PR!Rounded(n, ih) <= w
      BY <3>1, RoundedAtMost
    <3>3. width = PR!Greater(1, PR!Rounded(n, ih)) /\ height = PR!Greater(1, h)
      BY <1>3, <2>1, <3>1
    <3> QED BY <3>2, <3>3 DEF PR!Greater
  <2>2. CASE ~ (iw * h <= w * ih)
    <3>1. PICK n \in Nat : n = ih * w
      BY <1>5
    <3>2. n <= h * iw
      BY <1>5, <2>2, <3>1
    <3>3. PR!Rounded(n, iw) \in Nat /\ PR!Rounded(n, iw) <= h
      BY <3>2, RoundedAtMost
    <3>4. width = PR!Greater(1, w) /\ height = PR!Greater(1, PR!Rounded(n, iw))
      BY <1>3, <2>2, <3>1
    <3> QED BY <3>3, <3>4 DEF PR!Greater
  <2> QED BY <2>1, <2>2
<1>7. PICK left \in Nat, top \in Nat : left = (w - width) \div 2 /\ top = (h - height) \div 2
  BY <1>6
<1>8. left + width <= w /\ top + height <= h
  BY <1>6, <1>7
<1> QED BY <1>1, <1>4, <1>6, <1>7, <1>8 DEF PR!Within, PR!RightOf, PR!BottomOf, Box

\* The rooms of the products lie in their region, side by side.
LEMMA RoomsApart ==
    ASSUME NEW region, Box(region), region[3] >= 1, region[4] >= 1,
           NEW count \in Nat \ {0}, PR!ProductWidth(region, count) >= 1,
           NEW room, room = PR!ProductBounds(region, count)
    PROVE  /\ \A i \in 1 .. count :
                 Box(room[i]) /\ room[i][3] >= 1 /\ room[i][4] >= 1 /\ PR!Within(room[i], region)
           /\ \A i, j \in 1 .. count : i < j => PR!RightOf(room[i]) <= room[j][1]
<1>1. PICK x \in Int, y \in Int, w \in Nat \ {0}, h \in Nat \ {0} :
         x = region[1] /\ y = region[2] /\ w = region[3] /\ h = region[4]
  BY DEF Box
<1>2. PICK gap \in Nat : gap = PR!ProductGap(region, count)
  BY <1>1 DEF PR!ProductGap, PR!Lesser
<1>3. PICK m \in Nat : count = m + 1 /\ m = count - 1
  <2>1. count - 1 \in Nat /\ count = (count - 1) + 1
    OBVIOUS
  <2> QED BY <2>1
<1>4. PICK free \in Int : free = w - gap * m
  OBVIOUS
<1>5. PICK one \in Nat \ {0} : one = PR!ProductWidth(region, count) /\ one = free \div count
  <2>1. PR!ProductWidth(region, count) = free \div count
    BY <1>1, <1>2, <1>3, <1>4 DEF PR!ProductWidth
  <2>2. free \div count \in Int
    BY DivisionHolds
  <2> QED BY <2>1, <2>2
<1>6. PICK step \in Nat \ {0} : step = one + gap /\ step = PR!ProductWidth(region, count) + PR!ProductGap(region, count)
  BY <1>2, <1>5
<1>7. m * step + one <= w
  <2>1. count * one <= free
    <3>1. PICK r \in Nat : free = count * one + r
      <4>1. free = count * (free \div count) + (free % count) /\ free % count \in 0 .. count - 1
        BY DivisionHolds
      <4>2. free % count \in Nat
        BY <4>1
      <4> QED BY <1>5, <4>1, <4>2
    <3>2. count * one \in Int
      OBVIOUS
    <3> QED BY <3>1, <3>2
  <2>2. count * one = m * one + one /\ m * step = m * one + gap * m
    BY <1>3, <1>6
  <2>3. PICK a \in Int, b \in Int : a = m * one /\ b = gap * m
    OBVIOUS
  <2> QED BY <1>4, <2>1, <2>2, <2>3
<1>8. ASSUME NEW i \in 1 .. count
      PROVE  /\ (i - 1) * step \in Nat /\ (i - 1) * step <= m * step
             /\ room[i] = <<x + (i - 1) * step, y, IF i = count THEN w - (i - 1) * step ELSE one, h>>
  <2>1. i - 1 \in Nat /\ i - 1 <= m
    BY <1>3
  <2>2. (i - 1) * step \in Nat /\ (i - 1) * step <= m * step
    BY <2>1, ProductGrows
  <2> QED BY <1>1, <1>5, <1>6, <2>2 DEF PR!ProductBounds
<1>9. PICK all \in Nat : all = m * step /\ all + one <= w
  BY <1>7
<1>10. ASSUME NEW i \in 1 .. count
       PROVE  Box(room[i]) /\ room[i][3] >= 1 /\ room[i][4] >= 1 /\ PR!Within(room[i], region)
  <2>1. PICK k \in Nat : k = (i - 1) * step /\ k <= all
    BY <1>8, <1>9
  <2>2. PICK wide \in Nat : wide = (IF i = count THEN w - k ELSE one) /\ wide >= 1 /\ k + wide <= w
    BY <1>9, <2>1
  <2>3. room[i] = <<x + k, y, wide, h>>
    BY <1>8, <2>1, <2>2
  <2> QED BY <1>1, <2>2, <2>3 DEF Box, PR!Within, PR!RightOf, PR!BottomOf
<1>11. ASSUME NEW i \in 1 .. count, NEW j \in 1 .. count, i < j
       PROVE  PR!RightOf(room[i]) <= room[j][1]
  <2>1. PICK k \in Nat, l \in Nat : k = (i - 1) * step /\ l = (j - 1) * step
    BY <1>8
  <2>2. k + step <= l
    <3>1. i \in Nat /\ j - 1 \in Nat /\ i <= j - 1 /\ i - 1 \in Nat
      BY <1>11
    <3>2. i * step <= (j - 1) * step
      BY <3>1, ProductGrows
    <3>3. i * step = (i - 1) * step + step
      BY <3>1
    <3> QED BY <2>1, <3>2, <3>3
  <2>3. i # count
    BY <1>11
  <2>4. room[i] = <<x + k, y, one, h>> /\ room[j][1] = x + l
    BY <1>8, <2>1, <2>3
  <2>5. x + k + one <= x + l
    BY <1>6, <2>2
  <2> QED BY <2>4, <2>5 DEF PR!RightOf
<1> QED BY <1>10, <1>11

----------------------------------------------------------------------------
(* The originals that a draft is made of. *)

Originals(p) == RV!Range(p.policies)

LEMMA ToSetAlike == ASSUME NEW s PROVE PR!Range(s) = RV!Range(s)
BY DEF PR!Range, RV!Range

LEMMA SeqIsList == ASSUME NEW S, NEW s \in Seq(S) PROVE IsList(s) /\ RV!Range(s) \subseteq S
<1>1. PICK n \in Nat : n = Len(s)
  OBVIOUS
<1>2. s \in [1 .. n -> RV!Range(s)]
  BY <1>1 DEF RV!Range
<1>3. s \in Seq(RV!Range(s))
  BY <1>2, SeqDef
<1> QED BY <1>3 DEF IsList, RV!Range

LEMMA ConcatIsList ==
    ASSUME NEW s, IsList(s), NEW t, IsList(t)
    PROVE  IsList(s \o t) /\ RV!Range(s \o t) = RV!Range(s) \cup RV!Range(t)
<1>1. PICK S : S = RV!Range(s) \cup RV!Range(t)
  OBVIOUS
<1>2. s \in Seq(S) /\ t \in Seq(S)
  BY <1>1 DEF IsList
<1>3. PICK c : c = s \o t
  OBVIOUS
<1>4. PICK n \in Nat, m \in Nat : n = Len(s) /\ m = Len(t)
  BY <1>2
<1>5. /\ c \in Seq(S) /\ Len(c) = n + m
      /\ \A i \in 1 .. n : c[i] = s[i]
      /\ \A i \in 1 .. m : c[n + i] = t[i]
  <2>1. \A i \in 1 .. n + m : c[i] = IF i <= n THEN s[i] ELSE t[i - n]
    BY <1>2, <1>3, <1>4
  <2>2. ASSUME NEW i \in 1 .. m PROVE c[n + i] = t[i]
    <3>1. n + i \in 1 .. n + m /\ ~ (n + i <= n) /\ (n + i) - n = i
      OBVIOUS
    <3> QED BY <2>1, <3>1
  <2>3. ASSUME NEW i \in 1 .. n PROVE c[i] = s[i]
    <3>1. i \in 1 .. n + m /\ i <= n
      OBVIOUS
    <3> QED BY <2>1, <3>1
  <2> QED BY <1>2, <1>3, <1>4, <2>2, <2>3
<1>6. RV!Range(s) \subseteq RV!Range(c)
  <2>1. ASSUME NEW i \in 1 .. n PROVE s[i] \in RV!Range(c)
    <3>1. i \in DOMAIN c /\ c[i] = s[i]
      BY <1>5
    <3> QED BY <3>1 DEF RV!Range
  <2> QED BY <1>2, <1>4, <2>1 DEF RV!Range
<1>7. RV!Range(t) \subseteq RV!Range(c)
  <2>1. ASSUME NEW i \in 1 .. m PROVE t[i] \in RV!Range(c)
    <3>1. n + i \in DOMAIN c /\ c[n + i] = t[i]
      BY <1>5
    <3> QED BY <3>1 DEF RV!Range
  <2> QED BY <1>2, <1>4, <2>1 DEF RV!Range
<1>8. IsList(c) /\ RV!Range(c) \subseteq S
  BY <1>5, SeqIsList
<1> QED BY <1>1, <1>3, <1>6, <1>7, <1>8

\* What is chosen of the originals, of those in the library, and as the first.
LEMMA OfRoleIsOf ==
    ASSUME NEW p, OriginalsReady(p), NEW roles
    PROVE  /\ IsList(PR!OfRole(p, roles))
           /\ RV!Range(PR!OfRole(p, roles)) = {a \in Originals(p) : a.role \in roles}
<1>1. PICK S : S = RV!Range(p.policies)
  OBVIOUS
<1>2. p.policies \in Seq(S) /\ PR!Range(p.policies) = S
  BY <1>1, ToSetAlike DEF OriginalsReady
<1>3. PICK wanted : wanted = {a \in S : a.role \in roles}
  OBVIOUS
<1>4. PR!OfRole(p, roles) = RV!Chosen(p.policies, wanted)
  BY <1>2, <1>3, ChosenAlike DEF PR!OfRole
<1>5. PICK c : c = RV!Chosen(p.policies, wanted)
  OBVIOUS
<1>6. c \in Seq(S) /\ RV!Range(c) = S \cap wanted
  BY <1>1, <1>2, <1>5, ChosenIsWanted
<1>7. IsList(c)
  BY <1>6, SeqIsList
<1> QED BY <1>1, <1>3, <1>4, <1>5, <1>6, <1>7 DEF Originals

LEMMA InLibraryIsOf ==
    ASSUME NEW p, NEW s, IsList(s)
    PROVE  /\ IsList(PR!InLibrary(p, s))
           /\ RV!Range(PR!InLibrary(p, s)) = {a \in RV!Range(s) : p.library[a.asset] # "gone"}
<1>1. PICK wanted : wanted = {a \in RV!Range(s) : p.library[a.asset] # "gone"}
  OBVIOUS
<1>2. PR!InLibrary(p, s) = RV!Chosen(s, wanted)
  BY <1>1, ChosenAlike, ToSetAlike DEF PR!InLibrary
<1>3. PICK c : c = RV!Chosen(s, wanted)
  OBVIOUS
<1>4. c \in Seq(RV!Range(s)) /\ RV!Range(c) = RV!Range(s) \cap wanted
  BY <1>3, ChosenIsWanted DEF IsList
<1> QED BY <1>1, <1>2, <1>3, <1>4, SeqIsList

LEMMA FirstOfIsOf ==
    ASSUME NEW s, IsList(s)
    PROVE  /\ IsList(PR!FirstOf(s)) /\ RV!Range(PR!FirstOf(s)) \subseteq RV!Range(s)
           /\ RV!Range(s) # {} => RV!Range(PR!FirstOf(s)) # {}
<1>1. CASE s = <<>>
  BY <1>1 DEF PR!FirstOf, RV!Range
<1>2. CASE s # <<>>
  <2>1. Head(s) = s[1] /\ 1 \in DOMAIN s
    BY <1>2 DEF IsList
  <2>2. PICK e \in RV!Range(s) : e = Head(s)
    BY <2>1 DEF RV!Range
  <2>3. PR!FirstOf(s) = <<e>>
    BY <1>2, <2>2 DEF PR!FirstOf
  <2>4. <<e>> \in Seq(RV!Range(s)) /\ e \in RV!Range(<<e>>)
    BY DEF RV!Range
  <2> QED BY <2>3, <2>4, SeqIsList
<1> QED BY <1>1, <1>2

\* The products and the logo are originals of their roles, the scene is a background.
LEMMA ProductsAre ==
    ASSUME NEW p, OriginalsReady(p)
    PROVE  /\ IsList(PR!ProductsOf(p)) /\ IsList(PR!LogoOf(p))
           /\ RV!Range(PR!ProductsOf(p)) \subseteq {a \in Originals(p) : a.role \in PR!ProductRoles}
           /\ RV!Range(PR!LogoOf(p)) \subseteq {a \in Originals(p) : a.role = "brand_logo"}
<1>1. PICK made, logos : made = PR!OfRole(p, PR!ProductRoles) /\ logos = PR!OfRole(p, {"brand_logo"})
  OBVIOUS
<1>2. /\ IsList(made) /\ RV!Range(made) = {a \in Originals(p) : a.role \in PR!ProductRoles}
      /\ IsList(logos) /\ RV!Range(logos) = {a \in Originals(p) : a.role = "brand_logo"}
  BY <1>1, OfRoleIsOf
<1>3. IsList(PR!FirstOf(logos)) /\ RV!Range(PR!FirstOf(logos)) \subseteq RV!Range(logos)
  BY <1>2, FirstOfIsOf
<1>4. IsList(PR!ProductsOf(p)) /\ RV!Range(PR!ProductsOf(p)) \subseteq RV!Range(made)
  BY <1>1, <1>2, InLibraryIsOf DEF PR!ProductsOf
<1>5. IsList(PR!LogoOf(p)) /\ RV!Range(PR!LogoOf(p)) \subseteq RV!Range(PR!FirstOf(logos))
  BY <1>1, <1>3, InLibraryIsOf DEF PR!LogoOf
<1> QED BY <1>2, <1>3, <1>4, <1>5

HasBackground(p) == \E a \in Originals(p) : a.role \in PR!BackgroundRoles

LEMMA ScenesAre ==
    ASSUME NEW p, OriginalsReady(p), p.scene = PR!NoScene
    PROVE  /\ RV!Range(PR!SceneOf(p)) \subseteq Originals(p)
           /\ HasBackground(p) =>
                 \/ RV!Range(PR!SceneOf(p)) # {}
                 \/ \E a \in Originals(p) : a.role \in PR!BackgroundRoles /\ p.library[a.asset] = "gone"
<1>1. PICK near, far : near = PR!OfRole(p, {"environment"}) /\ far = PR!OfRole(p, {"background_reference"})
  OBVIOUS
<1>2. /\ IsList(near) /\ RV!Range(near) = {a \in Originals(p) : a.role = "environment"}
      /\ IsList(far) /\ RV!Range(far) = {a \in Originals(p) : a.role = "background_reference"}
  BY <1>1, OfRoleIsOf
<1>3. PICK both : both = near \o far
  OBVIOUS
<1>4. IsList(both) /\ RV!Range(both) = {a \in Originals(p) : a.role \in PR!BackgroundRoles}
  <2>1. IsList(both) /\ RV!Range(both) = RV!Range(near) \cup RV!Range(far)
    BY <1>2, <1>3, ConcatIsList
  <2> QED BY <1>2, <2>1 DEF PR!BackgroundRoles
<1>5. PICK first : first = PR!FirstOf(both)
  OBVIOUS
<1>6. IsList(first) /\ RV!Range(first) \subseteq RV!Range(both) /\ (RV!Range(both) # {} => RV!Range(first) # {})
  BY <1>4, <1>5, FirstOfIsOf
<1>7. PR!SceneOf(p) = PR!InLibrary(p, first)
  BY <1>1, <1>3, <1>5 DEF PR!SceneOf, PR!SceneAsset
<1>8. RV!Range(PR!SceneOf(p)) = {a \in RV!Range(first) : p.library[a.asset] # "gone"}
  BY <1>6, <1>7, InLibraryIsOf
<1>9. ASSUME HasBackground(p) PROVE RV!Range(first) # {}
  BY <1>4, <1>6, <1>9 DEF HasBackground
<1> QED BY <1>4, <1>6, <1>8, <1>9

----------------------------------------------------------------------------
(* The parts of a draft that nothing stopped. *)

Places(p) == PR!Placements(p.spec)
Rooms(p) == PR!ProductBounds(Places(p)["product"], Len(PR!ProductsOf(p)))
Blocks(p) == PR!TextBlocks(p.spec, p.copy, Places(p))
Unhindered(p) ==
    /\ PR!Missing(p) = {}
    /\ p.scene # PR!NoScene => PR!Clears(p.report, p.scene.checksum) /\ p.bytes = p.scene.checksum
    /\ ~ PR!LayoutErrors(p.spec, Places(p))
    /\ Len(PR!ProductsOf(p)) > 0 => ~ (PR!ProductWidth(Places(p)["product"], Len(PR!ProductsOf(p))) <= 0)
    /\ PR!TypographyFailures(Blocks(p)) = {}

LEMMA NothingStops == ASSUME NEW p, NEW drawn, PR!Obstacles(p, drawn) = {} PROVE Unhindered(p)
<1>1. PICK placed, count, painted, stops :
         /\ placed = PR!Placements(p.spec) /\ count = Len(PR!ProductsOf(p))
         /\ painted = {c.role : c \in PR!Range(p.spec.colors)}
         /\ stops = PR!Stops(p, drawn, placed, count, painted)
  OBVIOUS
<1>2. PR!Raised(stops) = {}
  BY <1>1 DEF PR!Obstacles
<1>3. /\ {"missing_required_asset", "contaminated_scene", "source", "layout", "typography"} \subseteq DOMAIN stops
      /\ \A o \in DOMAIN stops : ~ stops[o]
  BY <1>1, <1>2 DEF PR!Raised, PR!Stops
<1>4. PR!Missing(p) = {}
  <2>1. ~ stops["missing_required_asset"]
    BY <1>3
  <2> QED BY <1>1, <2>1 DEF PR!Stops
<1>5. p.scene # PR!NoScene => PR!Clears(p.report, p.scene.checksum)
  <2>1. ~ stops["contaminated_scene"]
    BY <1>3
  <2> QED BY <1>1, <2>1 DEF PR!Stops
<1>6. p.scene # PR!NoScene => p.bytes = p.scene.checksum
  <2>1. ~ stops["source"]
    BY <1>3
  <2> QED BY <1>1, <2>1 DEF PR!Stops, PR!PlateErrors
<1>7. /\ ~ PR!LayoutErrors(p.spec, placed)
      /\ count > 0 => ~ (PR!ProductWidth(placed["product"], count) <= 0)
  <2>1. ~ stops["layout"]
    BY <1>3
  <2> QED BY <1>1, <2>1 DEF PR!Stops
<1>8. PR!TypographyFailures(PR!TextBlocks(p.spec, p.copy, placed)) = {}
  <2>1. ~ stops["typography"]
    BY <1>3
  <2> QED BY <1>1, <2>1 DEF PR!Stops
<1> QED BY <1>1, <1>4, <1>5, <1>6, <1>7, <1>8 DEF Unhindered, Places, Blocks

\* Each component of a draft is one of these.
IsScene(p, c) ==
    /\ c.kind = "scene"
    /\ \/ p.scene # PR!NoScene /\ c.source = PR!Nobody /\ c.bytes = p.bytes
       \/ p.scene = PR!NoScene /\ \E a \in RV!Range(PR!SceneOf(p)) : c.source = a.asset
IsProduct(p, c, i) == c = PR!Original(p, "product", i, PR!ProductsOf(p)[i], Rooms(p)[i])
IsText(p, c, role) ==
    c = PR!Component(PR!TextKind(role), role, 0, PR!Nobody, PR!Nobody, Blocks(p)[role].bounds)
IsLogo(p, c) == \E a \in RV!Range(PR!LogoOf(p)) : c = PR!Original(p, "logo", 0, a, Places(p)["logo"])

LEMMA DraftIs ==
    ASSUME NEW p, NEW c
    PROVE  c \in PR!Draft(p) <=>
              \/ c \in (IF p.scene # PR!NoScene THEN {PR!Covering(p, PR!Nobody, p.bytes)}
                        ELSE {PR!Covering(p, a.asset, a.asset) : a \in RV!Range(PR!SceneOf(p))})
              \/ \E i \in DOMAIN p.spec.graphics :
                    c = PR!Component("graphic_element", "graphic", i, PR!Nobody, PR!Nobody, p.spec.graphics[i].region)
              \/ \E i \in DOMAIN PR!ProductsOf(p) : IsProduct(p, c, i)
              \/ \E role \in DOMAIN Blocks(p) : IsText(p, c, role)
              \/ IsLogo(p, c)
<1>1. PICK placed, products, room, blocks :
         /\ placed = Places(p) /\ products = PR!ProductsOf(p) /\ room = Rooms(p) /\ blocks = Blocks(p)
  OBVIOUS
<1>2. PR!Draft(p) = PR!Composed(p, products, room, blocks, placed["logo"])
  BY <1>1 DEF PR!Draft, PR!DraftAt, Places, Rooms, Blocks
<1>3. PICK scene : scene = IF p.scene # PR!NoScene THEN {PR!Covering(p, PR!Nobody, p.bytes)}
                           ELSE {PR!Covering(p, a.asset, a.asset) : a \in RV!Range(PR!SceneOf(p))}
  OBVIOUS
<1>4. PR!Composed(p, products, room, blocks, placed["logo"]) =
        scene
        \cup {PR!Component("graphic_element", "graphic", i, PR!Nobody, PR!Nobody, p.spec.graphics[i].region) :
                 i \in DOMAIN p.spec.graphics}
        \cup {PR!Original(p, "product", i, products[i], room[i]) : i \in DOMAIN products}
        \cup {PR!Component(PR!TextKind(role), role, 0, PR!Nobody, PR!Nobody, blocks[role].bounds) : role \in DOMAIN blocks}
        \cup {PR!Original(p, "logo", 0, a, placed["logo"]) : a \in RV!Range(PR!LogoOf(p))}
  BY <1>3, ToSetAlike, Zenon DEF PR!Composed
<1> QED BY <1>1, <1>2, <1>3, <1>4 DEF IsProduct, IsText, IsLogo

\* What a component's kind says of where it comes from.
LEMMA PartsByKind ==
    ASSUME NEW p, NEW c \in PR!Draft(p)
    PROVE  /\ c.kind = "scene" => IsScene(p, c)
           /\ c.kind = "product" => \E i \in DOMAIN PR!ProductsOf(p) : IsProduct(p, c, i)
           /\ c.kind \in {"typography", "offer", "cta"} => \E role \in DOMAIN Blocks(p) : IsText(p, c, role)
           /\ c.kind = "logo" => IsLogo(p, c)
<1>1. CASE c \in (IF p.scene # PR!NoScene THEN {PR!Covering(p, PR!Nobody, p.bytes)}
                  ELSE {PR!Covering(p, a.asset, a.asset) : a \in RV!Range(PR!SceneOf(p))})
  <2>1. CASE p.scene # PR!NoScene
    <3>1. c = PR!Covering(p, PR!Nobody, p.bytes)
      BY <1>1, <2>1
    <3> QED BY <2>1, <3>1 DEF PR!Covering, PR!Component, IsScene
  <2>2. CASE p.scene = PR!NoScene
    <3>1. PICK a \in RV!Range(PR!SceneOf(p)) : c = PR!Covering(p, a.asset, a.asset)
      BY <1>1, <2>2
    <3> QED BY <2>2, <3>1 DEF PR!Covering, PR!Component, IsScene
  <2> QED BY <2>1, <2>2
<1>2. CASE \E i \in DOMAIN p.spec.graphics :
              c = PR!Component("graphic_element", "graphic", i, PR!Nobody, PR!Nobody, p.spec.graphics[i].region)
  BY <1>2 DEF PR!Component
<1>3. CASE \E i \in DOMAIN PR!ProductsOf(p) : IsProduct(p, c, i)
  <2>1. c.kind = "product"
    BY <1>3 DEF IsProduct, PR!Original, PR!Component
  <2> QED BY <1>3, <2>1
<1>4. CASE \E role \in DOMAIN Blocks(p) : IsText(p, c, role)
  <2>1. c.kind \in {"typography", "offer", "cta"}
    BY <1>4 DEF IsText, PR!Component, PR!TextKind
  <2> QED BY <1>4, <2>1
<1>5. CASE IsLogo(p, c)
  <2>1. c.kind = "logo"
    BY <1>5 DEF IsLogo, PR!Original, PR!Component
  <2> QED BY <1>5, <2>1
<1> QED BY <1>1, <1>2, <1>3, <1>4, <1>5, DraftIs

PlanReady(p) ==
    /\ {"copy", "spec", "policies", "library", "images", "plan", "scene", "bytes", "report"} \subseteq DOMAIN p
    /\ SpecReady(p) /\ CopyReady(p) /\ OriginalsReady(p)

\* What a composition in hand says: its draft is one that nothing stopped.
Composes ==
    /\ PlanReady(input) /\ Unhindered(input) /\ output = PR!Draft(input)
    /\ input.scene = PR!NoScene => HasBackground(input)
    /\ input.report.inspected => input.report.seen = input.report.checksum

LEMMA PlateCertified == ASSUME Composes PROVE PlateIsCertified
<1> SUFFICES ASSUME NEW c \in output, c.kind = "scene", c.source = PR!Nobody
             PROVE  input.report.decision = "PASS" /\ input.report.inspected /\ input.report.seen = c.bytes
  BY DEF PlateIsCertified
<1>1. IsScene(input, c)
  BY PartsByKind DEF Composes
<1>2. input.scene # PR!NoScene /\ c.bytes = input.bytes
  <2>1. CASE input.scene = PR!NoScene
    <3>1. PICK a \in RV!Range(PR!SceneOf(input)) : c.source = a.asset
      BY <1>1, <2>1 DEF IsScene
    <3>2. a \in Originals(input)
      BY <2>1, ScenesAre DEF Composes, PlanReady
    <3> QED BY <3>1, <3>2 DEF Composes, PlanReady, OriginalsReady, Originals
  <2> QED BY <1>1, <2>1 DEF IsScene
<1>3. PR!Clears(input.report, input.scene.checksum) /\ input.bytes = input.scene.checksum
  BY <1>2 DEF Composes, Unhindered
<1> QED BY <1>2, <1>3 DEF Composes, PR!Clears

LEMMA SceneInDraft == ASSUME Composes PROVE SceneStands
<1>1. OriginalsReady(input)
  BY DEF Composes, PlanReady
<1>2. CASE input.scene # PR!NoScene
  <2>1. PICK c : c = PR!Covering(input, PR!Nobody, input.bytes)
    OBVIOUS
  <2>2. c \in PR!Draft(input)
    BY <1>2, <2>1, DraftIs
  <2>3. c.kind = "scene"
    BY <2>1 DEF PR!Covering, PR!Component
  <2> QED BY <2>2, <2>3 DEF SceneStands, Composes
<1>3. CASE input.scene = PR!NoScene
  <2>1. CASE RV!Range(PR!SceneOf(input)) # {}
    <3>1. PICK a : a \in RV!Range(PR!SceneOf(input))
      BY <2>1
    <3>2. PICK c : c = PR!Covering(input, a.asset, a.asset)
      OBVIOUS
    <3>3. c \in PR!Draft(input)
      BY <1>3, <3>1, <3>2, DraftIs
    <3>4. c.kind = "scene"
      BY <3>2 DEF PR!Covering, PR!Component
    <3> QED BY <3>3, <3>4 DEF SceneStands, Composes
  <2>2. CASE RV!Range(PR!SceneOf(input)) = {}
    <3>1. \E a \in Originals(input) : a.role \in PR!BackgroundRoles /\ input.library[a.asset] = "gone"
      BY <1>1, <1>3, <2>2, ScenesAre DEF Composes
    <3> QED BY <3>1 DEF SceneStands, Originals
  <2> QED BY <2>1, <2>2
<1> QED BY <1>2, <1>3

LEMMA RequiredIsShown ==
    ASSUME NEW p, OriginalsReady(p), Unhindered(p), NEW a \in Originals(p), a.required
    PROVE  \/ \E i \in DOMAIN PR!ProductsOf(p) : PR!ProductsOf(p)[i].asset = a.asset
           \/ \E b \in RV!Range(PR!LogoOf(p)) : b.asset = a.asset
<1>1. a.asset \in PR!Visuals(p)
  BY ToSetAlike DEF Unhindered, PR!Missing, Originals
<1>2. RV!Range(PR!ProductsOf(p) \o PR!LogoOf(p)) = RV!Range(PR!ProductsOf(p)) \cup RV!Range(PR!LogoOf(p))
  BY ProductsAre, ConcatIsList
<1>3. PICK b \in RV!Range(PR!ProductsOf(p)) \cup RV!Range(PR!LogoOf(p)) : b.asset = a.asset
  BY <1>1, <1>2, ToSetAlike DEF PR!Visuals
<1> QED BY <1>3 DEF RV!Range

LEMMA GatesPassed == ASSUME Composes PROVE DraftPassesGates
<1>1. PICK policies, parts, view :
         /\ policies = Originals(input)
         /\ parts = {[kind |-> c.kind, source |-> c.source, checksum |-> c.source # PR!Nobody,
                      preserved |-> c.kind \in VR!IdentityKinds] : c \in output}
         /\ view = [policies |-> policies,
                    contract |-> [required |-> {a.asset : a \in {a \in policies : a.required}}],
                    draft |-> [components |-> parts]]
  OBVIOUS
<1>2. OriginalsReady(input) /\ Unhindered(input) /\ output = PR!Draft(input)
  BY DEF Composes, PlanReady
<1>3. \A a \in policies : a.asset # PR!Nobody
  BY <1>1, <1>2 DEF OriginalsReady, Originals
<1>4. /\ \A i \in DOMAIN PR!ProductsOf(input) :
            PR!ProductsOf(input)[i] \in policies /\ PR!ProductsOf(input)[i].role \in PR!ProductRoles
      /\ \A a \in RV!Range(PR!LogoOf(input)) : a \in policies /\ a.role = "brand_logo"
  BY <1>1, <1>2, ProductsAre DEF RV!Range
<1>5. ASSUME NEW v \in parts, v.kind = "product"
      PROVE  \E a \in policies : v.source = a.asset
  <2>1. PICK c \in output : v.kind = c.kind /\ v.source = c.source
    BY <1>1, <1>5
  <2>2. PICK i \in DOMAIN PR!ProductsOf(input) : IsProduct(input, c, i)
    BY <1>2, <1>5, <2>1, PartsByKind
  <2>3. c.source = PR!ProductsOf(input)[i].asset
    BY <2>2 DEF IsProduct, PR!Original, PR!Component
  <2> QED BY <1>4, <2>1, <2>3
<1>6. ASSUME NEW v \in parts, v.kind = "logo"
      PROVE  \E a \in policies : v.source = a.asset /\ a.role = "brand_logo"
  <2>1. PICK c \in output : v.kind = c.kind /\ v.source = c.source
    BY <1>1, <1>6
  <2>2. PICK a \in RV!Range(PR!LogoOf(input)) : c = PR!Original(input, "logo", 0, a, Places(input)["logo"])
    BY <1>2, <1>6, <2>1, PartsByKind DEF IsLogo
  <2>3. c.source = a.asset
    BY <2>2 DEF PR!Original, PR!Component
  <2> QED BY <1>4, <2>1, <2>3
<1>7. ASSUME NEW v \in parts
      PROVE  (v.checksum <=> v.source # PR!Nobody) /\ (v.preserved <=> v.kind \in VR!IdentityKinds)
  <2>1. PICK c \in output : v = [kind |-> c.kind, source |-> c.source, checksum |-> c.source # PR!Nobody,
                                preserved |-> c.kind \in VR!IdentityKinds]
    BY <1>1
  <2>2. /\ v.kind = c.kind /\ v.source = c.source /\ v.checksum = (c.source # PR!Nobody)
        /\ v.preserved = (c.kind \in VR!IdentityKinds)
    BY <2>1
  <2> QED BY <2>2
<1>a. ASSUME NEW c \in output PROVE \E v \in parts : v.kind = c.kind /\ v.source = c.source
  <2>1. PICK v : v = [kind |-> c.kind, source |-> c.source, checksum |-> c.source # PR!Nobody,
                      preserved |-> c.kind \in VR!IdentityKinds]
    OBVIOUS
  <2>2. v \in parts
    BY <1>1, <2>1
  <2>3. v.kind = c.kind /\ v.source = c.source
    BY <2>1
  <2> QED BY <2>2, <2>3
<1>8. ~ VR!FidelityErrors(view)
  <2>1. ASSUME NEW v \in parts, v.kind \in VR!IdentityKinds
        PROVE  v.source \in {a.asset : a \in policies} /\ v.checksum /\ v.preserved
    <3>1. v.kind \in {"product", "logo"}
      BY <2>1 DEF VR!IdentityKinds
    <3>2. PICK a \in policies : v.source = a.asset
      BY <1>5, <1>6, <3>1
    <3> QED BY <1>3, <1>7, <2>1, <3>2
  <2>2. view.policies = policies /\ view.draft.components = parts
    BY <1>1
  <2> QED BY <2>1, <2>2 DEF VR!FidelityErrors
<1>9. ASSUME NEW a \in policies, a.required PROVE a.asset \in {v.source : v \in parts}
  <2>1. CASE \E i \in DOMAIN PR!ProductsOf(input) : PR!ProductsOf(input)[i].asset = a.asset
    <3>1. PICK i \in DOMAIN PR!ProductsOf(input) : PR!ProductsOf(input)[i].asset = a.asset
      BY <2>1
    <3>2. PICK c : c = PR!Original(input, "product", i, PR!ProductsOf(input)[i], Rooms(input)[i])
      OBVIOUS
    <3>3. c \in output
      BY <1>2, <3>2, DraftIs DEF IsProduct
    <3>4. c.source = a.asset
      BY <3>1, <3>2 DEF PR!Original, PR!Component
    <3> QED BY <1>a, <3>3, <3>4
  <2>2. CASE \E b \in RV!Range(PR!LogoOf(input)) : b.asset = a.asset
    <3>1. PICK b \in RV!Range(PR!LogoOf(input)) : b.asset = a.asset
      BY <2>2
    <3>2. PICK c : c = PR!Original(input, "logo", 0, b, Places(input)["logo"])
      OBVIOUS
    <3>3. c \in output
      BY <1>2, <3>2, DraftIs DEF IsLogo
    <3>4. c.source = a.asset
      BY <3>1, <3>2 DEF PR!Original, PR!Component
    <3> QED BY <1>a, <3>3, <3>4
  <2> QED BY <1>1, <1>2, <1>9, <2>1, <2>2, RequiredIsShown
<1>10. VR!MissingAssets(view) = {}
  <2>1. /\ view.policies = policies /\ view.draft.components = parts
        /\ view.contract.required = {a.asset : a \in {a \in policies : a.required}}
    BY <1>1
  <2> QED BY <1>9, <2>1 DEF VR!MissingAssets
<1>11. ~ VR!LogoErrors(view)
  <2>1. view.policies = policies /\ view.draft.components = parts
    BY <1>1
  <2>2. PICK logos : logos = {v \in parts : v.kind = "logo"} /\ logos = VR!OfKind(view, "logo")
    BY <2>1 DEF VR!OfKind
  <2>3. CASE logos = {}
    <3>1. ASSUME NEW a \in policies, a.role = "brand_logo", a.required PROVE FALSE
      <4>1. CASE \E i \in DOMAIN PR!ProductsOf(input) : PR!ProductsOf(input)[i].asset = a.asset
        <5>1. PICK b \in policies : b.role \in PR!ProductRoles /\ b.asset = a.asset
          BY <1>4, <4>1
        <5>2. b = a
          BY <1>1, <1>2, <5>1 DEF OriginalsReady, Originals
        <5> QED BY <3>1, <5>1, <5>2 DEF PR!ProductRoles
      <4>2. CASE \E b \in RV!Range(PR!LogoOf(input)) : b.asset = a.asset
        <5>1. PICK b : b \in RV!Range(PR!LogoOf(input))
          BY <4>2
        <5>2. PICK c : c = PR!Original(input, "logo", 0, b, Places(input)["logo"])
          OBVIOUS
        <5>3. c \in output /\ c.kind = "logo"
          BY <1>2, <5>1, <5>2, DraftIs DEF IsLogo, PR!Original, PR!Component
        <5> QED BY <1>a, <2>2, <2>3, <5>3
      <4> QED BY <1>1, <1>2, <3>1, <4>1, <4>2, RequiredIsShown
    <3> QED BY <2>1, <2>2, <2>3, <3>1 DEF VR!LogoErrors
  <2>4. CASE logos # {}
    <3>1. ASSUME NEW v \in logos PROVE v.source \in VR!OfRoles(view, {"brand_logo"})
      <4>1. PICK a \in policies : v.source = a.asset /\ a.role = "brand_logo"
        BY <1>6, <2>2
      <4> QED BY <2>1, <4>1 DEF VR!OfRoles
    <3> QED BY <2>2, <2>4, <3>1 DEF VR!LogoErrors
  <2> QED BY <2>3, <2>4
<1> QED BY <1>1, <1>8, <1>10, <1>11 DEF DraftPassesGates, Originals

LEMMA ProductsKeepApart == ASSUME Composes PROVE ProductsApart
<1>1. OriginalsReady(input) /\ Unhindered(input) /\ output = PR!Draft(input) /\ SpecReady(input)
  BY DEF Composes, PlanReady
<1>2. PICK region, products, count, room :
         /\ region = Places(input)["product"] /\ products = PR!ProductsOf(input)
         /\ count = Len(products) /\ room = Rooms(input)
  OBVIOUS
<1>3. IsList(products) /\ count \in Nat /\ DOMAIN products = 1 .. count
      /\ \A i \in 1 .. count : products[i] \in Originals(input)
  <2>1. IsList(products) /\ RV!Range(products) \subseteq Originals(input)
    BY <1>1, <1>2, ProductsAre
  <2>2. count \in Nat /\ DOMAIN products = 1 .. count
    BY <1>2, <2>1 DEF IsList
  <2> QED BY <2>1, <2>2 DEF RV!Range
<1>4. Box(region) /\ region[3] >= 1 /\ region[4] >= 1
  <2>1. "product" \in DOMAIN input.spec.regions
    BY <1>1, SpecIsSized
  <2> QED BY <1>1, <1>2, <2>1, PlacedWithin DEF Places
<1>5. ASSUME count > 0
      PROVE  /\ \A i \in 1 .. count :
                   Box(room[i]) /\ room[i][3] >= 1 /\ room[i][4] >= 1 /\ PR!Within(room[i], region)
             /\ \A i, j \in 1 .. count : i < j => PR!RightOf(room[i]) <= room[j][1]
  <2>1. count \in Nat \ {0}
    BY <1>3, <1>5
  <2>2. room = PR!ProductBounds(region, count)
    BY <1>2 DEF Rooms
  <2>3. ~ (PR!ProductWidth(region, count) <= 0)
    BY <1>1, <1>2, <1>5 DEF Unhindered
  <2>4. PR!ProductWidth(region, count) \in Int
    <3>1. PICK w \in Nat \ {0} : w = region[3]
      BY <1>4 DEF Box
    <3>2. PICK gap \in Nat : gap = PR!ProductGap(region, count)
      BY <3>1 DEF PR!ProductGap, PR!Lesser
    <3>3. PICK free \in Int : free = w - gap * (count - 1)
      BY <2>1
    <3>4. PR!ProductWidth(region, count) = free \div count
      BY <3>1, <3>2, <3>3 DEF PR!ProductWidth
    <3> QED BY <2>1, <3>4, DivisionHolds
  <2>5. PR!ProductWidth(region, count) >= 1
    BY <2>3, <2>4
  <2> QED BY <1>4, <2>1, <2>2, <2>5, RoomsApart
<1>6. ASSUME NEW i \in 1 .. count, NEW c, IsProduct(input, c, i)
      PROVE  /\ PR!Within(c.bounds, room[i]) /\ Box(c.bounds) /\ Box(room[i])
             /\ PR!Within(room[i], region)
  <2>1. count > 0
    BY <1>3
  <2>2. Box(room[i]) /\ room[i][3] >= 1 /\ room[i][4] >= 1 /\ PR!Within(room[i], region)
    BY <1>5, <2>1
  <2>3. c.bounds = PR!Contained(input.images[products[i].asset], room[i])
    BY <1>2, <1>6 DEF IsProduct, PR!Original, PR!Component
  <2>4. input.images[products[i].asset] \in (Nat \ {0}) \X (Nat \ {0})
    BY <1>1, <1>3 DEF OriginalsReady, Originals
  <2> QED BY <2>2, <2>3, <2>4, ContainedWithin
<1>7. ASSUME NEW c \in output, c.kind = "product" PROVE \E i \in 1 .. count : IsProduct(input, c, i)
  BY <1>1, <1>2, <1>3, <1>7, PartsByKind
<1>8. ASSUME NEW c \in output, c.kind = "product" PROVE PR!Within(c.bounds, region)
  <2>1. PICK i \in 1 .. count : IsProduct(input, c, i)
    BY <1>7, <1>8
  <2>2. /\ PR!Within(c.bounds, room[i]) /\ Box(c.bounds) /\ Box(room[i]) /\ PR!Within(room[i], region)
    BY <1>6, <2>1
  <2>3. PICK a, b : a = c.bounds /\ b = room[i]
    OBVIOUS
  <2>4. PR!Within(a, b) /\ Box(a) /\ Box(b) /\ PR!Within(b, region) /\ Box(region)
    BY <1>4, <2>2, <2>3
  <2>5. PR!Within(a, region)
    BY <2>4 DEF PR!Within, PR!RightOf, PR!BottomOf, Box
  <2> QED BY <2>3, <2>5
<1>9. ASSUME NEW c, NEW d, NEW i \in 1 .. count, NEW j \in 1 .. count, i < j,
             IsProduct(input, c, i), IsProduct(input, d, j)
      PROVE  PR!RightOf(c.bounds) <= d.bounds[1]
  <2>1. PR!Within(c.bounds, room[i]) /\ Box(c.bounds) /\ Box(room[i])
        /\ PR!Within(d.bounds, room[j]) /\ Box(d.bounds) /\ Box(room[j])
    BY <1>6, <1>9
  <2>2. PR!RightOf(room[i]) <= room[j][1]
    BY <1>3, <1>5, <1>9
  <2>3. PICK a, b, u, v : a = c.bounds /\ b = d.bounds /\ u = room[i] /\ v = room[j]
    OBVIOUS
  <2>4. PR!RightOf(a) <= PR!RightOf(u) /\ PR!RightOf(u) <= v[1] /\ v[1] <= b[1]
    BY <2>1, <2>2, <2>3 DEF PR!Within
  <2>5. PR!RightOf(a) \in Int /\ PR!RightOf(u) \in Int /\ v[1] \in Int /\ b[1] \in Int
    BY <2>1, <2>3 DEF Box, PR!RightOf
  <2> QED BY <2>3, <2>4, <2>5
<1>10. ASSUME NEW c \in output, NEW d \in output, c.kind = "product", d.kind = "product", c # d
       PROVE  ~ PR!Overlaps(c.bounds, d.bounds)
  <2>1. PICK i \in 1 .. count : IsProduct(input, c, i)
    BY <1>7, <1>10
  <2>2. PICK j \in 1 .. count : IsProduct(input, d, j)
    BY <1>7, <1>10
  <2>3. i # j
    BY <1>10, <2>1, <2>2 DEF IsProduct
  <2>4. i < j \/ j < i
    BY <1>3, <2>3
  <2> QED BY <1>9, <2>1, <2>2, <2>4 DEF PR!Overlaps
<1> QED BY <1>2, <1>8, <1>10 DEF ProductsApart, Places

LEMMA TextsKeepRoom == ASSUME Composes PROVE TextsHaveRoom
<1>1. /\ Unhindered(input) /\ output = PR!Draft(input) /\ SpecReady(input) /\ CopyReady(input)
  BY DEF Composes, PlanReady
<1>2. PICK placed, blocks, baseline, texts :
         /\ placed = Places(input) /\ blocks = Blocks(input) /\ baseline = input.spec.grid.baseline
         /\ texts = {c \in output : c.kind \in {"typography", "offer", "cta"}}
  OBVIOUS
<1>3. placed = PR!Placements(input.spec) /\ DOMAIN placed = DOMAIN input.spec.regions
  BY <1>2 DEF Places, PR!Placements
<1>4. /\ DOMAIN blocks = PR!Requested(input.spec, input.copy)
      /\ \A r \in DOMAIN blocks :
            RegionOf(r) \in DOMAIN placed /\ InRegion(blocks[r].bounds, placed[RegionOf(r)])
      /\ \A r, q \in DOMAIN blocks : r # q =>
            \/ Over(blocks[r].bounds, blocks[q].bounds, baseline)
            \/ Over(blocks[q].bounds, blocks[r].bounds, baseline)
  <2>1. ~ PR!LayoutErrors(input.spec, placed) /\ PR!TypographyFailures(blocks) = {}
    BY <1>1, <1>2 DEF Unhindered
  <2>2. blocks = PR!TextBlocks(input.spec, input.copy, placed)
    BY <1>2 DEF Blocks
  <2> QED BY <1>1, <1>2, <1>3, <2>1, <2>2, TextsFit
<1>5. ASSUME NEW role \in DOMAIN blocks PROVE \E c \in texts : c.id[1] = role
  <2>1. PICK c : c = PR!Component(PR!TextKind(role), role, 0, PR!Nobody, PR!Nobody, blocks[role].bounds)
    OBVIOUS
  <2>2. c \in output
    BY <1>1, <1>2, <2>1, DraftIs DEF IsText
  <2>3. c.kind \in {"typography", "offer", "cta"} /\ c.id[1] = role
    BY <2>1 DEF PR!Component, PR!TextKind
  <2> QED BY <1>2, <2>2, <2>3
<1>6. /\ {"headline", "cta"} \subseteq DOMAIN blocks
      /\ input.copy.offer_copy # <<>> => "offer" \in DOMAIN blocks
  BY <1>1, <1>4, RequestedIsReady
<1>7. ASSUME NEW c \in texts
      PROVE  \E r \in DOMAIN blocks :
                /\ c = PR!Component(PR!TextKind(r), r, 0, PR!Nobody, PR!Nobody, blocks[r].bounds)
                /\ c.bounds = blocks[r].bounds
                /\ RegionOf(r) = IF c.kind = "typography" THEN "headline" ELSE c.kind
  <2>1. PICK r \in DOMAIN blocks : IsText(input, c, r)
    BY <1>1, <1>2, PartsByKind
  <2>2. c = PR!Component(PR!TextKind(r), r, 0, PR!Nobody, PR!Nobody, blocks[r].bounds)
    BY <1>2, <2>1 DEF IsText
  <2>3. c.kind = PR!TextKind(r) /\ c.bounds = blocks[r].bounds
    BY <2>2 DEF PR!Component
  <2>4. RegionOf(r) = IF c.kind = "typography" THEN "headline" ELSE c.kind
    BY <2>3 DEF PR!TextKind, RegionOf
  <2> QED BY <2>2, <2>3, <2>4
<1>8. ASSUME NEW c \in texts, NEW region, region = placed[IF c.kind = "typography" THEN "headline" ELSE c.kind]
      PROVE  PR!Within(c.bounds, region) /\ PR!Within(region, PR!SafeBounds(input.spec))
  <2>1. PICK r \in DOMAIN blocks :
           c.bounds = blocks[r].bounds /\ RegionOf(r) = IF c.kind = "typography" THEN "headline" ELSE c.kind
    BY <1>7
  <2>2. RegionOf(r) \in DOMAIN input.spec.regions /\ region = placed[RegionOf(r)] /\ InRegion(c.bounds, region)
    BY <1>3, <1>4, <1>8, <2>1
  <2>3. Box(region) /\ PR!Within(region, PR!Container(input.spec, RegionOf(r)))
    BY <1>1, <1>3, <2>2, PlacedWithin
  <2>4. PR!Container(input.spec, RegionOf(r)) = PR!SafeBounds(input.spec)
    <3>1. RegionOf(r) \in {"headline", "offer", "cta"}
      BY DEF RegionOf
    <3> QED BY <3>1 DEF PR!Container
  <2>5. PICK b : b = c.bounds
    OBVIOUS
  <2>6. PR!Within(b, region)
    <3>1. InRegion(b, region)
      BY <2>2, <2>5
    <3>2. b[1] = region[1] /\ b[3] = region[3]
      BY <3>1 DEF InRegion
    <3> QED BY <2>3, <3>1, <3>2 DEF InRegion, Box, PR!Within, PR!RightOf, PR!BottomOf
  <2> QED BY <2>3, <2>4, <2>5, <2>6
<1>9. ASSUME NEW c \in texts, NEW d \in texts, c # d
      PROVE  \/ PR!BottomOf(c.bounds) + baseline <= d.bounds[2]
             \/ PR!BottomOf(d.bounds) + baseline <= c.bounds[2]
  <2>1. PICK r \in DOMAIN blocks :
           /\ c = PR!Component(PR!TextKind(r), r, 0, PR!Nobody, PR!Nobody, blocks[r].bounds)
           /\ c.bounds = blocks[r].bounds
    BY <1>7
  <2>2. PICK q \in DOMAIN blocks :
           /\ d = PR!Component(PR!TextKind(q), q, 0, PR!Nobody, PR!Nobody, blocks[q].bounds)
           /\ d.bounds = blocks[q].bounds
    BY <1>7
  <2>3. r # q
    BY <1>9, <2>1, <2>2
  <2>4. Over(c.bounds, d.bounds, baseline) \/ Over(d.bounds, c.bounds, baseline)
    BY <1>4, <2>1, <2>2, <2>3
  <2> QED BY <2>4 DEF Over, PR!BottomOf
<1>10. {"headline", "cta"} \cup (IF input.copy.offer_copy = <<>> THEN {} ELSE {"offer"})
          \subseteq {c.id[1] : c \in texts}
  BY <1>5, <1>6
<1>11. ASSUME Done("composition") PROVE TextsHaveRoom
  <2>1. /\ \A c \in texts :
              LET region == placed[IF c.kind = "typography" THEN "headline" ELSE c.kind]
              IN  PR!Within(c.bounds, region) /\ PR!Within(region, PR!SafeBounds(input.spec))
        /\ \A c, d \in texts : c # d =>
              \/ PR!BottomOf(c.bounds) + baseline <= d.bounds[2]
              \/ PR!BottomOf(d.bounds) + baseline <= c.bounds[2]
    BY <1>8, <1>9
  <2> QED BY <1>2, <1>3, <1>10, <2>1 DEF TextsHaveRoom
<1> QED BY <1>11 DEF TextsHaveRoom

----------------------------------------------------------------------------
(* From the plan to the draft. *)

Plannable == {"generation_planning", "production", "scene_purity", "composition"}

\* A scene is left out only where an approved background stands for it.
SceneIsPlanned ==
    /\ agent \in {"production", "scene_purity"} =>
          (input.plan.decision = "COMPOSE_ONLY" => HasBackground(input))
    /\ agent = "generation_planning" /\ status = "done" =>
          (output.decision = "COMPOSE_ONLY" => HasBackground(input))
    /\ agent = "production" /\ status = "done" => (output = PR!NoScene => HasBackground(input))
    /\ agent \in {"scene_purity", "composition"} => (input.scene = PR!NoScene => HasBackground(input))

\* The bytes that were inspected are those of the checksum that was cleared.
SeenIsCleared ==
    /\ agent = "scene_purity" /\ status = "done" => (output.inspected => output.seen = output.checksum)
    /\ agent = "composition" => (input.report.inspected => input.report.seen = input.report.checksum)

PlannedInv ==
    /\ agent \in Plannable => PlanReady(input)
    /\ SceneIsPlanned /\ SeenIsCleared
    /\ agent = "composition" /\ status = "done" => Unhindered(input) /\ output = PR!Draft(input)

LEMMA StaysReady ==
    ASSUME NEW p, PlanReady(p), NEW q, DOMAIN p \subseteq DOMAIN q,
           q.copy = p.copy, q.spec = p.spec, q.policies = p.policies, q.images = p.images
    PROVE  PlanReady(q) /\ Originals(q) = Originals(p) /\ (HasBackground(q) <=> HasBackground(p))
<1>1. SpecReady(q)
  BY DEF PlanReady, SpecReady
<1>2. CopyReady(q)
  BY DEF PlanReady, CopyReady
<1>3. OriginalsReady(q)
  BY DEF PlanReady, OriginalsReady
<1>4. Originals(q) = Originals(p)
  BY DEF Originals
<1> QED BY <1>1, <1>2, <1>3, <1>4 DEF PlanReady, HasBackground

LEMMA PlannedInvInit == Init => PlannedInv
<1> SUFFICES ASSUME Init PROVE PlannedInv
  OBVIOUS
<1>1. agent \in Entry /\ input \in Inputs[agent] /\ status = "asking"
  BY DEF Init
<1>2. agent \in Plannable => agent = "generation_planning"
  BY <1>1 DEF Entry, Plannable
<1>3. ASSUME agent = "generation_planning" PROVE PlanReady(input)
  <2>1. input \in Inputs["generation_planning"]
    BY <1>1, <1>3
  <2> QED BY <2>1, PlanningInputs DEF PlanReady, SpecReady, CopyReady, OriginalsReady
<1> QED BY <1>1, <1>2, <1>3 DEF PlannedInv, SceneIsPlanned, SeenIsCleared, Plannable

LEMMA OutsidePlan == ASSUME agent' \notin Plannable PROVE PlannedInv'
BY DEF PlannedInv, SceneIsPlanned, SeenIsCleared, Plannable

LEMMA PlanUndecided ==
    ASSUME PlannedInv, agent' = agent, input' = input, status' # "done" PROVE PlannedInv'
<1>1. PlanReady(input)' <=> PlanReady(input)
  BY DEF PlanReady, SpecReady, CopyReady, OriginalsReady
<1>2. HasBackground(input)' <=> HasBackground(input)
  BY DEF HasBackground, Originals
<1> QED BY <1>1, <1>2 DEF PlannedInv, SceneIsPlanned, SeenIsCleared

LEMMA PlanIsMade == ASSUME PlannedInv, PlanGeneration PROVE PlannedInv'
<1>1. /\ agent = "generation_planning" /\ agent' = agent /\ input' = input
      /\ output' = PR!GenerationPlan(input)
  BY DEF PlanGeneration, Return
<1>2. PR!GenerationPlan(input).decision = "COMPOSE_ONLY" => HasBackground(input)
  <2>1. PICK roles : roles = {a.role : a \in PR!Range(input.policies)}
    OBVIOUS
  <2>2. PR!GenerationPlan(input).decision = "COMPOSE_ONLY" => roles \cap PR!BackgroundRoles # {}
    BY <2>1 DEF PR!GenerationPlan
  <2> QED BY <2>1, <2>2, ToSetAlike DEF HasBackground, Originals
<1>3. PlanReady(input') /\ (HasBackground(input') <=> HasBackground(input))
  BY <1>1 DEF PlannedInv, Plannable
<1>4. output'.decision = "COMPOSE_ONLY" => HasBackground(input')
  BY <1>1, <1>2, <1>3
<1> QED BY <1>1, <1>3, <1>4 DEF PlannedInv, SceneIsPlanned, SeenIsCleared

LEMMA PlanIsHanded == ASSUME PlannedInv, HandToProduction PROVE PlannedInv'
<1>1. agent = "generation_planning" /\ status = "done" /\ PlanReady(input)
  BY DEF HandToProduction, PlannedInv, Plannable
<1>2. PICK next : next = [input EXCEPT !.plan = output]
  OBVIOUS
<1>3. agent' = "production" /\ input' = next /\ status' = "asking"
  BY <1>2 DEF HandToProduction, Start
<1>4. /\ DOMAIN input \subseteq DOMAIN next /\ next.plan = output /\ next.copy = input.copy
      /\ next.spec = input.spec /\ next.policies = input.policies /\ next.images = input.images
  BY <1>1, <1>2 DEF PlanReady
<1>5. PlanReady(next) /\ (HasBackground(next) <=> HasBackground(input))
  BY <1>1, <1>4, StaysReady
<1>6. next.plan.decision = "COMPOSE_ONLY" => HasBackground(next)
  BY <1>1, <1>4, <1>5 DEF PlannedInv, SceneIsPlanned
<1>7. PlanReady(input') /\ (input'.plan.decision = "COMPOSE_ONLY" => HasBackground(input'))
  BY <1>3, <1>5, <1>6
<1> QED BY <1>3, <1>7 DEF PlannedInv, SceneIsPlanned, SeenIsCleared

LEMMA PlateIsMade == ASSUME PlannedInv, SkipScene \/ GenerateScene PROVE PlannedInv'
<1>1. agent = "production" /\ PlanReady(input)
  BY DEF SkipScene, GenerateScene, Shown, Asking, PlannedInv, Plannable
<1>2. CASE SkipScene
  <2>1. agent' = agent /\ input' = input /\ input.plan.decision = "COMPOSE_ONLY"
    BY <1>2 DEF SkipScene, Return
  <2>2. HasBackground(input') /\ PlanReady(input')
    BY <1>1, <2>1 DEF PlannedInv, SceneIsPlanned
  <2> QED BY <1>1, <2>1, <2>2 DEF PlannedInv, SceneIsPlanned, SeenIsCleared
<1>3. CASE GenerateScene
  <2>1. PICK image \in Answers[agent] : Refuse \/ Return(PR!Plate(image))
    BY <1>3 DEF GenerateScene
  <2>2. CASE Refuse
    BY <2>2, PlanUndecided DEF Refuse
  <2>3. CASE Return(PR!Plate(image))
    <3>1. agent' = agent /\ input' = input /\ output' = PR!Plate(image)
      BY <2>3 DEF Return
    <3>2. PR!Plate(image).checksum = image.checksum /\ PR!NoScene.checksum = PR!Nobody
      BY DEF PR!Plate, PR!NoScene
    <3>3. output' # PR!NoScene
      BY <1>1, <2>1, <3>1, <3>2, PlateAnswers
    <3>4. /\ PlanReady(input') /\ (HasBackground(input') <=> HasBackground(input))
          /\ input'.plan.decision = "COMPOSE_ONLY" => HasBackground(input')
      BY <1>1, <3>1 DEF PlannedInv, SceneIsPlanned
    <3> QED BY <1>1, <3>1, <3>3, <3>4 DEF PlannedInv, SceneIsPlanned, SeenIsCleared
  <2> QED BY <2>1, <2>2, <2>3
<1> QED BY <1>2, <1>3

LEMMA PlateIsHanded == ASSUME PlannedInv, HandToPurity PROVE PlannedInv'
<1>1. agent = "production" /\ status = "done" /\ PlanReady(input)
  BY DEF HandToPurity, PlannedInv, Plannable
<1>2. PICK bytes \in {output.checksum, Drifted} :
         Start("scene_purity", [input EXCEPT !.scene = output, !.bytes = bytes])
  BY DEF HandToPurity
<1>3. PICK next : next = [input EXCEPT !.scene = output, !.bytes = bytes]
  OBVIOUS
<1>4. agent' = "scene_purity" /\ input' = next /\ status' = "asking"
  BY <1>2, <1>3 DEF Start
<1>5. /\ DOMAIN input \subseteq DOMAIN next /\ next.plan = input.plan /\ next.copy = input.copy
      /\ next.spec = input.spec /\ next.policies = input.policies /\ next.images = input.images
      /\ next.scene = output
  BY <1>1, <1>3 DEF PlanReady
<1>6. PlanReady(next) /\ (HasBackground(next) <=> HasBackground(input))
  BY <1>1, <1>5, StaysReady
<1>7. /\ next.plan.decision = "COMPOSE_ONLY" => HasBackground(next)
      /\ next.scene = PR!NoScene => HasBackground(next)
  BY <1>1, <1>5, <1>6 DEF PlannedInv, SceneIsPlanned
<1>8. /\ PlanReady(input') /\ (input'.plan.decision = "COMPOSE_ONLY" => HasBackground(input'))
      /\ input'.scene = PR!NoScene => HasBackground(input')
  BY <1>4, <1>6, <1>7
<1> QED BY <1>4, <1>8 DEF PlannedInv, SceneIsPlanned, SeenIsCleared

\* An inspection that ends says which bytes it saw.
LEMMA PlateIsSeen == ASSUME PlannedInv, NothingToInspect \/ InspectScene PROVE PlannedInv'
<1>1. agent = "scene_purity" /\ status = "asking" /\ PlanReady(input)
  BY DEF NothingToInspect, InspectScene, Shown, Asking, PlannedInv, Plannable
<1>2. ASSUME agent' = agent, input' = input, output'.inspected => output'.seen = output'.checksum
      PROVE  PlannedInv'
  <2>1. /\ PlanReady(input') /\ (HasBackground(input') <=> HasBackground(input))
        /\ input'.plan.decision = "COMPOSE_ONLY" => HasBackground(input')
        /\ input'.scene = PR!NoScene => HasBackground(input')
    BY <1>1, <1>2 DEF PlannedInv, SceneIsPlanned
  <2> QED BY <1>1, <1>2, <2>1 DEF PlannedInv, SceneIsPlanned, SeenIsCleared
<1>3. CASE NothingToInspect
  <2>1. agent' = agent /\ input' = input /\ output' = PR!Uninspected(input)
    BY <1>3 DEF NothingToInspect, Return
  <2>2. ~ PR!Uninspected(input).inspected
    BY DEF PR!Uninspected
  <2> QED BY <1>2, <2>1, <2>2
<1>4. CASE InspectScene
  <2>1. PICK answer : Remember(answer) \/ Refuse \/ Conclude(PR!PurityReport(input, answer.x), input.scene.checksum)
    BY <1>4 DEF InspectScene, Unusable
  <2>2. CASE Remember(answer) \/ Refuse
    BY <1>1, <2>2, PlanUndecided DEF Remember, Refuse
  <2>3. CASE Conclude(PR!PurityReport(input, answer.x), input.scene.checksum)
    <3>1. PICK report : report = PR!PurityReport(input, answer.x)
      OBVIOUS
    <3>2. {"inspected", "seen", "checksum", "history"} \subseteq DOMAIN report
          /\ report.seen = input.bytes /\ report.checksum = input.scene.checksum
      BY <3>1 DEF PR!PurityReport
    <3>3. input.bytes = input.scene.checksum
      <4>1. ~ Unfit /\ input.scene # PR!NoScene
        BY <1>4 DEF InspectScene, Shown
      <4>2. agent \notin Witnesses
        BY <1>1 DEF Witnesses, RV!ReadBy
      <4> QED BY <1>1, <4>1, <4>2 DEF Unfit
    <3>4. CASE Return(report)
      <4>1. agent' = agent /\ input' = input /\ output' = report
        BY <3>4 DEF Return
      <4> QED BY <1>2, <3>2, <3>3, <4>1
    <3>5. CASE Refuse
      BY <1>1, <3>5, PlanUndecided DEF Refuse
    <3>6. ASSUME NEW history, Return([report EXCEPT !.history = history]) PROVE PlannedInv'
      <4>1. agent' = agent /\ input' = input /\ output' = [report EXCEPT !.history = history]
        BY <3>6 DEF Return
      <4>2. output'.seen = report.seen /\ output'.checksum = report.checksum
        BY <3>2, <4>1
      <4> QED BY <1>2, <3>2, <3>3, <4>1, <4>2
    <3> QED BY <2>3, <3>1, <3>4, <3>5, <3>6 DEF Conclude
  <2> QED BY <2>1, <2>2, <2>3
<1> QED BY <1>3, <1>4

LEMMA PlateIsRemade == ASSUME PlannedInv, HandToRegeneration PROVE PlannedInv'
<1>1. agent = "scene_purity" /\ PlanReady(input)
  BY DEF HandToRegeneration, PlannedInv, Plannable
<1>2. PICK next : next = [input EXCEPT !.scene = PR!NoScene, !.history = RV!Settled(output.history)]
  OBVIOUS
<1>3. agent' = "production" /\ input' = next /\ status' = "asking"
  BY <1>2 DEF HandToRegeneration, Start
<1>4. /\ DOMAIN input \subseteq DOMAIN next /\ next.plan = input.plan /\ next.copy = input.copy
      /\ next.spec = input.spec /\ next.policies = input.policies /\ next.images = input.images
  BY <1>1, <1>2 DEF PlanReady
<1>5. PlanReady(next) /\ (HasBackground(next) <=> HasBackground(input))
  BY <1>1, <1>4, StaysReady
<1>6. next.plan.decision = "COMPOSE_ONLY" => HasBackground(next)
  BY <1>1, <1>4, <1>5 DEF PlannedInv, SceneIsPlanned
<1>7. PlanReady(input') /\ (input'.plan.decision = "COMPOSE_ONLY" => HasBackground(input'))
  BY <1>3, <1>5, <1>6
<1> QED BY <1>3, <1>7 DEF PlannedInv, SceneIsPlanned, SeenIsCleared

\* What happens meanwhile changes no part that is read, and brings no plate without bytes.
LEMMA WorldsStayReady ==
    ASSUME NEW p, PlanReady(p), p.scene = PR!NoScene => HasBackground(p), NEW world \in Worlds(p)
    PROVE  /\ PlanReady(world) /\ world.report = p.report
           /\ world.scene = PR!NoScene => HasBackground(world)
<1>1. CASE world = p
  BY <1>1 DEF PlanReady
<1>2. CASE world \in OriginalLost(p)
  <2>1. PICK a, s : world = [p EXCEPT !.library[a] = s]
    BY <1>2 DEF OriginalLost
  <2>2. /\ DOMAIN p \subseteq DOMAIN world /\ world.copy = p.copy /\ world.spec = p.spec
        /\ world.policies = p.policies /\ world.images = p.images
        /\ world.report = p.report /\ world.scene = p.scene
    BY <2>1 DEF PlanReady
  <2> QED BY <2>2, StaysReady
<1>3. CASE world \in PlateDrifted(p)
  <2>1. PICK b : world = [p EXCEPT !.bytes = b]
    BY <1>3 DEF PlateDrifted
  <2>2. /\ DOMAIN p \subseteq DOMAIN world /\ world.copy = p.copy /\ world.spec = p.spec
        /\ world.policies = p.policies /\ world.images = p.images
        /\ world.report = p.report /\ world.scene = p.scene
    BY <2>1 DEF PlanReady
  <2> QED BY <2>2, StaysReady
<1>4. CASE world \in PlateReplaced(p)
  <2>1. PICK image \in Answers["production"] :
              world = [p EXCEPT !.scene = PR!Plate(image), !.bytes = image.checksum]
    BY <1>4 DEF PlateReplaced
  <2>2. /\ DOMAIN p \subseteq DOMAIN world /\ world.copy = p.copy /\ world.spec = p.spec
        /\ world.policies = p.policies /\ world.images = p.images
        /\ world.report = p.report /\ world.scene = PR!Plate(image)
    BY <2>1 DEF PlanReady
  <2>3. PR!Plate(image).checksum = image.checksum /\ PR!NoScene.checksum = PR!Nobody
    BY DEF PR!Plate, PR!NoScene
  <2>4. world.scene # PR!NoScene
    BY <2>1, <2>2, <2>3, PlateAnswers
  <2> QED BY <2>2, <2>4, StaysReady
<1>5. world = p \/ world \in OriginalLost(p) \cup PlateDrifted(p) \cup PlateReplaced(p)
  BY ONLY world \in Worlds(p) DEF Worlds
<1> QED BY <1>1, <1>2, <1>3, <1>4, <1>5

LEMMA PlateIsComposed == ASSUME PlannedInv, HandToComposition PROVE PlannedInv'
<1>1. agent = "scene_purity" /\ status = "done" /\ PlanReady(input)
  BY DEF HandToComposition, PlannedInv, Plannable
<1>2. PICK next : next = [input EXCEPT !.report = output]
  OBVIOUS
<1>3. PICK world \in Worlds(next) : Start("composition", world)
  BY <1>2 DEF HandToComposition
<1>4. agent' = "composition" /\ input' = world /\ status' = "asking"
  BY <1>3 DEF Start
<1>5. /\ DOMAIN input \subseteq DOMAIN next /\ next.scene = input.scene /\ next.copy = input.copy
      /\ next.spec = input.spec /\ next.policies = input.policies /\ next.images = input.images
      /\ next.report = output
  BY <1>1, <1>2 DEF PlanReady
<1>6. PlanReady(next) /\ (HasBackground(next) <=> HasBackground(input))
  BY <1>1, <1>5, StaysReady
<1>7. next.scene = PR!NoScene => HasBackground(next)
  BY <1>1, <1>5, <1>6 DEF PlannedInv, SceneIsPlanned
<1>8. PlanReady(world) /\ world.report = output /\ (world.scene = PR!NoScene => HasBackground(world))
  BY <1>5, <1>6, <1>7, <1>3, WorldsStayReady
<1>9. world.report.inspected => world.report.seen = world.report.checksum
  BY <1>1, <1>8 DEF PlannedInv, SeenIsCleared
<1>10. /\ PlanReady(input') /\ (input'.scene = PR!NoScene => HasBackground(input'))
       /\ input'.report.inspected => input'.report.seen = input'.report.checksum
  BY <1>4, <1>8, <1>9
<1> QED BY <1>4, <1>10 DEF PlannedInv, SceneIsPlanned, SeenIsCleared

LEMMA DraftIsMade == ASSUME PlannedInv, Compose PROVE PlannedInv'
<1>1. agent = "composition" /\ status = "asking" /\ PlanReady(input)
  BY DEF Compose, PlannedInv, Plannable
<1>2. PICK drawn \in SUBSET PR!FontFaults :
         \/ PR!Obstacles(input, drawn) = {} /\ Return(PR!Draft(input))
         \/ status' = "refused" /\ UNCHANGED <<agent, input, output>>
  BY DEF Compose
<1>3. CASE status' = "refused" /\ UNCHANGED <<agent, input, output>>
  BY <1>3, PlanUndecided
<1>4. CASE PR!Obstacles(input, drawn) = {} /\ Return(PR!Draft(input))
  <2>1. Unhindered(input)
    BY <1>4, NothingStops
  <2>2. agent' = agent /\ input' = input /\ output' = PR!Draft(input)
    BY <1>4 DEF Return
  <2>3. PlanReady(input') /\ Unhindered(input') /\ output' = PR!Draft(input')
        /\ (HasBackground(input') <=> HasBackground(input))
    BY <1>1, <2>1, <2>2
  <2> QED BY <1>1, <2>2, <2>3 DEF PlannedInv, SceneIsPlanned, SeenIsCleared
<1> QED BY <1>2, <1>3, <1>4

LEMMA OutsideStays ==
    ASSUME PlannedInv,
           \/ Understand \/ AnalyzeBrand \/ HandToAudience \/ AnalyzeAudience \/ HandToStrategist
           \/ Strategize \/ Direct \/ CorrectDirection \/ Write \/ Shrink \/ HandToAssets
           \/ ClassifyAssets \/ NothingToClassify \/ HandToArtDirector \/ ArtDirect
           \/ HandToSpec \/ CompileSpec \/ ValidateReferences
           \/ Verify \/ ReviewMarketing \/ ReviewDesign \/ ReviewVision \/ HandToReview \/ ScoreQuality
    PROVE  PlannedInv'
<1> USE DEF Plannable, Asking, Shown, Return, Refuse, Remember, Start, Unusable
<1>1. Understand \/ AnalyzeBrand \/ HandToAudience => agent' \notin Plannable
  BY DEF Understand, AnalyzeBrand, HandToAudience
<1>2. AnalyzeAudience \/ HandToStrategist => agent' \notin Plannable
  BY DEF AnalyzeAudience, HandToStrategist
<1>3. Strategize => agent' \notin Plannable
  BY DEF Strategize
<1>4. Direct \/ CorrectDirection => agent' \notin Plannable
  BY DEF Direct, CorrectDirection, Judge
<1>5. Write \/ Shrink => agent' \notin Plannable
  BY DEF Write, Shrink
<1>6. HandToAssets \/ ClassifyAssets \/ NothingToClassify => agent' \notin Plannable
  BY DEF HandToAssets, ClassifyAssets, NothingToClassify
<1>7. HandToArtDirector \/ ArtDirect => agent' \notin Plannable
  BY DEF HandToArtDirector, ArtDirect
<1>8. HandToSpec \/ CompileSpec => agent' \notin Plannable
  BY DEF HandToSpec, CompileSpec
<1>9. ValidateReferences => agent' \notin Plannable
  BY DEF ValidateReferences, ConcludeReferences, Conclude
<1>10. Verify => agent' \notin Plannable
  BY DEF Verify
<1>11. ReviewMarketing => agent' \notin Plannable
  BY DEF ReviewMarketing, Conclude
<1>12. ReviewDesign => agent' \notin Plannable
  BY DEF ReviewDesign, Conclude
<1>13. ReviewVision => agent' \notin Plannable
  BY DEF ReviewVision, Conclude
<1>14. HandToReview => agent' \notin Plannable
  BY DEF HandToReview, NextReview
<1>15. ScoreQuality => agent' \notin Plannable
  BY DEF ScoreQuality, Conclude
<1>16. agent' \notin Plannable
  BY <1>1, <1>2, <1>3, <1>4, <1>5, <1>6, <1>7, <1>8, <1>9, <1>10, <1>11, <1>12, <1>13, <1>14, <1>15
<1> QED BY <1>16, OutsidePlan

LEMMA PlannedInvNext == PlannedInv /\ [Next]_vars => PlannedInv'
<1> SUFFICES ASSUME PlannedInv, [Next]_vars PROVE PlannedInv'
  OBVIOUS
<1>1. CASE UNCHANGED vars
  <2>1. PlanReady(input)' <=> PlanReady(input)
    BY <1>1 DEF vars, PlanReady, SpecReady, CopyReady, OriginalsReady
  <2>2. HasBackground(input)' <=> HasBackground(input)
    BY <1>1 DEF vars, HasBackground, Originals
  <2>3. input' = input /\ output' = output /\ agent' = agent /\ status' = status
    BY <1>1 DEF vars
  <2>4. (Unhindered(input') <=> Unhindered(input)) /\ (output' = PR!Draft(input') <=> output = PR!Draft(input))
    BY <2>3
  <2> QED BY <2>1, <2>2, <2>3, <2>4 DEF PlannedInv, SceneIsPlanned, SeenIsCleared
<1>2. CASE RejectInput \/ ProviderFails \/ StorageUnavailable
  <2>1. agent' = agent /\ input' = input /\ status' # "done"
    BY <1>2 DEF RejectInput, ProviderFails, StorageUnavailable, Refuse
  <2> QED BY <2>1, PlanUndecided
<1>3. CASE Next
  BY <1>2, <1>3, PlanIsMade, PlanIsHanded, PlateIsMade, PlateIsHanded, PlateIsSeen, PlateIsRemade,
     PlateIsComposed, DraftIsMade, OutsideStays DEF Next
<1> QED BY <1>1, <1>3

\* Every draft that composition publishes shows the plate whose inspection passed, or the
\* approved background that stands for it; it carries every required original and passes the
\* gates that ask nothing of the model; its texts are whole, in their regions and a baseline
\* apart, its products whole and side by side: whatever the sizes, the lengths of the texts
\* and the number of products (tools/composition, tools/generation, tools/scene_purity).
THEOREM CompositionSound == Spec => []CompositionIsSound
<1>1. Init => PlannedInv
  BY PlannedInvInit
<1>2. PlannedInv /\ [Next]_vars => PlannedInv'
  BY PlannedInvNext
<1>3. PlannedInv => CompositionIsSound
  <2> SUFFICES ASSUME PlannedInv PROVE CompositionIsSound
    OBVIOUS
  <2>1. CASE Done("composition")
    <3>1. Composes
      BY <2>1 DEF PlannedInv, SceneIsPlanned, SeenIsCleared, Done, Composes, Plannable
    <3> QED BY <3>1, PlateCertified, SceneInDraft, GatesPassed, TextsKeepRoom, ProductsKeepApart
            DEF CompositionIsSound
  <2>2. CASE ~ Done("composition")
    BY <2>2 DEF CompositionIsSound, PlateIsCertified, SceneStands, DraftPassesGates, TextsHaveRoom, ProductsApart
  <2> QED BY <2>1, <2>2
<1> QED BY <1>1, <1>2, <1>3, PTL DEF Spec
=============================================================================
