---------------------------- MODULE CreativeProofs ----------------------------
(***************************************************************************)
(* Proofs about what the creative agents publish, for every brief and      *)
(* every answer in its schema: the copywriter, the art director and the    *)
(* compiler of the design spec come to an end (ProductionEnds), and the    *)
(* creative director's choice stands (DirectionStands).                    *)
(*                                                                         *)
(* The argument: what is kept between two calls has the types of its       *)
(* schema and the limits its repairs have given it (CopyInv), so a copy    *)
(* that is still refused has a fault no repair may touch                   *)
(* (RefusedIsBlamed). The rank of ideas is a strict order (RankIsStrict),  *)
(* so the winner is one, whatever the order of the list (WinnerOfOrder).   *)
(* Every text is followed from the answer it came with through each        *)
(* repair (TextsCome): what code has written is noted, and what may not    *)
(* be said is removed (CreativeInv).                                       *)
(***************************************************************************)
EXTENDS SpecialistsProofs

----------------------------------------------------------------------------
(* The calls of an execution are bounded. *)

\* Before a call is made it is within the budget.
CallsInv ==
    /\ TypeOK
    /\ status = "asking" => calls = 0 \/ calls + 1 <= CallBudget[agent]
    /\ status = "shrinking" => agent = "copywriter"

LEMMA BudgetIs ==
    /\ CallBudget["client_understanding"] = 1 /\ CallBudget["brand_product"] = 1
    /\ CallBudget["asset_intelligence"] = 1 /\ CallBudget["production"] = 1
    /\ CallBudget["creative_director"] = 4
    /\ \A a \in {"audience_intelligence", "marketing_strategist", "copywriter", "art_director", "design_spec",
                 "reference_validation", "scene_purity", "verification", "quality_review", "design_review",
                 "vision_review"} : CallBudget[a] = 2
    /\ \A a \in Agents : CallBudget[a] \in Nat
    /\ Entry \subseteq Agents
    /\ Agents = {"client_understanding", "brand_product", "audience_intelligence", "marketing_strategist",
                 "creative_director", "copywriter", "asset_intelligence", "art_director", "design_spec",
                 "reference_validation", "generation_planning", "production", "scene_purity", "composition",
                 "verification", "quality_review", "design_review", "vision_review", "quality_scoring"}
<1>1. CD!Corrections = 3
  BY DEF CD!Corrections
<1> QED BY <1>1 DEF CallBudget, Agents, Entry

LEMMA CallsInvInit == Init => CallsInv
BY BudgetIs DEF Init, CallsInv, TypeOK

LEMMA CallsStarted ==
    ASSUME NEW a \in Agents, NEW payload, Start(a, payload) PROVE CallsInv'
BY BudgetIs DEF Start, CallsInv, TypeOK

LEMMA CallsStopped ==
    ASSUME CallsInv, UNCHANGED calls, Refuse \/ \E r : Return(r) PROVE CallsInv'
BY DEF Refuse, Return, CallsInv, TypeOK

LEMMA CallsAnswered ==
    ASSUME CallsInv, NEW a \in Agents, Asking(a), CallBudget[a] >= 1, Refuse \/ \E r : Return(r) PROVE CallsInv'
<1>1. agent = a /\ status = "asking" /\ calls' = calls + 1 /\ agent' = agent /\ status' \in {"done", "refused"}
  BY DEF Asking, Refuse, Return
<1>2. calls \in Nat /\ CallBudget[a] \in Nat /\ calls + 1 <= CallBudget[a]
  BY <1>1, BudgetIs DEF CallsInv, TypeOK
<1> QED BY <1>1, <1>2 DEF CallsInv, TypeOK

LEMMA CallsRemembered ==
    ASSUME CallsInv, NEW a \in Agents, Asking(a), NEW memory, Remember(memory), calls + 2 <= CallBudget[a]
    PROVE  CallsInv'
<1>1. agent = a /\ status = "asking" /\ calls' = calls + 1 /\ agent' = agent /\ status' = status /\ output' = output
  BY DEF Asking, Remember
<1>2. calls \in Nat /\ CallBudget[a] \in Nat /\ calls + 1 <= CallBudget[a]
  BY <1>1, BudgetIs DEF CallsInv, TypeOK
<1> QED BY <1>1, <1>2 DEF CallsInv, TypeOK

LEMMA ConcludeStops ==
    ASSUME NEW report, NEW render, Conclude(report, render) PROVE Refuse \/ \E r : Return(r)
BY DEF Conclude

LEMMA AskedOnce ==
    ASSUME CallsInv, Understand \/ AnalyzeBrand \/ ClassifyAssets \/ GenerateScene PROVE CallsInv'
<1>1. PICK a \in {"client_understanding", "brand_product", "asset_intelligence", "production"} :
         Asking(a) /\ (Refuse \/ \E r : Return(r))
  <2>1. Understand => Asking("client_understanding") /\ (Refuse \/ \E r : Return(r))
    BY DEF Understand
  <2>2. AnalyzeBrand => Asking("brand_product") /\ (Refuse \/ \E r : Return(r))
    BY DEF AnalyzeBrand
  <2>3. ClassifyAssets => Asking("asset_intelligence") /\ (Refuse \/ \E r : Return(r))
    BY DEF ClassifyAssets
  <2>4. GenerateScene => Asking("production") /\ (Refuse \/ \E r : Return(r))
    BY DEF GenerateScene, Shown
  <2> QED BY <2>1, <2>2, <2>3, <2>4
<1> QED BY <1>1, BudgetIs, CallsAnswered

AskedTwice == {"audience_intelligence", "marketing_strategist", "copywriter", "art_director", "design_spec",
               "reference_validation", "scene_purity", "verification", "quality_review", "design_review",
               "vision_review"}

LEMMA CorrectedOnce ==
    ASSUME CallsInv, NEW a \in AskedTwice, Asking(a),
           \/ Refuse \/ \E r : Return(r)
           \/ calls = 0 /\ \E memory : Remember(memory)
    PROVE  CallsInv'
<1>1. a \in Agents /\ CallBudget[a] = 2
  BY BudgetIs DEF AskedTwice
<1> QED BY <1>1, CallsAnswered, CallsRemembered

LEMMA AskedTwiceStep ==
    ASSUME CallsInv, \/ AnalyzeAudience \/ Strategize \/ ArtDirect \/ CompileSpec \/ ValidateReferences
                     \/ InspectScene \/ Verify \/ ReviewMarketing \/ ReviewDesign \/ ReviewVision
    PROVE  CallsInv'
<1> DEFINE Stops == Refuse \/ (\E r : Return(r)) \/ (calls = 0 /\ \E memory : Remember(memory))
<1>1. AnalyzeAudience => Asking("audience_intelligence") /\ Stops
  BY DEF AnalyzeAudience
<1>2. Strategize => Asking("marketing_strategist") /\ Stops
  BY DEF Strategize
<1>3. ArtDirect => Asking("art_director") /\ Stops
  BY DEF ArtDirect
<1>4. CompileSpec => Asking("design_spec") /\ Stops
  BY DEF CompileSpec
<1>5. ValidateReferences => Asking("reference_validation") /\ Stops
  BY ConcludeStops DEF ValidateReferences, Shown, ConcludeReferences
<1>6. InspectScene => Asking("scene_purity") /\ Stops
  BY ConcludeStops DEF InspectScene, Shown, Unusable
<1>7. Verify => Asking("verification") /\ Stops
  BY ConcludeStops DEF Verify, Shown, Unusable
<1>8. ReviewMarketing => Asking("quality_review") /\ Stops
  BY ConcludeStops DEF ReviewMarketing, Shown, Unusable
<1>9. ReviewDesign => Asking("design_review") /\ Stops
  BY ConcludeStops DEF ReviewDesign, Shown, Unusable
<1>10. ReviewVision => Asking("vision_review") /\ Stops
  BY ConcludeStops DEF ReviewVision, Shown, Unusable
<1>11. \E a \in AskedTwice : Asking(a) /\ Stops
  <2> HIDE DEF Stops
  <2> QED BY <1>1, <1>2, <1>3, <1>4, <1>5, <1>6, <1>7, <1>8, <1>9, <1>10 DEF AskedTwice
<1> QED BY <1>11, CorrectedOnce

LEMMA WriteCalls == ASSUME CallsInv, Write PROVE CallsInv'
<1>1. Asking("copywriter") /\ "copywriter" \in AskedTwice
  BY DEF Write, AskedTwice
<1>2. PICK fields, x : \/ Return(x) \/ (calls = 0 /\ Remember(fields))
                       \/ status' = "shrinking" /\ UNCHANGED <<agent, input, output>>
  BY DEF Write
<1>3. CASE Return(x) \/ (calls = 0 /\ Remember(fields))
  BY <1>1, <1>3, CorrectedOnce
<1>4. CASE status' = "shrinking" /\ UNCHANGED <<agent, input, output>>
  BY <1>1, <1>4, BudgetIs DEF CallsInv, TypeOK, Asking
<1> QED BY <1>2, <1>3, <1>4

LEMMA ShrinkCalls == ASSUME CallsInv, Shrink PROVE CallsInv'
<1>1. UNCHANGED calls /\ agent = "copywriter" /\ status = "shrinking"
  BY DEF Shrink
<1>2. PICK kept1 : Remember(kept1) \/ Refuse \/ \E r : Return(r)
  BY DEF Shrink
<1>3. CASE Remember(kept1)
  BY <1>1, <1>3 DEF Remember, CallsInv, TypeOK
<1> QED BY <1>1, <1>2, <1>3, CallsStopped

LEMMA JudgeCalls ==
    ASSUME CallsInv, Asking("creative_director"), NEW candidate, NEW notes, Judge(candidate, notes)
    PROVE  CallsInv'
<1>1. PICK memory : Refuse \/ (\E r : Return(r)) \/ (calls < CD!Corrections /\ Remember(memory))
  BY DEF Judge
<1>2. "creative_director" \in Agents /\ CallBudget["creative_director"] = 4 /\ CD!Corrections = 3
  BY BudgetIs DEF CD!Corrections
<1>3. calls \in Nat
  BY <1>2, BudgetIs DEF CallsInv, TypeOK, Asking
<1> QED BY <1>1, <1>2, <1>3, CallsAnswered, CallsRemembered

LEMMA DirectCalls == ASSUME CallsInv, Direct \/ CorrectDirection PROVE CallsInv'
<1>1. Asking("creative_director")
  BY DEF Direct, CorrectDirection
<1>2. PICK candidate, notes : Refuse \/ Judge(candidate, notes)
  BY DEF Direct, CorrectDirection
<1>3. "creative_director" \in Agents /\ CallBudget["creative_director"] = 4
  BY BudgetIs
<1> QED BY <1>1, <1>2, <1>3, JudgeCalls, CallsAnswered

LEMMA HandedCalls ==
    ASSUME CallsInv,
           \/ HandToAudience \/ HandToStrategist \/ HandToAssets \/ HandToArtDirector \/ HandToSpec
           \/ HandToProduction \/ HandToPurity \/ HandToRegeneration \/ HandToComposition \/ HandToReview
    PROVE  CallsInv'
<1> DEFINE Begins == \E a \in Agents : \E payload : Start(a, payload)
<1>1. HandToAudience => Begins \/ (Refuse /\ UNCHANGED calls)
  BY BudgetIs DEF HandToAudience
<1>2. HandToStrategist => Begins \/ (Refuse /\ UNCHANGED calls)
  BY BudgetIs DEF HandToStrategist
<1>3. HandToAssets => Begins
  BY BudgetIs DEF HandToAssets
<1>4. HandToArtDirector => Begins
  BY BudgetIs DEF HandToArtDirector
<1>5. HandToSpec => Begins
  BY BudgetIs DEF HandToSpec
<1>6. HandToProduction => Begins
  BY BudgetIs DEF HandToProduction
<1>7. HandToPurity => Begins
  BY BudgetIs DEF HandToPurity
<1>8. HandToRegeneration => Begins
  BY BudgetIs DEF HandToRegeneration
<1>9. HandToComposition => Begins
  BY BudgetIs DEF HandToComposition
<1>10. HandToReview => Begins
  <2>1. \A a \in DOMAIN NextReview : NextReview[a] \in Agents
    BY BudgetIs DEF NextReview
  <2> QED BY <2>1 DEF HandToReview
<1>11. Begins \/ (Refuse /\ UNCHANGED calls)
  <2> HIDE DEF Begins
  <2> QED BY <1>1, <1>2, <1>3, <1>4, <1>5, <1>6, <1>7, <1>8, <1>9, <1>10
<1> QED BY <1>11, CallsStarted, CallsStopped

LEMMA UncalledCalls ==
    ASSUME CallsInv,
           \/ NothingToClassify \/ PlanGeneration \/ SkipScene \/ NothingToInspect \/ Compose
           \/ StorageUnavailable \/ RejectInput \/ ScoreQuality \/ ProviderFails
    PROVE  CallsInv'
<1> DEFINE Stops == UNCHANGED calls /\ (Refuse \/ \E r : Return(r))
<1>1. NothingToClassify \/ PlanGeneration \/ SkipScene \/ NothingToInspect => Stops
  BY DEF NothingToClassify, PlanGeneration, SkipScene, NothingToInspect
<1>2. StorageUnavailable \/ RejectInput => Stops
  BY DEF StorageUnavailable, RejectInput
<1>3. ScoreQuality => Stops
  BY ConcludeStops DEF ScoreQuality
<1>4. CASE Stops
  BY <1>4, CallsStopped
<1>5. CASE Compose
  <2>1. UNCHANGED <<calls, agent>> /\ status' \in {"done", "refused"}
    BY <1>5 DEF Compose, Return
  <2> QED BY <2>1 DEF CallsInv, TypeOK
<1>6. CASE ProviderFails
  <2>1. /\ Asking(agent) /\ CallBudget[agent] > 0 /\ status' = "provider_failed"
        /\ UNCHANGED <<agent, input, kept, output>>
    BY <1>6 DEF ProviderFails, Shown
  <2>2. calls \in Nat /\ CallBudget[agent] \in Nat /\ calls + 1 <= CallBudget[agent] /\ calls' = calls + 1
        /\ agent \in Agents /\ output = None
    BY <2>1, BudgetIs DEF CallsInv, TypeOK, Asking
  <2> QED BY <2>1, <2>2 DEF CallsInv, TypeOK
<1> QED BY <1>1, <1>2, <1>3, <1>4, <1>5, <1>6

LEMMA CallsInvNext == CallsInv /\ [Next]_vars => CallsInv'
<1> SUFFICES ASSUME CallsInv, [Next]_vars PROVE CallsInv'
  OBVIOUS
<1>1. CASE UNCHANGED vars
  BY <1>1 DEF vars, CallsInv, TypeOK
<1>2. CASE Next
  BY <1>2, AskedOnce, AskedTwiceStep, WriteCalls, ShrinkCalls, DirectCalls, HandedCalls, UncalledCalls DEF Next
<1> QED BY <1>1, <1>2

----------------------------------------------------------------------------
(* The deterministic layout. *)

FittingTexts(texts) ==
    texts.photography \in 1 .. 1000 /\ texts.lighting \in 1 .. 600 /\ texts.background \in Nat

LEMMA CountedRoles ==
    ASSUME NEW tokens, NEW n \in Nat, DOMAIN tokens = 1 .. n,
           \A i, j \in 1 .. n : tokens[i].role = tokens[j].role => i = j
    PROVE  CA!Cardinality(CA!RolesOf(tokens)) = n
<1> DEFINE f == [i \in 1 .. n |-> tokens[i].role]
           R == CA!RolesOf(tokens)
<1>1. R = {tokens[i].role : i \in 1 .. n}
  BY DEF CA!RolesOf, CA!Range
<1>2. f \in Bijection(1 .. n, R)
  <2>1. \A i \in 1 .. n : f[i] = tokens[i].role
    OBVIOUS
  <2>2. f \in [1 .. n -> R]
    BY <1>1
  <2>3. \A x \in R : \E i \in 1 .. n : f[i] = x
    BY <1>1
  <2>4. \A i, j \in 1 .. n : f[i] = f[j] => i = j
    BY <2>1
  <2> HIDE DEF f, R
  <2> QED BY <2>2, <2>3, <2>4 DEF Bijection, Injection, Surjection, IsInjective
<1> HIDE DEF f, R
<1>3. Cardinality(R) = n
  <2>1. ExistsBijection(1 .. n, R)
    BY <1>2 DEF ExistsBijection
  <2> QED BY <2>1, FS_CountingElements
<1>4. CA!Cardinality(R) = Cardinality(R)
  BY DEF CA!Cardinality, Cardinality
<1> QED BY <1>3, <1>4 DEF R
LEMMA ConcatOne ==
    ASSUME NEW S, NEW s \in Seq(S), NEW e, NEW t, t = s \o <<e>>
    PROVE  /\ t \in Seq(S \cup {e}) /\ Len(t) = Len(s) + 1 /\ t[Len(s) + 1] = e
           /\ \A i \in 1 .. Len(s) : t[i] = s[i]
<1>1. s \in Seq(S \cup {e}) /\ <<e>> \in Seq(S \cup {e}) /\ Len(<<e>>) = 1 /\ <<e>>[1] = e /\ Len(s) \in Nat
  OBVIOUS
<1>2. \A i \in 1 .. Len(s) + 1 : t[i] = IF i <= Len(s) THEN s[i] ELSE <<e>>[i - Len(s)]
  BY <1>1
<1>3. t \in Seq(S \cup {e}) /\ Len(t) = Len(s) + 1
  BY <1>1
<1>4. t[Len(s) + 1] = e
  <2>1. Len(s) + 1 \in 1 .. Len(s) + 1 /\ ~ (Len(s) + 1 <= Len(s)) /\ Len(s) + 1 - Len(s) = 1
    BY <1>1
  <2> QED BY <1>1, <1>2, <2>1
<1> QED BY <1>1, <1>2, <1>3, <1>4

LEMMA FallbackWeights == 700 \in {100 * n : n \in 1 .. 9} /\ 400 \in {100 * n : n \in 1 .. 9}
<1>1. 700 = 100 * 7 /\ 400 = 100 * 4 /\ 4 \in 1 .. 9 /\ 7 \in 1 .. 9
  OBVIOUS
<1> QED BY <1>1

LEMMA ListOfFour ==
    ASSUME NEW a, NEW b, NEW c, NEW d, NEW three, NEW four,
           three = <<a, b>> \o <<d>>, four = (<<a, b>> \o <<c>>) \o <<d>>
    PROVE  /\ Len(three) = 3 /\ DOMAIN three = 1 .. 3 /\ three[1] = a /\ three[2] = b /\ three[3] = d
           /\ Len(four) = 4 /\ DOMAIN four = 1 .. 4
           /\ four[1] = a /\ four[2] = b /\ four[3] = c /\ four[4] = d
<1> DEFINE two == <<a, b>>
           front == <<a, b>> \o <<c>>
           S == {a, b}
<1>1. two \in Seq(S) /\ Len(two) = 2 /\ two[1] = a /\ two[2] = b
  OBVIOUS
<1>2. three = two \o <<d>> /\ front = two \o <<c>> /\ four = front \o <<d>>
  OBVIOUS
<1> HIDE DEF two, front
<1>3. /\ three \in Seq(S \cup {d}) /\ Len(three) = 3 /\ three[3] = d
      /\ \A i \in 1 .. 2 : three[i] = two[i]
  <2> HIDE DEF S
  <2>1. /\ three \in Seq(S \cup {d}) /\ Len(three) = Len(two) + 1 /\ three[Len(two) + 1] = d
        /\ \A i \in 1 .. Len(two) : three[i] = two[i]
    <3>1. two \in Seq(S) /\ three = two \o <<d>>
      BY ONLY <1>1, <1>2
    <3> QED BY ONLY <3>1, ConcatOne
  <2> QED BY ONLY <1>1, <2>1
<1>4. /\ front \in Seq(S \cup {c}) /\ Len(front) = 3 /\ front[3] = c
      /\ \A i \in 1 .. 2 : front[i] = two[i]
  <2> HIDE DEF S
  <2>1. /\ front \in Seq(S \cup {c}) /\ Len(front) = Len(two) + 1 /\ front[Len(two) + 1] = c
        /\ \A i \in 1 .. Len(two) : front[i] = two[i]
    <3>1. two \in Seq(S) /\ front = two \o <<c>>
      BY ONLY <1>1, <1>2
    <3> QED BY ONLY <3>1, ConcatOne
  <2> QED BY ONLY <1>1, <2>1
<1>5. /\ four \in Seq(S \cup {c} \cup {d}) /\ Len(four) = 4 /\ four[4] = d
      /\ \A i \in 1 .. 3 : four[i] = front[i]
  <2> HIDE DEF S
  <2> QED BY ONLY <1>2, <1>4, ConcatOne
<1> QED BY ONLY <1>1, <1>3, <1>4, <1>5

LEMMA TypographyOf ==
    ASSUME NEW t, NEW n \in {3, 4}, NEW offer \in BOOLEAN, offer <=> n = 4, Len(t) = n, DOMAIN t = 1 .. n,
           t[1].role = "headline", t[2].role = "supporting_copy", t[n].role = "cta",
           n = 4 => t[3].role = "offer",
           \A i \in 1 .. n : ~ CA!StyleErrors(t[i])
    PROVE  ~ CA!TypographyErrors(t, offer)
<1>1. \A i \in 1 .. n : i \in {1, 2, 3, 4} /\ (n = 3 => i # 4)
  OBVIOUS
<1>2. CA!Cardinality(CA!RolesOf(t)) = n
  <2>1. \A i, j \in 1 .. n : t[i].role = t[j].role => i = j
    BY <1>1
  <2> QED BY <2>1, CountedRoles
<1>3. CA!RolesOf(t) = {t[i].role : i \in 1 .. n}
  BY DEF CA!RolesOf, CA!Range
<1>4. {"headline", "cta"} \subseteq CA!RolesOf(t) /\ offer = ("offer" \in CA!RolesOf(t))
  <2>1. 1 \in 1 .. n /\ n \in 1 .. n /\ (n = 4 => 3 \in 1 .. n)
    OBVIOUS
  <2> QED BY <1>1, <1>3, <2>1
<1>5. \A style \in CA!Range(t) : ~ CA!StyleErrors(style)
  BY DEF CA!Range
<1> QED BY <1>2, <1>4, <1>5 DEF CA!TypographyErrors

LEMMA FallbackTypography ==
    ASSUME NEW offer \in BOOLEAN
    PROVE  ~ CA!TypographyErrors(
               <<CA!Style("headline", 58, 105, 3, 700), CA!Style("supporting_copy", 26, 130, 4, 400)>>
               \o (IF offer THEN <<CA!Style("offer", 32, 100, 2, 700)>> ELSE <<>>)
               \o <<CA!Style("cta", 25, 100, 1, 700)>>, offer)
<1> DEFINE headline == CA!Style("headline", 58, 105, 3, 700)
           supporting == CA!Style("supporting_copy", 26, 130, 4, 400)
           priced == CA!Style("offer", 32, 100, 2, 700)
           cta == CA!Style("cta", 25, 100, 1, 700)
           three == <<headline, supporting>> \o <<cta>>
           four == (<<headline, supporting>> \o <<priced>>) \o <<cta>>
<1>1. /\ headline.role = "headline" /\ supporting.role = "supporting_copy" /\ priced.role = "offer" /\ cta.role = "cta"
      /\ ~ CA!StyleErrors(headline) /\ ~ CA!StyleErrors(supporting)
      /\ ~ CA!StyleErrors(priced) /\ ~ CA!StyleErrors(cta)
  <2>1. 700 \in {100 * n : n \in 1 .. 9} /\ 400 \in {100 * n : n \in 1 .. 9}
    BY FallbackWeights
  <2> QED BY <2>1 DEF CA!Style, CA!StyleErrors
<1>2. (<<headline, supporting>> \o <<>>) = <<headline, supporting>>
  <2> HIDE DEF headline, supporting
  <2>1. <<headline, supporting>> \in Seq({headline, supporting})
    OBVIOUS
  <2> QED BY <2>1, ConcatEmptySeq
<1> DEFINE typography == <<headline, supporting>> \o (IF offer THEN <<priced>> ELSE <<>>) \o <<cta>>
<1>3. (offer => typography = four) /\ (~ offer => typography = three)
  <2> HIDE DEF headline, supporting, priced, cta
  <2> QED BY <1>2
<1> SUFFICES ~ CA!TypographyErrors(typography, offer)
  OBVIOUS
<1> HIDE DEF typography
<1> HIDE DEF headline, supporting, priced, cta
<1>4. /\ Len(three) = 3 /\ DOMAIN three = 1 .. 3
      /\ three[1] = headline /\ three[2] = supporting /\ three[3] = cta
      /\ Len(four) = 4 /\ DOMAIN four = 1 .. 4
      /\ four[1] = headline /\ four[2] = supporting /\ four[3] = priced /\ four[4] = cta
  BY ListOfFour
<1> HIDE DEF three, four
<1>5. ~ CA!TypographyErrors(three, FALSE)
  <2>1. \A i \in 1 .. 3 : ~ CA!StyleErrors(three[i])
    <3>1. \A i \in 1 .. 3 : i \in {1, 2, 3}
      OBVIOUS
    <3> QED BY <1>1, <1>4, <3>1
  <2> QED BY <1>1, <1>4, <2>1, TypographyOf
<1>6. ~ CA!TypographyErrors(four, TRUE)
  <2>1. \A i \in 1 .. 4 : ~ CA!StyleErrors(four[i])
    <3>1. \A i \in 1 .. 4 : i \in {1, 2, 3, 4}
      OBVIOUS
    <3> QED BY <1>1, <1>4, <3>1
  <2> QED BY <1>1, <1>4, <2>1, TypographyOf
<1>7. CASE offer
  <2>1. typography = four /\ offer = TRUE
    BY <1>3, <1>7
  <2> QED BY <1>6, <2>1
<1>8. CASE ~ offer
  <2>1. typography = three /\ offer = FALSE
    BY <1>3, <1>8
  <2> QED BY <1>5, <2>1
<1> QED BY <1>7, <1>8

LEMMA FallbackColors ==
    ASSUME NEW colors,
           colors = <<CA!Color("background", 9125), CA!Color("text", 86), CA!Color("accent", 1714),
                      CA!Color("cta_background", 86), CA!Color("cta_text", 10000)>>
    PROVE  ~ CA!ColorErrors(colors)
<1>2. Len(colors) = 5 /\ DOMAIN colors = 1 .. 5
      /\ colors[1].role = "background" /\ colors[2].role = "text" /\ colors[3].role = "accent"
      /\ colors[4].role = "cta_background" /\ colors[5].role = "cta_text"
  BY DEF CA!Color
<1>3. \A i \in 1 .. 5 : i \in {1, 2, 3, 4, 5}
  OBVIOUS
<1>4. CA!Cardinality(CA!RolesOf(colors)) = 5
  <2>1. \A i, j \in 1 .. 5 : colors[i].role = colors[j].role => i = j
    BY <1>2, <1>3
  <2>2. 5 \in Nat /\ DOMAIN colors = 1 .. 5
    BY <1>2
  <2> QED BY ONLY <2>1, <2>2, CountedRoles
<1>5. {"background", "text", "accent"} \subseteq CA!RolesOf(colors)
  BY <1>2 DEF CA!RolesOf, CA!Range
<1> QED BY <1>2, <1>4, <1>5 DEF CA!ColorErrors

\* The conservative layout passes the validator of the specs, when its texts fit.
LEMMA FallbackIsSound ==
    ASSUME NEW art, NEW copy, FittingTexts(art.texts), art.texts.background <= CA!MaxBackground,
           NEW spec, spec = CA!DeterministicSpec(art, copy)
    PROVE  ~ CA!SpecErrors(spec, copy)
<1> DEFINE offer == copy.offer_copy # <<>>
           regions == [product |-> <<0, 230, 620, 760>>, headline |-> <<640, 96, 360, 250>>,
                       offer |-> <<640, 520, 280, 76>>, cta |-> <<640, 640, 280, 72>>,
                       logo |-> <<820, 920, 180, 72>>]
           shown == IF offer THEN DOMAIN regions ELSE DOMAIN regions \ {"offer"}
           typography == <<CA!Style("headline", 58, 105, 3, 700), CA!Style("supporting_copy", 26, 130, 4, 400)>>
                         \o (IF offer THEN <<CA!Style("offer", 32, 100, 2, 700)>> ELSE <<>>)
                         \o <<CA!Style("cta", 25, 100, 1, 700)>>
           colors == <<CA!Color("background", 9125), CA!Color("text", 86), CA!Color("accent", 1714),
                       CA!Color("cta_background", 86), CA!Color("cta_text", 10000)>>
<1>1. spec = [canvas |-> <<1080, 1080>>, safe |-> 64,
              grid |-> [columns |-> 12, rows |-> 12, gutter |-> 24, baseline |-> 8],
              regions |-> [r \in shown |-> regions[r]], typography |-> typography, colors |-> colors,
              graphics |-> <<>>, texts |-> art.texts]
  BY DEF CA!DeterministicSpec
<1>2. ~ CA!TypographyErrors(typography, offer)
  <2>1. offer \in BOOLEAN
    OBVIOUS
  <2> HIDE DEF offer
  <2> QED BY <2>1, FallbackTypography
<1>3. ~ CA!ColorErrors(colors)
  BY FallbackColors
<1>4. /\ DOMAIN regions = {"product", "headline", "offer", "cta", "logo"}
      /\ regions["product"] = <<0, 230, 620, 760>> /\ regions["headline"] = <<640, 96, 360, 250>>
      /\ regions["offer"] = <<640, 520, 280, 76>> /\ regions["cta"] = <<640, 640, 280, 72>>
      /\ regions["logo"] = <<820, 920, 180, 72>>
  OBVIOUS
<1> HIDE DEF offer, regions, typography, colors
<1>5. /\ spec.canvas = <<1080, 1080>> /\ spec.safe = 64
      /\ spec.grid = [columns |-> 12, rows |-> 12, gutter |-> 24, baseline |-> 8]
      /\ spec.regions = [r \in shown |-> regions[r]] /\ spec.typography = typography
      /\ spec.colors = colors /\ spec.graphics = <<>> /\ spec.texts = art.texts
  BY <1>1
<1>6. ~ CA!CanvasErrors(spec.canvas, spec.safe) /\ ~ CA!GridErrors(spec.grid)
  BY <1>5 DEF CA!CanvasErrors, CA!GridErrors
<1>7. ~ CA!TextErrors(spec.texts)
  <2>1. PICK texts : texts = art.texts
    OBVIOUS
  <2>4. texts.photography \in 1 .. 1000 /\ texts.lighting \in 1 .. 600 /\ texts.background \in Nat
        /\ texts.background <= CA!MaxBackground
    BY <2>1 DEF FittingTexts
  <2>5. \A n \in Nat : \A a \in 1 .. n : a \in Nat /\ a <= n
    OBVIOUS
  <2>2. /\ texts.photography <= 1000 /\ texts.lighting <= 600 /\ texts.background <= CA!MaxBackground
        /\ texts.photography \in Nat /\ texts.lighting \in Nat /\ texts.background \in Nat
    <3>1. texts.photography <= 1000 /\ texts.photography \in Nat
      BY <2>4, <2>5
    <3>2. texts.lighting <= 600 /\ texts.lighting \in Nat
      BY <2>4, <2>5
    <3> QED BY <2>4, <3>1, <3>2
  <2>3. CA!MaxBackground = 600
    BY DEF CA!MaxBackground
  <2> QED BY <1>5, <2>1, <2>2, <2>3 DEF CA!TextErrors
<1>8. ~ CA!GraphicErrors(spec)
  <2>1. CA!Range(<<>>) = {} /\ Len(<<>>) = 0
    BY DEF CA!Range
  <2> QED BY <1>5, <2>1 DEF CA!GraphicErrors
<1>9. ~ CA!RegionErrors(spec, offer)
  <2>2. /\ DOMAIN spec.regions \subseteq DOMAIN regions /\ offer = ("offer" \in DOMAIN spec.regions)
        /\ \A r \in DOMAIN spec.regions : spec.regions[r] = regions[r]
        /\ {"product", "headline", "cta", "logo"} \subseteq DOMAIN spec.regions
    BY <1>4, <1>5 DEF offer
  <2>4. \A r \in DOMAIN regions : CA!InCanvas(regions[r], spec.canvas)
    BY <1>4, <1>5 DEF CA!InCanvas, CA!Right, CA!Bottom
  <2>5. \A r \in DOMAIN regions \ {"product"} : CA!InSafeArea(regions[r], spec.canvas, spec.safe)
    BY <1>4, <1>5 DEF CA!InSafeArea, CA!Right, CA!Bottom
  <2> QED BY <2>2, <2>4, <2>5 DEF CA!RegionErrors
<1> QED BY <1>2, <1>3, <1>5, <1>6, <1>7, <1>8, <1>9 DEF CA!SpecErrors, offer

----------------------------------------------------------------------------
(* The repairs of a copy. *)

LEMMA SumAlike == ASSUME NEW v PROVE CA!SumUpTo(v) = RV!SumUpTo(v) /\ CA!Sum(v) = RV!Sum(v)
<1>1. CA!SumUpTo(v) = RV!SumUpTo(v)
  BY DEF CA!SumUpTo, RV!SumUpTo
<1> QED BY <1>1 DEF CA!Sum, RV!Sum

\* A list of numbers, as the sums see it.
Numbers(v, n) == n \in Nat /\ v = [i \in 1 .. n |-> v[i]] /\ \A i \in 1 .. n : v[i] \in Nat

LEMMA NumbersList == ASSUME NEW v, NEW n, Numbers(v, n) PROVE v \in Seq(Nat) /\ Len(v) = n /\ DOMAIN v = 1 .. n
<1>1. n \in Nat /\ v = [i \in 1 .. n |-> v[i]]
  BY DEF Numbers
<1>2. v \in [1 .. n -> Nat]
  BY <1>1 DEF Numbers
<1>3. v \in Seq(Nat)
  BY <1>1, <1>2, SeqDef
<1> QED BY <1>1, <1>2, <1>3, LenProperties

LEMMA SumSteps ==
    ASSUME NEW v, NEW n, Numbers(v, n)
    PROVE  /\ CA!SumUpTo(v)[0] = 0 /\ CA!Sum(v) = CA!SumUpTo(v)[n]
           /\ \A k \in 1 .. n : CA!SumUpTo(v)[k] = CA!SumUpTo(v)[k - 1] + v[k]
<1>1. Len(v) = n /\ n \in Nat
  BY NumbersList DEF Numbers
<1>2. /\ RV!SumUpTo(v)[0] = 0
      /\ \A k \in 1 .. Len(v) : RV!SumUpTo(v)[k] = RV!SumUpTo(v)[k - 1] + v[k]
  BY <1>1, SumStarts
<1>3. CA!Sum(v) = CA!SumUpTo(v)[n]
  BY <1>1 DEF CA!Sum
<1> QED BY <1>1, <1>2, <1>3, SumAlike

\* Induction up to a bound.
LEMMA UpTo ==
    ASSUME NEW n \in Nat, NEW A, 0 \in A, \A k \in 1 .. n : k - 1 \in A => k \in A
    PROVE  0 .. n \subseteq A
<1> DEFINE T == {k \in Nat : k <= n => k \in A}
<1>1. 0 \in T
  OBVIOUS
<1>2. \A k \in T : k + 1 \in T
  <2> TAKE k \in T
  <2>1. SUFFICES ASSUME k + 1 <= n PROVE k + 1 \in A
    OBVIOUS
  <2>2. k + 1 \in 1 .. n /\ (k + 1) - 1 = k /\ k \in A
    BY <2>1
  <2> QED BY <2>2
<1>3. T = Nat
  <2> HIDE DEF T
  <2>1. T \subseteq Nat
    BY DEF T
  <2> QED BY <1>1, <1>2, <2>1, SetInduction
<1> QED BY <1>3

\* A sum of naturals is a natural, and at least the number of positive ones.
LEMMA SumIsNatural ==
    ASSUME NEW v, NEW n, Numbers(v, n)
    PROVE  /\ \A k \in 0 .. n : CA!SumUpTo(v)[k] \in Nat
           /\ CA!Sum(v) \in Nat
           /\ (\A i \in 1 .. n : v[i] >= 1) => CA!Sum(v) >= n
           /\ (\A i \in 1 .. n : v[i] = 0) => CA!Sum(v) = 0
<1>1. PICK sum : sum = CA!SumUpTo(v)
  OBVIOUS
<1>2. sum[0] = 0 /\ CA!Sum(v) = sum[n] /\ \A k \in 1 .. n : sum[k] = sum[k - 1] + v[k]
  BY <1>1, SumSteps
<1>3. n \in Nat /\ \A i \in 1 .. n : v[i] \in Nat
  BY DEF Numbers
<1> DEFINE A == {k \in Nat : /\ sum[k] \in Nat
                             /\ (\A i \in 1 .. n : v[i] >= 1) => sum[k] >= k
                             /\ (\A i \in 1 .. n : v[i] = 0) => sum[k] = 0}
<1>4. 0 .. n \subseteq A
  <2>1. 0 \in A
    BY <1>2
  <2>2. \A k \in 1 .. n : k - 1 \in A => k \in A
    <3> SUFFICES ASSUME NEW k \in 1 .. n, k - 1 \in A PROVE k \in A
      OBVIOUS
    <3>1. PICK j \in Nat : j = k - 1
      BY <1>3
    <3>2. sum[k] = sum[j] + v[k] /\ sum[j] \in Nat /\ v[k] \in Nat /\ k = j + 1 /\ k \in Nat
      BY <1>2, <1>3, <3>1
    <3>3. (\A i \in 1 .. n : v[i] >= 1) => sum[k] >= k
      BY <3>1, <3>2
    <3>4. (\A i \in 1 .. n : v[i] = 0) => sum[k] = 0
      BY <3>1, <3>2
    <3> QED BY <3>2, <3>3, <3>4
  <2> HIDE DEF A
  <2> QED BY <1>3, <2>1, <2>2, UpTo
<1>5. n \in 0 .. n
  BY <1>3
<1> QED BY <1>1, <1>2, <1>4, <1>5

\* Two lists with the same start have the same sum so far.
LEMMA SumAgrees ==
    ASSUME NEW v, NEW n, Numbers(v, n), NEW w, NEW m, Numbers(w, m), NEW k \in 0 .. n, k <= m,
           \A i \in 1 .. k : v[i] = w[i]
    PROVE  CA!SumUpTo(v)[k] = CA!SumUpTo(w)[k]
<1>1. PICK a, b : a = CA!SumUpTo(v) /\ b = CA!SumUpTo(w)
  OBVIOUS
<1>2. a[0] = 0 /\ b[0] = 0 /\ (\A j \in 1 .. n : a[j] = a[j - 1] + v[j]) /\ (\A j \in 1 .. m : b[j] = b[j - 1] + w[j])
  BY <1>1, SumSteps
<1>3. n \in Nat /\ m \in Nat /\ k \in Nat
  BY DEF Numbers
<1> DEFINE A == {j \in Nat : a[j] = b[j]}
<1>4. 0 .. k \subseteq A
  <2>1. 0 \in A
    BY <1>2
  <2>2. \A j \in 1 .. k : j - 1 \in A => j \in A
    BY <1>2, <1>3
  <2> HIDE DEF A
  <2> QED BY <1>3, <2>1, <2>2, UpTo
<1> QED BY <1>1, <1>3, <1>4

\* The sum of a concatenation.
LEMMA SumOfConcat ==
    ASSUME NEW v, NEW n, Numbers(v, n), NEW w, NEW m, Numbers(w, m)
    PROVE  Numbers(v \o w, n + m) /\ CA!Sum(v \o w) = CA!Sum(v) + CA!Sum(w)
<1>1. PICK c : c = v \o w
  OBVIOUS
<1>2. v \in Seq(Nat) /\ w \in Seq(Nat) /\ Len(v) = n /\ Len(w) = m /\ n \in Nat /\ m \in Nat
  BY NumbersList DEF Numbers
<1>3. /\ c \in Seq(Nat) /\ Len(c) = n + m
      /\ \A i \in 1 .. n + m : c[i] = IF i <= n THEN v[i] ELSE w[i - n]
  BY <1>1, <1>2, ConcatProperties
<1>4. Numbers(c, n + m)
  BY <1>2, <1>3 DEF Numbers
<1>5. PICK sum, more : sum = CA!SumUpTo(c) /\ more = CA!SumUpTo(w)
  OBVIOUS
<1>6. /\ CA!Sum(c) = sum[n + m] /\ \A j \in 1 .. n + m : sum[j] = sum[j - 1] + c[j]
      /\ CA!Sum(w) = more[m] /\ more[0] = 0 /\ \A j \in 1 .. m : more[j] = more[j - 1] + w[j]
  BY <1>4, <1>5, SumSteps
<1>7. PICK s \in Nat : s = CA!Sum(v)
  BY SumIsNatural
<1>8. sum[n] = s
  <2>1. PICK total : total = n + m
    OBVIOUS
  <2>2. Numbers(c, total) /\ n <= total /\ n \in 0 .. n /\ \A i \in 1 .. n : v[i] = c[i]
    BY <1>2, <1>3, <1>4, <2>1
  <2>3. CA!SumUpTo(v)[n] = CA!SumUpTo(c)[n]
    BY ONLY Numbers(v, n), <2>2, SumAgrees
  <2>4. CA!SumUpTo(v)[n] = sum[n]
    BY <1>5, <2>3
  <2> QED BY <1>7, <2>4, SumSteps
<1> DEFINE A == {j \in Nat : sum[n + j] = s + more[j]}
<1>9. 0 .. m \subseteq A
  <2>1. 0 \in A
    BY <1>2, <1>6, <1>8
  <2>2. \A j \in 1 .. m : j - 1 \in A => j \in A
    <3> SUFFICES ASSUME NEW j \in 1 .. m, j - 1 \in A PROVE j \in A
      OBVIOUS
    <3>1. /\ n + j \in 1 .. n + m /\ (n + j) - 1 = n + (j - 1) /\ ~ (n + j <= n) /\ (n + j) - n = j /\ j \in Nat
          /\ j - 1 \in Nat /\ j - 1 \in 0 .. m
      BY <1>2
    <3>2. sum[n + j] = sum[n + (j - 1)] + w[j]
      BY <1>3, <1>6, <3>1
    <3>3. sum[n + (j - 1)] = s + more[j - 1] /\ more[j] = more[j - 1] + w[j]
      BY <1>6
    <3>4. more[j - 1] \in Nat /\ w[j] \in Nat
      BY <1>5, <3>1, SumIsNatural DEF Numbers
    <3> QED BY <3>1, <3>2, <3>3, <3>4
  <2> HIDE DEF A
  <2> QED BY <1>2, <2>1, <2>2, UpTo
<1>10. sum[n + m] = s + more[m]
  BY <1>2, <1>9
<1> QED BY <1>1, <1>4, <1>6, <1>7, <1>10

LEMMA SumOfFour ==
    ASSUME NEW v, Numbers(v, 4) PROVE CA!Sum(v) = v[1] + v[2] + v[3] + v[4]
<1>1. PICK sum : sum = CA!SumUpTo(v)
  OBVIOUS
<1>2. sum[0] = 0 /\ CA!Sum(v) = sum[4] /\ \A k \in 1 .. 4 : sum[k] = sum[k - 1] + v[k]
  BY <1>1, SumSteps
<1>3. sum[1] = sum[0] + v[1] /\ sum[2] = sum[1] + v[2] /\ sum[3] = sum[2] + v[3] /\ sum[4] = sum[3] + v[4]
  <2>1. 1 \in 1 .. 4 /\ 2 \in 1 .. 4 /\ 3 \in 1 .. 4 /\ 4 \in 1 .. 4
        /\ 1 - 1 = 0 /\ 2 - 1 = 1 /\ 3 - 1 = 2 /\ 4 - 1 = 3
    OBVIOUS
  <2> QED BY <1>2, <2>1
<1>4. v[1] \in Nat /\ v[2] \in Nat /\ v[3] \in Nat /\ v[4] \in Nat
  BY DEF Numbers
<1> QED BY <1>2, <1>3, <1>4

\* A word has at least one character.
LEMMA WordCharsAre == ASSUME NEW w \in CA!Words PROVE CA!WordChars(w) \in Nat /\ CA!WordChars(w) >= 1
<1>1. w.chars \in Nat /\ w.chars # 0
  BY DEF CA!Words
<1>2. CASE w.stop = "none"
  BY <1>1, <1>2 DEF CA!WordChars
<1>3. CASE w.stop # "none"
  BY <1>1, <1>3 DEF CA!WordChars
<1> QED BY <1>2, <1>3

\* The mark that ends a word costs a character.
LEMMA StopCosts ==
    ASSUME NEW w \in CA!Words
    PROVE  CA!WordChars(w) = IF w.stop = "none" THEN w.chars ELSE w.chars + 1
<1>1. w.chars \in Nat
  BY DEF CA!Words
<1>2. CASE w.stop = "none"
  BY <1>1, <1>2 DEF CA!WordChars
<1>3. CASE w.stop # "none"
  BY <1>1, <1>3 DEF CA!WordChars
<1> QED BY <1>2, <1>3

CharsOf(text) == [i \in DOMAIN text |-> CA!WordChars(text[i])]

LEMMA CharsListed ==
    ASSUME NEW text \in Seq(CA!Words)
    PROVE  /\ Numbers(CharsOf(text), Len(text)) /\ \A i \in 1 .. Len(text) : CharsOf(text)[i] >= 1
           /\ text # <<>> => CA!Chars(text) = CA!Sum(CharsOf(text)) + Len(text) - 1
           /\ text = <<>> => CA!Chars(text) = 0
           /\ Len(text) \in Nat /\ DOMAIN text = 1 .. Len(text) /\ (text # <<>> => Len(text) >= 1)
<1>1. Len(text) \in Nat /\ DOMAIN text = 1 .. Len(text) /\ (text # <<>> => Len(text) >= 1)
  OBVIOUS
<1>2. \A i \in 1 .. Len(text) : CharsOf(text)[i] \in Nat /\ CharsOf(text)[i] >= 1
  <2> TAKE i \in 1 .. Len(text)
  <2>1. text[i] \in CA!Words /\ CharsOf(text)[i] = CA!WordChars(text[i])
    BY <1>1 DEF CharsOf
  <2> QED BY <2>1, WordCharsAre
<1>3. CharsOf(text) = [i \in 1 .. Len(text) |-> CharsOf(text)[i]]
  BY <1>1 DEF CharsOf
<1> QED BY <1>1, <1>2, <1>3 DEF Numbers, CA!Chars, CharsOf

LEMMA CharsAre ==
    ASSUME NEW text \in Seq(CA!Words)
    PROVE  CA!Chars(text) \in Nat /\ (text # <<>> => CA!Chars(text) >= 1)
<1>1. CA!Sum(CharsOf(text)) \in Nat /\ CA!Sum(CharsOf(text)) >= Len(text)
  BY CharsListed, SumIsNatural
<1>2. CASE text = <<>>
  BY <1>2, CharsListed
<1>3. CASE text # <<>>
  <2>1. PICK s \in Nat, n \in Nat : s = CA!Sum(CharsOf(text)) /\ n = Len(text)
    BY <1>1, CharsListed
  <2>2. CA!Chars(text) = s + n - 1 /\ n >= 1 /\ s >= n
    BY <1>1, <1>3, <2>1, CharsListed
  <2> QED BY <2>2
<1> QED BY <1>2, <1>3

LEMMA CharsOfOne ==
    ASSUME NEW w \in CA!Words, NEW text, text = <<w>>
    PROVE  /\ CA!Chars(text) = CA!WordChars(w)
           /\ text \in Seq(CA!Words) /\ text # <<>> /\ Len(text) = 1 /\ text[1] = w /\ DOMAIN text = {1}
<1>1. text \in Seq(CA!Words) /\ text # <<>> /\ Len(text) = 1 /\ text[1] = w /\ DOMAIN text = 1 .. 1
  OBVIOUS
<1>2. CharsOf(text)[1] = CA!WordChars(w)
  BY <1>1 DEF CharsOf
<1>3. Numbers(CharsOf(text), 1) /\ CA!Chars(text) = CA!Sum(CharsOf(text)) + Len(text) - 1
  BY <1>1, CharsListed
<1>4. CA!Sum(CharsOf(text)) = CA!WordChars(w)
  <2>1. PICK sum : sum = CA!SumUpTo(CharsOf(text))
    OBVIOUS
  <2>2. 1 \in 1 .. 1 /\ 1 - 1 = 0
    OBVIOUS
  <2>3. sum[0] = 0 /\ CA!Sum(CharsOf(text)) = sum[1] /\ sum[1] = sum[1 - 1] + CharsOf(text)[1]
    BY <1>3, <2>1, <2>2, SumSteps
  <2> QED BY <1>2, <2>2, <2>3, WordCharsAre
<1>5. CA!WordChars(w) \in Nat
  BY WordCharsAre
<1> QED BY <1>1, <1>3, <1>4, <1>5

\* What a cut of a text keeps of it.
Shortens(cut, text) ==
    /\ cut \in Seq(CA!Words) /\ cut # <<>> /\ Len(cut) <= Len(text)
    /\ \A i \in DOMAIN cut : /\ i \in DOMAIN text /\ cut[i].claim = text[i].claim
                             /\ cut[i].stop \in {text[i].stop, "none"}

LEMMA ShortensBy ==
    ASSUME NEW text, NEW cut \in Seq(CA!Words), NEW n \in Nat, NEW m \in Nat \ {0}, m <= n,
           Len(cut) = m, DOMAIN cut = 1 .. m, Len(text) = n, DOMAIN text = 1 .. n,
           \A i \in 1 .. m : cut[i].claim = text[i].claim /\ cut[i].stop \in {text[i].stop, "none"}
    PROVE  Shortens(cut, text)
<1>1. cut # <<>>
  <2>1. Len(<<>>) = 0
    OBVIOUS
  <2> QED BY <2>1
<1> QED BY <1>1 DEF Shortens

LEMMA CutShortens ==
    ASSUME NEW text \in Seq(CA!Words), text # <<>>, NEW n \in Nat \ {0}, NEW cut, cut = CA!CutAt(text, n)
    PROVE  Shortens(cut, text) /\ CA!Chars(cut) <= n
<1>1. Len(text) \in Nat /\ Len(text) >= 1 /\ DOMAIN text = 1 .. Len(text) /\ text[1] \in CA!Words
  OBVIOUS
<1> DEFINE fits == {k \in DOMAIN text : CA!Chars(SubSeq(text, 1, k)) < n}
           most == CHOOSE k \in fits : \A j \in fits : j <= k
<1>2. CASE CA!Chars(text) <= n
  <2>1. cut = text
    BY <1>2 DEF CA!CutAt
  <2> QED BY <1>1, <1>2, <2>1, ShortensBy
<1>3. CASE ~ (CA!Chars(text) <= n) /\ fits # {}
  <2>1. cut = SubSeq(text, 1, most)
    BY <1>3 DEF CA!CutAt
  <2>2. most \in fits
    <3>1. fits \subseteq 0 .. Len(text)
      BY <1>1
    <3>2. \E k \in fits : \A j \in fits : k >= j
      BY <1>1, <1>3, <3>1, GreatestNatural
    <3>3. fits \subseteq Nat
      BY <1>1
    <3>4. \E k \in fits : \A j \in fits : j <= k
      BY <3>2, <3>3
    <3> HIDE DEF fits
    <3> QED BY <3>4
  <2> HIDE DEF most
  <2>3. most \in 1 .. Len(text) /\ CA!Chars(SubSeq(text, 1, most)) < n
    BY <1>1, <2>2
  <2> HIDE DEF fits
  <2>4. /\ cut \in Seq(CA!Words) /\ Len(cut) = most /\ DOMAIN cut = 1 .. most
        /\ \A i \in 1 .. most : cut[i] = text[i]
    BY <1>1, <2>1, <2>3
  <2>5. CA!Chars(cut) \in Nat
    BY <2>4, CharsAre
  <2>6. Shortens(cut, text)
    BY <1>1, <2>3, <2>4, ShortensBy
  <2> QED BY <2>1, <2>3, <2>5, <2>6
<1> HIDE DEF fits, most
<1>4. CASE /\ ~ (CA!Chars(text) <= n) /\ fits = {} /\ CA!Chars(<<text[1]>>) = n
  <2>1. cut = <<text[1]>>
    BY <1>4 DEF CA!CutAt, fits
  <2>2. cut \in Seq(CA!Words) /\ cut # <<>> /\ Len(cut) = 1 /\ cut[1] = text[1] /\ DOMAIN cut = {1}
    BY <1>1, <2>1, CharsOfOne
  <2>3. Shortens(cut, text)
    <3>1. 1 \in Nat \ {0} /\ DOMAIN cut = 1 .. 1 /\ \A i \in 1 .. 1 : i = 1
      BY <2>2
    <3> QED BY <1>1, <2>2, <3>1, ShortensBy
  <2> QED BY <1>1, <1>4, <2>1, <2>3
<1>5. CASE /\ ~ (CA!Chars(text) <= n) /\ fits = {} /\ CA!Chars(<<text[1]>>) # n
  <2> DEFINE w == [text[1] EXCEPT !.chars = n, !.stop = "none"]
  <2>1. cut = <<w>>
    BY <1>5 DEF CA!CutAt, fits
  <2>2. w \in CA!Words /\ w.chars = n /\ w.stop = "none" /\ w.claim = text[1].claim
    BY <1>1 DEF CA!Words
  <2> HIDE DEF w
  <2>3. /\ cut \in Seq(CA!Words) /\ cut # <<>> /\ Len(cut) = 1 /\ cut[1] = w /\ DOMAIN cut = {1}
        /\ CA!Chars(cut) = CA!WordChars(w)
    BY <2>1, <2>2, CharsOfOne
  <2>4. CA!WordChars(w) = n
    BY <2>2, StopCosts
  <2>5. Shortens(cut, text)
    <3>1. 1 \in Nat \ {0} /\ DOMAIN cut = 1 .. 1 /\ \A i \in 1 .. 1 : i = 1
      BY <2>3
    <3> QED BY <1>1, <2>2, <2>3, <3>1, ShortensBy
  <2> QED BY <2>3, <2>4, <2>5
<1> QED BY <1>2, <1>3, <1>4, <1>5

\* A full stop costs one character at most.
LEMMA EndedTextEnds ==
    ASSUME NEW text \in Seq(CA!Words), text # <<>>, NEW ended, ended = CA!EndedText(text)
    PROVE  /\ ended \in Seq(CA!Words) /\ ended # <<>> /\ Len(ended) = Len(text) /\ CA!Ended(ended)
           /\ CA!Chars(ended) <= CA!Chars(text) + 1
           /\ \A i \in DOMAIN ended : /\ i \in DOMAIN text /\ ended[i].claim = text[i].claim
                                      /\ ended[i].stop \in {text[i].stop, "."}
<1>1. Len(text) \in Nat /\ Len(text) >= 1 /\ DOMAIN text = 1 .. Len(text)
  OBVIOUS
<1>2. CA!Chars(text) \in Nat
  BY CharsAre
<1>3. CASE CA!Ended(text)
  <2>1. ended = text
    BY <1>3 DEF CA!EndedText
  <2> QED BY <1>1, <1>2, <1>3, <2>1
<1>4. CASE ~ CA!Ended(text)
  <2>1. PICK n \in Nat : n = Len(text)
    BY <1>1
  <2>2. text[n].stop = "none" /\ text[n] \in CA!Words /\ n \in 1 .. Len(text)
    BY <1>1, <1>4, <2>1 DEF CA!Ended
  <2>3. PICK w : w = [text[n] EXCEPT !.stop = "."]
    OBVIOUS
  <2>4. w \in CA!Words /\ w.stop = "." /\ w.claim = text[n].claim /\ w.chars = text[n].chars
    BY <2>2, <2>3 DEF CA!Words
  <2>5. ended = [text EXCEPT ![n] = w]
    <3>1. ended = [text EXCEPT ![n].stop = "."]
      BY <1>4, <2>1 DEF CA!EndedText
    <3> QED BY <2>2, <2>3, <3>1
  <2>6. /\ ended \in Seq(CA!Words) /\ Len(ended) = n /\ DOMAIN ended = 1 .. n /\ ended[n] = w
        /\ \A i \in 1 .. n : i # n => ended[i] = text[i]
    <3>1. /\ ended \in Seq(CA!Words) /\ Len(ended) = Len(text)
          /\ \A j \in 1 .. Len(text) : ended[j] = IF j = n THEN w ELSE text[j]
      BY <2>2, <2>4, <2>5, ExceptSeq
    <3>2. DOMAIN ended = 1 .. Len(ended)
      BY <3>1
    <3>3. n \in 1 .. n
      BY <1>1, <2>1
    <3> QED BY <2>1, <3>1, <3>2, <3>3
  <2>7. CA!Ended(ended) /\ ended # <<>>
    <3>1. ended # <<>>
      <4>1. Len(<<>>) = 0
        OBVIOUS
      <4>2. n >= 1 /\ Len(ended) = n
        BY <1>1, <2>1, <2>6
      <4>3. Len(ended) # 0
        BY ONLY <4>2
      <4> QED BY <4>1, <4>3
    <3> QED BY <2>4, <2>6, <3>1 DEF CA!Ended
  <2>8. CA!Chars(ended) <= CA!Chars(text) + 1
    <3>1. PICK v, u : v = CharsOf(text) /\ u = CharsOf(ended)
      OBVIOUS
    <3>2. Numbers(v, n) /\ Numbers(u, n) /\ n >= 1
      BY <1>1, <2>1, <2>6, <3>1, CharsListed
    <3>3. \A i \in 1 .. n - 1 : v[i] = u[i]
      <4> TAKE i \in 1 .. n - 1
      <4>1. i \in 1 .. n /\ i # n
        BY <3>2
      <4>2. ended[i] = text[i] /\ i \in DOMAIN text /\ i \in DOMAIN ended
        BY <1>1, <2>1, <2>6, <4>1
      <4> QED BY <3>1, <4>2 DEF CharsOf
    <3>4. u[n] = v[n] + 1 /\ v[n] \in Nat
      <4>1. v[n] = CA!WordChars(text[n]) /\ u[n] = CA!WordChars(w)
        BY <1>1, <2>1, <2>2, <2>6, <3>1 DEF CharsOf
      <4>2. text[n].chars \in Nat
        BY <2>2 DEF CA!Words
      <4>3. v[n] = text[n].chars /\ u[n] = text[n].chars + 1
        BY <2>2, <2>4, <4>1, StopCosts
      <4> QED BY <4>2, <4>3
    <3>5. PICK a, b : a = CA!SumUpTo(v) /\ b = CA!SumUpTo(u)
      OBVIOUS
    <3>6. PICK m \in Nat : m = n - 1 /\ m \in 0 .. n /\ m <= n
      BY <3>2
    <3>7. a[m] = b[m]
      BY <3>2, <3>3, <3>5, <3>6, SumAgrees
    <3>8. CA!Sum(v) = a[n] /\ CA!Sum(u) = b[n] /\ a[n] = a[m] + v[n] /\ b[n] = b[m] + u[n] /\ a[m] \in Nat
      <4>1. n \in 1 .. n
        BY <3>2
      <4> QED BY <3>2, <3>5, <3>6, <4>1, SumSteps, SumIsNatural
    <3>9. CA!Sum(u) = CA!Sum(v) + 1 /\ CA!Sum(v) \in Nat
      BY <3>4, <3>7, <3>8
    <3>10. CA!Chars(text) = CA!Sum(v) + n - 1 /\ CA!Chars(ended) = CA!Sum(u) + n - 1
      BY <2>1, <2>6, <2>7, <3>1, CharsListed
    <3> QED BY <3>9, <3>10
  <2>9. \A i \in DOMAIN ended : /\ i \in DOMAIN text /\ ended[i].claim = text[i].claim
                                /\ ended[i].stop \in {text[i].stop, "."}
    BY <1>1, <2>1, <2>4, <2>6
  <2> QED BY <2>1, <2>6, <2>7, <2>8, <2>9
<1> QED BY <1>3, <1>4

LEMMA ChosenAlikeCopy == ASSUME NEW s, NEW wanted PROVE CA!Chosen(s, wanted) = RV!Chosen(s, wanted)
<1>1. CA!ChosenUpTo(s, wanted) = RV!ChosenUpTo(s, wanted)
  BY DEF CA!ChosenUpTo, RV!ChosenUpTo
<1> QED BY <1>1 DEF CA!Chosen, RV!Chosen

\* A text that may be published: nobody is shouted at, no claim is new.
Speaks(text, brief) ==
    \A i \in DOMAIN text : /\ text[i].stop # "!"
                           /\ text[i].claim \in (brief.approved \ brief.forbidden) \cup {NoClaim}

LEMMA Quieted ==
    ASSUME NEW w \in CA!Words, NEW loud \in BOOLEAN,
           NEW q, q = [w EXCEPT !.stop = IF @ = "!" THEN "." ELSE @, !.shouts = @ /\ ~ loud]
    PROVE  q \in CA!Words /\ q.claim = w.claim /\ q.stop # "!"
<1>1. PICK shouts \in BOOLEAN : shouts = (w.shouts /\ ~ loud)
  BY DEF CA!Words
<1>2. PICK stop : stop = IF w.stop = "!" THEN "." ELSE w.stop
  OBVIOUS
<1>3. stop \in {"none", "."}
  BY <1>2 DEF CA!Words
<1>4. q = [w EXCEPT !.stop = stop, !.shouts = shouts]
  BY <1>1, <1>2
<1> QED BY <1>3, <1>4 DEF CA!Words

LEMMA DefaultWords ==
    ASSUME NEW text, text = <<CA!Plain(8), CA!Plain(4)>>
    PROVE  /\ text \in Seq(CA!Words) /\ text # <<>> /\ Len(text) = 2 /\ CA!Chars(text) = 13
           /\ \A brief : Speaks(text, brief)
<1>1. \A n \in Nat \ {0} : CA!Plain(n) \in CA!Words /\ CA!Plain(n).stop = "none" /\ CA!Plain(n).claim = NoClaim
                           /\ CA!Plain(n).chars = n
  BY DEF CA!Plain, CA!Words
<1>2. PICK a, b : a = CA!Plain(8) /\ b = CA!Plain(4)
  OBVIOUS
<1>3. a \in CA!Words /\ b \in CA!Words /\ a.chars = 8 /\ b.chars = 4 /\ a.stop = "none" /\ b.stop = "none"
      /\ a.claim = NoClaim /\ b.claim = NoClaim
  BY <1>1, <1>2
<1>4. text = <<a, b>>
  BY <1>2
<1>5. /\ text \in Seq(CA!Words) /\ text # <<>> /\ Len(text) = 2 /\ DOMAIN text = 1 .. 2
      /\ text[1] = a /\ text[2] = b
  BY <1>3, <1>4
<1>6. \A brief : Speaks(text, brief)
  BY <1>3, <1>5 DEF Speaks
<1>7. CA!Chars(text) = 13
  <2>1. CharsOf(text)[1] = 8 /\ CharsOf(text)[2] = 4
    <3>1. CA!WordChars(a) = 8 /\ CA!WordChars(b) = 4
      BY <1>3, StopCosts
    <3> QED BY <1>5, <3>1 DEF CharsOf
  <2>2. PICK sum : sum = CA!SumUpTo(CharsOf(text))
    OBVIOUS
  <2>3. 1 \in 1 .. 2 /\ 2 \in 1 .. 2 /\ 1 - 1 = 0 /\ 2 - 1 = 1
    OBVIOUS
  <2>4. Numbers(CharsOf(text), 2)
    BY <1>5, CharsListed
  <2>5. /\ sum[0] = 0 /\ CA!Sum(CharsOf(text)) = sum[2]
        /\ sum[1] = sum[1 - 1] + CharsOf(text)[1] /\ sum[2] = sum[2 - 1] + CharsOf(text)[2]
    BY <2>2, <2>3, <2>4, SumSteps
  <2>6. CA!Sum(CharsOf(text)) = 12
    BY <2>1, <2>3, <2>5
  <2>7. CA!Chars(text) = CA!Sum(CharsOf(text)) + Len(text) - 1
    BY <1>5, CharsListed
  <2> QED BY <1>5, <2>6, <2>7
<1> QED BY <1>5, <1>6, <1>7

\* The repair of one text.
LEMMA SafeTextSpeaks ==
    ASSUME NEW text \in Seq(CA!Words), NEW brief, NEW words \in Nat, NEW chars \in Nat, chars >= 13,
           NEW safe, safe = CA!SafeText(text, brief, words, chars)
    PROVE  /\ safe \in Seq(CA!Words) /\ safe # <<>> /\ CA!Chars(safe) <= chars /\ Speaks(safe, brief)
           /\ Len(safe) \in Nat /\ (Len(safe) <= words \/ Len(safe) <= 2)
<1> DEFINE sayable == brief.approved \ brief.forbidden
           left == CA!Chosen(text, {w \in CA!Range(text) : w.claim \in sayable \cup {NoClaim}})
           loud == CA!Shouts(left)
           quiet(w) == [w EXCEPT !.stop = IF @ = "!" THEN "." ELSE @, !.shouts = @ /\ ~ loud]
           calm == [i \in DOMAIN left |-> quiet(left[i])]
           many == IF Len(calm) < words THEN Len(calm) ELSE words
           first == SubSeq(calm, 1, many)
           cut == CA!CutAt(first, chars)
<1>1. safe = IF cut = <<>> THEN <<CA!Plain(8), CA!Plain(4)>> ELSE cut
  BY DEF CA!SafeText
<1>2. left \in Seq(CA!Words) /\ \A i \in DOMAIN left : left[i].claim \in sayable \cup {NoClaim}
  <2>1. /\ left \in Seq(CA!Words)
        /\ CA!Range(left) \subseteq {w \in CA!Range(text) : w.claim \in sayable \cup {NoClaim}}
    <3>1. PICK wanted : wanted = {w \in CA!Range(text) : w.claim \in sayable \cup {NoClaim}}
      OBVIOUS
    <3>2. PICK chosen : chosen = RV!Chosen(text, wanted)
      OBVIOUS
    <3>3. chosen \in Seq(CA!Words) /\ RV!Range(chosen) \subseteq wanted
      BY <3>2, ChosenIsWanted
    <3>4. left = chosen
      BY <3>1, <3>2, ChosenAlikeCopy
    <3>5. RV!Range(chosen) = CA!Range(chosen)
      BY DEF RV!Range, CA!Range
    <3> QED BY <3>1, <3>3, <3>4, <3>5
  <2> HIDE DEF left, sayable
  <2>2. \A i \in DOMAIN left : left[i] \in CA!Range(left)
    BY DEF CA!Range
  <2> QED BY <2>1, <2>2
<1>3. loud \in BOOLEAN
  BY DEF CA!Shouts
<1> HIDE DEF loud
<1>4. \A w \in CA!Words : quiet(w) \in CA!Words /\ quiet(w).claim = w.claim /\ quiet(w).stop # "!"
  <2> TAKE w \in CA!Words
  <2>1. PICK q : q = [w EXCEPT !.stop = IF @ = "!" THEN "." ELSE @, !.shouts = @ /\ ~ loud]
    OBVIOUS
  <2>2. q \in CA!Words /\ q.claim = w.claim /\ q.stop # "!"
    BY <1>3, <2>1, Quieted
  <2>3. quiet(w) = q
    BY <2>1, Zenon
  <2> QED BY <2>2, <2>3
<1> HIDE DEF quiet, left
<1>5. /\ calm \in Seq(CA!Words) /\ Len(calm) \in Nat /\ DOMAIN calm = 1 .. Len(calm)
      /\ \A i \in DOMAIN calm : calm[i].stop # "!" /\ calm[i].claim \in sayable \cup {NoClaim}
  <2>1. PICK n \in Nat : n = Len(left) /\ DOMAIN left = 1 .. n
    BY <1>2
  <2>2. \A i \in 1 .. n : left[i] \in CA!Words
    BY <1>2, <2>1
  <2>3. calm \in [1 .. n -> CA!Words]
    BY <1>4, <2>1, <2>2
  <2>4. calm \in Seq(CA!Words)
    BY <2>3, SeqDef
  <2>5. \A i \in 1 .. n : calm[i].stop # "!" /\ calm[i].claim \in sayable \cup {NoClaim}
    BY <1>2, <1>4, <2>1, <2>2
  <2>6. DOMAIN calm = 1 .. n
    BY <2>3
  <2> HIDE DEF calm
  <2>7. Len(calm) \in Nat /\ DOMAIN calm = 1 .. Len(calm)
    BY <2>4
  <2> QED BY <2>4, <2>5, <2>6, <2>7
<1> HIDE DEF calm
<1>6. many \in Nat /\ many <= Len(calm) /\ many <= words
  BY <1>5
<1> HIDE DEF many
<1>7. /\ first \in Seq(CA!Words) /\ Len(first) = many /\ DOMAIN first = 1 .. many
      /\ \A i \in 1 .. many : first[i] = calm[i]
  BY <1>5, <1>6
<1> HIDE DEF first
<1>8. CASE first = <<>>
  <2>1. cut = <<>>
    <3>1. CA!Chars(first) = 0
      BY <1>7, <1>8, CharsListed
    <3> QED BY <1>8, <3>1 DEF CA!CutAt
  <2>2. safe = <<CA!Plain(8), CA!Plain(4)>>
    BY <1>1, <2>1
  <2>3. safe \in Seq(CA!Words) /\ safe # <<>> /\ Len(safe) = 2 /\ CA!Chars(safe) = 13 /\ Speaks(safe, brief)
    BY <2>2, DefaultWords
  <2> QED BY <2>3
<1>9. CASE first # <<>>
  <2>1. Shortens(cut, first) /\ CA!Chars(cut) <= chars
    BY <1>7, <1>9, CutShortens
  <2> HIDE DEF cut
  <2>2. cut \in Seq(CA!Words) /\ cut # <<>> /\ Len(cut) <= many
    BY <1>7, <2>1 DEF Shortens
  <2>3. Len(cut) \in Nat
    BY <2>2
  <2>4. safe = cut
    BY <1>1, <2>2
  <2>5. Speaks(cut, brief)
    <3> SUFFICES ASSUME NEW i \in DOMAIN cut
                 PROVE  cut[i].stop # "!" /\ cut[i].claim \in sayable \cup {NoClaim}
      BY DEF Speaks
    <3>1. i \in 1 .. many /\ cut[i].claim = first[i].claim /\ cut[i].stop \in {first[i].stop, "none"}
      BY <1>7, <2>1 DEF Shortens
    <3>2. first[i] = calm[i] /\ i \in DOMAIN calm
      BY <1>5, <1>6, <1>7, <3>1
    <3> QED BY <1>5, <3>1, <3>2
  <2>6. Len(cut) <= words
    BY <1>6, <2>2, <2>3
  <2> QED BY <2>1, <2>2, <2>3, <2>4, <2>5, <2>6
<1> QED BY <1>8, <1>9

----------------------------------------------------------------------------
(* A copy is normalised. *)

\* A text field of at most so many characters and words.
Field(text, brief, chars) ==
    text \in Seq(CA!Words) /\ text # <<>> /\ CA!Chars(text) <= chars /\ Speaks(text, brief)

LEMMA SafeEnded ==
    ASSUME NEW text \in Seq(CA!Words), NEW brief, NEW words \in Nat, words >= 2, NEW chars \in Nat, chars >= 13,
           NEW ended, ended = CA!EndedText(CA!SafeText(text, brief, words, chars))
    PROVE  Field(ended, brief, chars + 1) /\ Len(ended) <= words /\ CA!Ended(ended)
<1>1. PICK safe : safe = CA!SafeText(text, brief, words, chars)
  OBVIOUS
<1>2. /\ safe \in Seq(CA!Words) /\ safe # <<>> /\ CA!Chars(safe) <= chars /\ Speaks(safe, brief)
      /\ Len(safe) \in Nat /\ (Len(safe) <= words \/ Len(safe) <= 2)
  BY <1>1, SafeTextSpeaks
<1>3. /\ ended \in Seq(CA!Words) /\ ended # <<>> /\ Len(ended) = Len(safe) /\ CA!Ended(ended)
      /\ CA!Chars(ended) <= CA!Chars(safe) + 1
      /\ \A i \in DOMAIN ended : /\ i \in DOMAIN safe /\ ended[i].claim = safe[i].claim
                                 /\ ended[i].stop \in {safe[i].stop, "."}
  BY <1>1, <1>2, EndedTextEnds
<1>4. Speaks(ended, brief)
  BY <1>2, <1>3 DEF Speaks
<1>5. CA!Chars(ended) \in Nat /\ CA!Chars(safe) \in Nat
  BY <1>2, <1>3, CharsAre
<1>6. CA!Chars(ended) <= chars + 1
  BY <1>2, <1>3, <1>5
<1>7. Len(ended) <= words
  BY <1>2, <1>3
<1> QED BY <1>3, <1>4, <1>6, <1>7 DEF Field

LEMMA SafeField ==
    ASSUME NEW text \in Seq(CA!Words), NEW brief, NEW words \in Nat, NEW chars \in Nat, chars >= 13,
           NEW safe, safe = CA!SafeText(text, brief, words, chars)
    PROVE  Field(safe, brief, chars) /\ (words >= 2 => Len(safe) <= words)
<1>1. /\ safe \in Seq(CA!Words) /\ safe # <<>> /\ CA!Chars(safe) <= chars /\ Speaks(safe, brief)
      /\ Len(safe) \in Nat /\ (Len(safe) <= words \/ Len(safe) <= 2)
  BY SafeTextSpeaks
<1> QED BY <1>1 DEF Field

\* The fields an answer has are texts.
Typed(x) ==
    /\ \A f \in DOMAIN x \ {"hashtags"} : x[f] \in Seq(CA!Words)
    /\ "hashtags" \in DOMAIN x => x.hashtags \in Seq(Seq(CA!Words))

LEMMA DefaultsTyped == Typed(CA!Defaults) /\ DOMAIN CA!Defaults = CA!TextFields \cup {"hashtags"}
<1>1. \A n \in Nat \ {0} : CA!Plain(n) \in CA!Words
  BY DEF CA!Plain, CA!Words
<1>2. [CA!Plain(4) EXCEPT !.stop = "."] \in CA!Words
  <2>1. PICK w \in CA!Words : w = CA!Plain(4)
    BY <1>1
  <2>2. [w EXCEPT !.stop = "."] \in CA!Words
    BY DEF CA!Words
  <2> QED BY <2>1, <2>2
<1> DEFINE end == [CA!Plain(4) EXCEPT !.stop = "."]
           a == <<CA!Plain(8), CA!Plain(4), CA!Plain(5), CA!Plain(4)>>
           b == <<CA!Plain(1), CA!Plain(7), CA!Plain(10), CA!Plain(6), CA!Plain(6), CA!Plain(4), CA!Plain(5)>>
           c == <<CA!Plain(7), CA!Plain(2), CA!Plain(10), CA!Plain(8), CA!Plain(4), end>>
           d == <<CA!Plain(5), CA!Plain(4)>>
<1>3. CA!Defaults = [headline |-> a, subheadline |-> b, supporting_copy |-> c, cta |-> d, caption |-> c,
                     hashtags |-> <<>>]
  BY DEF CA!Defaults
<1>4. a \in Seq(CA!Words) /\ b \in Seq(CA!Words) /\ c \in Seq(CA!Words) /\ d \in Seq(CA!Words)
  <2> HIDE DEF end
  <2>1. end \in CA!Words
    BY <1>2 DEF end
  <2> QED BY <1>1, <2>1
<1>5. <<>> \in Seq(Seq(CA!Words))
  OBVIOUS
<1> HIDE DEF a, b, c, d
<1>6. DOMAIN CA!Defaults = CA!TextFields \cup {"hashtags"}
  BY <1>3 DEF CA!TextFields
<1>7. \A f \in CA!TextFields : CA!Defaults[f] \in {a, b, c, d}
  BY <1>3 DEF CA!TextFields
<1>8. CA!Defaults.hashtags = <<>>
  BY <1>3
<1> QED BY <1>4, <1>5, <1>6, <1>7, <1>8 DEF Typed, CA!TextFields

\* The copy the repairs have made.
CopyKept(x, brief) ==
    /\ DOMAIN x = CA!TextFields \cup {"offer_copy", "hashtags"}
    /\ \A f \in CA!TextFields : Field(x[f], brief, CA!MaxChars[f])
    /\ Len(x.headline) <= 12 /\ Len(x.cta) <= 6 /\ Len(x.supporting_copy) <= 30 /\ Len(x.caption) <= 30
    /\ CA!Ended(x.supporting_copy) /\ CA!Ended(x.caption)
    /\ CA!Chars(x.caption) <= CA!CaptionLimit(brief.platform)
    /\ x.offer_copy = brief.offer
    /\ x.hashtags \in Seq(Seq(CA!Words)) /\ Len(x.hashtags) <= 15

LEMMA NormalizedIsKept ==
    ASSUME NEW repair, Typed(repair), NEW first, Typed(first), NEW brief, NEW x,
           x = CA!NormalizedCopy(repair, first, brief)
    PROVE  CopyKept(x, brief)
<1> DEFINE taken(f) == IF f \in DOMAIN repair THEN repair[f]
                       ELSE IF f \in DOMAIN first THEN first[f] ELSE CA!Defaults[f]
<1>1. \A f \in CA!TextFields : taken(f) \in Seq(CA!Words)
  <2>1. \A f \in CA!TextFields : f # "hashtags"
    BY DEF CA!TextFields
  <2>2. \A f \in CA!TextFields : CA!Defaults[f] \in Seq(CA!Words)
    BY <2>1, DefaultsTyped DEF Typed
  <2> QED BY <2>1, <2>2 DEF Typed
<1>2. taken("hashtags") \in Seq(Seq(CA!Words))
  BY DefaultsTyped DEF Typed
<1> DEFINE limit == CA!CaptionLimit(brief.platform)
           headline == CA!SafeText(taken("headline"), brief, 12, 80)
           subheadline == CA!SafeText(taken("subheadline"), brief, Len(taken("subheadline")), 140)
           supporting == CA!EndedText(CA!SafeText(taken("supporting_copy"), brief, 30, 239))
           cta == CA!SafeText(taken("cta"), brief, 6, 40)
           caption == CA!EndedText(CA!SafeText(taken("caption"), brief, 30, limit - 1))
           hashtags == SubSeq(taken("hashtags"), 1, IF Len(taken("hashtags")) < 15
                                                    THEN Len(taken("hashtags")) ELSE 15)
<1>3. x = [headline |-> headline, subheadline |-> subheadline, supporting_copy |-> supporting, cta |-> cta,
           caption |-> caption, offer_copy |-> brief.offer, hashtags |-> hashtags]
  BY DEF CA!NormalizedCopy
<1>4. /\ taken("headline") \in Seq(CA!Words) /\ taken("subheadline") \in Seq(CA!Words)
      /\ taken("supporting_copy") \in Seq(CA!Words) /\ taken("cta") \in Seq(CA!Words)
      /\ taken("caption") \in Seq(CA!Words)
  <2> HIDE DEF taken
  <2> QED BY <1>1 DEF CA!TextFields
<1>5. limit \in {500, 300}
  BY DEF CA!CaptionLimit
<1> HIDE DEF taken
<1>6. Field(headline, brief, 80) /\ Len(headline) <= 12
  <2>1. 12 \in Nat /\ 80 \in Nat /\ 80 >= 13 /\ 12 >= 2
    OBVIOUS
  <2> QED BY <1>4, <2>1, SafeField
<1>7. Field(subheadline, brief, 140)
  <2>1. 140 \in Nat /\ 140 >= 13 /\ Len(taken("subheadline")) \in Nat
    BY <1>4
  <2> QED BY <1>4, <2>1, SafeField
<1>8. Field(cta, brief, 40) /\ Len(cta) <= 6
  <2>1. 6 \in Nat /\ 40 \in Nat /\ 40 >= 13 /\ 6 >= 2
    OBVIOUS
  <2> QED BY <1>4, <2>1, SafeField
<1>9. Field(supporting, brief, 240) /\ Len(supporting) <= 30 /\ CA!Ended(supporting)
  <2>1. 30 \in Nat /\ 239 \in Nat /\ 239 >= 13 /\ 30 >= 2 /\ 239 + 1 = 240
    OBVIOUS
  <2> HIDE DEF supporting
  <2>2. Field(supporting, brief, 239 + 1) /\ Len(supporting) <= 30 /\ CA!Ended(supporting)
    BY <1>4, <2>1, SafeEnded DEF supporting
  <2> QED BY <2>1, <2>2
<1>10. Field(caption, brief, limit) /\ Len(caption) <= 30 /\ CA!Ended(caption)
  <2> HIDE DEF limit
  <2>1. PICK below : below = limit - 1
    OBVIOUS
  <2>2. 30 \in Nat /\ below \in Nat /\ below >= 13 /\ 30 >= 2 /\ below + 1 = limit
    BY <1>5, <2>1
  <2>3. caption = CA!EndedText(CA!SafeText(taken("caption"), brief, 30, below))
    BY <2>1
  <2> HIDE DEF caption
  <2>4. Field(caption, brief, below + 1) /\ Len(caption) <= 30 /\ CA!Ended(caption)
    BY <1>4, <2>2, <2>3, SafeEnded
  <2> QED BY <2>2, <2>4
<1>11. hashtags \in Seq(Seq(CA!Words)) /\ Len(hashtags) <= 15
  <2>1. PICK tags : tags = taken("hashtags")
    OBVIOUS
  <2>2. PICK S : S = Seq(CA!Words)
    OBVIOUS
  <2>3. tags \in Seq(S) /\ Len(tags) \in Nat
    BY <1>2, <2>1, <2>2
  <2>4. PICK n \in Nat : n = (IF Len(tags) < 15 THEN Len(tags) ELSE 15) /\ n <= Len(tags) /\ n <= 15
    BY <2>3
  <2>5. hashtags = SubSeq(tags, 1, n)
    BY <2>1, <2>4
  <2> HIDE DEF hashtags
  <2>6. hashtags \in Seq(S) /\ Len(hashtags) = n
    BY <2>3, <2>4, <2>5
  <2> QED BY <2>2, <2>4, <2>6
<1> HIDE DEF headline, subheadline, supporting, cta, caption, hashtags
<1>12. /\ DOMAIN x = CA!TextFields \cup {"offer_copy", "hashtags"}
       /\ x["headline"] = headline /\ x["subheadline"] = subheadline /\ x["supporting_copy"] = supporting
       /\ x["cta"] = cta /\ x["caption"] = caption /\ x["offer_copy"] = brief.offer /\ x["hashtags"] = hashtags
  BY <1>3 DEF CA!TextFields
<1>13. Field(caption, brief, 2200) /\ CA!Chars(caption) <= limit
  <2>1. caption \in Seq(CA!Words) /\ caption # <<>> /\ CA!Chars(caption) <= limit /\ Speaks(caption, brief)
    BY <1>10 DEF Field
  <2>2. CA!Chars(caption) \in Nat
    BY <2>1, CharsAre
  <2>3. CA!Chars(caption) <= 2200
    <3> HIDE DEF limit
    <3> QED BY <1>5, <2>1, <2>2
  <2> QED BY <2>1, <2>3 DEF Field
<1>14. /\ CA!MaxChars["headline"] = 80 /\ CA!MaxChars["subheadline"] = 140 /\ CA!MaxChars["supporting_copy"] = 240
       /\ CA!MaxChars["cta"] = 40 /\ CA!MaxChars["caption"] = 2200
  BY DEF CA!MaxChars
<1>15. \A f \in CA!TextFields : Field(x[f], brief, CA!MaxChars[f])
  BY <1>6, <1>7, <1>8, <1>9, <1>12, <1>13, <1>14 DEF CA!TextFields
<1> QED BY <1>6, <1>8, <1>9, <1>10, <1>11, <1>12, <1>13, <1>15 DEF CopyKept

----------------------------------------------------------------------------
(* A cut of the overlay. *)

Overlay == {"headline", "subheadline", "supporting_copy", "cta"}

\* The overlay is the offer and four fields.
LEMMA OverlayIs ==
    ASSUME NEW x, x.offer_copy \in Seq(CA!Words), \A f \in Overlay : x[f] \in Seq(CA!Words)
    PROVE  /\ CA!Chars(x.offer_copy) \in Nat /\ \A f \in Overlay : CA!Chars(x[f]) \in Nat
           /\ CA!OverlayChars(x) = CA!Chars(x.offer_copy) + (CA!Chars(x["headline"]) + CA!Chars(x["subheadline"])
                                        + CA!Chars(x["supporting_copy"]) + CA!Chars(x["cta"]))
<1> DEFINE order == CA!OverlayOrder
           v == [i \in DOMAIN order |-> CA!Chars(x[order[i]])]
<1>1. DOMAIN order = 1 .. 4 /\ order[1] = "headline" /\ order[2] = "subheadline" /\ order[3] = "supporting_copy"
      /\ order[4] = "cta"
  BY DEF CA!OverlayOrder
<1>2. CA!OverlayChars(x) = CA!Chars(x.offer_copy) + CA!Sum(v)
  BY DEF CA!OverlayChars
<1> HIDE DEF order
<1>3. CA!Chars(x.offer_copy) \in Nat /\ \A f \in Overlay : CA!Chars(x[f]) \in Nat
  BY CharsAre
<1>4. \A i \in 1 .. 4 : order[i] \in Overlay
  <2>1. \A i \in 1 .. 4 : i \in {1, 2, 3, 4}
    OBVIOUS
  <2> QED BY <1>1, <2>1 DEF Overlay
<1>5. Numbers(v, 4)
  <2>1. v = [i \in 1 .. 4 |-> v[i]] /\ \A i \in 1 .. 4 : v[i] = CA!Chars(x[order[i]])
    BY <1>1
  <2> HIDE DEF v
  <2> QED BY <1>3, <1>4, <2>1 DEF Numbers
<1>6. /\ v[1] = CA!Chars(x["headline"]) /\ v[2] = CA!Chars(x["subheadline"])
      /\ v[3] = CA!Chars(x["supporting_copy"]) /\ v[4] = CA!Chars(x["cta"])
  BY <1>1
<1> HIDE DEF v
<1>7. CA!Sum(v) = v[1] + v[2] + v[3] + v[4]
  BY <1>5, SumOfFour
<1> QED BY <1>2, <1>3, <1>6, <1>7

\* The longest of four numbers, the first of them.
LEMMA FirstLongest ==
    ASSUME NEW v, \A i \in 1 .. 4 : v[i] \in Nat
    PROVE  \E i \in 1 .. 4 : \A j \in 1 .. 4 : v[i] > v[j] \/ (v[i] = v[j] /\ i <= j)
<1> DEFINE A == {v[i] : i \in 1 .. 4}
<1>1. PICK a : a = v[1] + v[2] + v[3] + v[4]
  OBVIOUS
<1>2. v[1] \in Nat /\ v[2] \in Nat /\ v[3] \in Nat /\ v[4] \in Nat
  OBVIOUS
<1>3. a \in Nat /\ v[1] <= a /\ v[2] <= a /\ v[3] <= a /\ v[4] <= a
  BY <1>1, <1>2
<1>4. \A i \in 1 .. 4 : i \in {1, 2, 3, 4}
  OBVIOUS
<1>5. A \subseteq 0 .. a /\ A # {}
  <2>1. \A i \in 1 .. 4 : v[i] \in 0 .. a
    BY <1>2, <1>3, <1>4
  <2>2. v[1] \in A
    OBVIOUS
  <2> QED BY <2>1, <2>2
<1>6. PICK top \in A : \A b \in A : top >= b
  <2> HIDE DEF A
  <2> QED BY <1>3, <1>5, GreatestNatural
<1> DEFINE I == {i \in 1 .. 4 : v[i] = top}
<1>7. PICK i \in I : \A j \in I : i <= j
  <2>1. I \subseteq Nat /\ I # {}
    BY <1>6
  <2> HIDE DEF I
  <2> QED BY <2>1, LeastNatural
<1>8. \A j \in 1 .. 4 : v[i] > v[j] \/ (v[i] = v[j] /\ i <= j)
  <2> TAKE j \in 1 .. 4
  <2>1. v[j] \in Nat /\ top \in Nat /\ top >= v[j] /\ v[i] = top
    BY <1>6, <1>7
  <2>2. CASE v[j] = top
    BY <1>7, <2>1, <2>2
  <2>3. CASE v[j] # top
    BY <2>1, <2>3
  <2> QED BY <2>2, <2>3
<1> QED BY <1>7, <1>8

LEMMA LongestIs ==
    ASSUME NEW x, \A f \in Overlay : x[f] \in Seq(CA!Words), NEW f, f = CA!LongestField(x)
    PROVE  f \in Overlay /\ \A g \in Overlay : CA!Chars(x[g]) <= CA!Chars(x[f])
<1> DEFINE order == CA!OverlayOrder
           at == CHOOSE i \in DOMAIN order : \A j \in DOMAIN order :
                    \/ CA!Chars(x[order[i]]) > CA!Chars(x[order[j]])
                    \/ CA!Chars(x[order[i]]) = CA!Chars(x[order[j]]) /\ i <= j
           v == [i \in 1 .. 4 |-> CA!Chars(x[order[i]])]
<1>1. DOMAIN order = 1 .. 4 /\ order[1] = "headline" /\ order[2] = "subheadline" /\ order[3] = "supporting_copy"
      /\ order[4] = "cta"
  BY DEF CA!OverlayOrder
<1>2. f = order[at]
  BY DEF CA!LongestField
<1> HIDE DEF order
<1>3. \A i \in 1 .. 4 : order[i] \in Overlay
  <2>1. \A i \in 1 .. 4 : i \in {1, 2, 3, 4}
    OBVIOUS
  <2> QED BY <1>1, <2>1 DEF Overlay
<1>4. \A i \in 1 .. 4 : v[i] = CA!Chars(x[order[i]]) /\ v[i] \in Nat
  BY <1>3, CharsAre
<1> HIDE DEF v
<1>5. PICK k \in 1 .. 4 : \A j \in 1 .. 4 : v[k] > v[j] \/ (v[k] = v[j] /\ k <= j)
  BY <1>4, FirstLongest
<1>6. /\ at \in 1 .. 4
      /\ \A j \in 1 .. 4 : \/ CA!Chars(x[order[at]]) > CA!Chars(x[order[j]])
                           \/ CA!Chars(x[order[at]]) = CA!Chars(x[order[j]]) /\ at <= j
  <2>1. /\ k \in DOMAIN order
        /\ \A j \in DOMAIN order : \/ CA!Chars(x[order[k]]) > CA!Chars(x[order[j]])
                                   \/ CA!Chars(x[order[k]]) = CA!Chars(x[order[j]]) /\ k <= j
    BY <1>1, <1>4, <1>5
  <2> QED BY <1>1, <2>1
<1> HIDE DEF at
<1>7. \A g \in Overlay : \E j \in 1 .. 4 : order[j] = g
  BY <1>1 DEF Overlay
<1>8. \A j \in 1 .. 4 : v[j] <= v[at]
  <2> TAKE j \in 1 .. 4
  <2>1. v[j] \in Nat /\ v[at] \in Nat /\ (v[at] > v[j] \/ v[at] = v[j])
    BY <1>4, <1>6
  <2> QED BY <2>1
<1>9. \A j \in 1 .. 4 : CA!Chars(x[order[j]]) <= CA!Chars(x[order[at]])
  BY <1>4, <1>6, <1>8
<1> QED BY <1>2, <1>3, <1>6, <1>7, <1>9

LEMMA MinimumIs == ASSUME NEW f PROVE CA!MinimumChars(f) \in {8, 20}
BY DEF CA!MinimumChars

\* One turn of the loop keeps what the repairs have made, and shortens the overlay.
LEMMA ShrunkIsKept ==
    ASSUME NEW x, NEW brief, CopyKept(x, brief), CA!MayShrink(x), NEW y, y = CA!ShrunkField(x)
    PROVE  /\ CopyKept(y, brief)
           /\ brief.offer \in Seq(CA!Words) /\ CA!Chars(brief.offer) <= CA!MaxOfferCopy =>
                 CA!OverlayChars(y) < CA!OverlayChars(x)
<1>1. PICK f : f = CA!LongestField(x)
  OBVIOUS
<1>2. Overlay \subseteq CA!TextFields /\ "caption" \notin Overlay /\ "offer_copy" \notin Overlay
      /\ "hashtags" \notin Overlay
  BY DEF Overlay, CA!TextFields
<1>3. \A g \in CA!TextFields : /\ x[g] \in Seq(CA!Words) /\ x[g] # <<>> /\ Speaks(x[g], brief)
                               /\ CA!Chars(x[g]) <= CA!MaxChars[g]
  BY DEF CopyKept, Field
<1>4. f \in Overlay /\ \A g \in Overlay : CA!Chars(x[g]) <= CA!Chars(x[f])
  BY <1>1, <1>2, <1>3, LongestIs
<1>5. PICK text : text = x[f]
  OBVIOUS
<1>6. PICK c \in Nat : c = CA!Chars(text)
  BY <1>2, <1>3, <1>4, <1>5, CharsAre
<1>7. text \in Seq(CA!Words) /\ text # <<>> /\ Speaks(text, brief) /\ CA!Chars(text) <= CA!MaxChars[f]
  BY <1>2, <1>3, <1>4, <1>5
<1>8. PICK least : least = CA!MinimumChars(f)
  OBVIOUS
<1>9. least \in {8, 20} /\ c > least
  BY <1>1, <1>5, <1>6, <1>8, MinimumIs DEF CA!MayShrink
<1>10. PICK m : m = IF c - 20 < least THEN least ELSE c - 20
  OBVIOUS
<1>11. m \in Nat \ {0} /\ m < c /\ (c >= 40 => m = c - 20)
  BY <1>6, <1>9, <1>10
<1>12. PICK cut : cut = CA!CutAt(text, m)
  OBVIOUS
<1>13. PICK t : t = IF f = "supporting_copy" THEN CA!EndedText(cut) ELSE cut
  OBVIOUS
<1>14. y = [x EXCEPT ![f] = t]
  BY <1>1, <1>5, <1>6, <1>8, <1>10, <1>12, <1>13 DEF CA!ShrunkField
<1>15. Shortens(cut, text) /\ CA!Chars(cut) <= m
  BY <1>7, <1>11, <1>12, CutShortens
<1>16. cut \in Seq(CA!Words) /\ cut # <<>> /\ Len(cut) <= Len(text) /\ Speaks(cut, brief)
  <2>1. Speaks(cut, brief)
    BY <1>7, <1>15 DEF Shortens, Speaks
  <2> QED BY <1>15, <2>1 DEF Shortens
<1>17. /\ t \in Seq(CA!Words) /\ t # <<>> /\ Len(t) <= Len(text) /\ Speaks(t, brief)
       /\ CA!Chars(t) <= m + 1 /\ (f = "supporting_copy" => CA!Ended(t))
  <2>1. CASE f = "supporting_copy"
    <3>1. t = CA!EndedText(cut)
      BY <1>13, <2>1
    <3>2. /\ t \in Seq(CA!Words) /\ t # <<>> /\ Len(t) = Len(cut) /\ CA!Ended(t)
          /\ CA!Chars(t) <= CA!Chars(cut) + 1
          /\ \A i \in DOMAIN t : /\ i \in DOMAIN cut /\ t[i].claim = cut[i].claim
                                 /\ t[i].stop \in {cut[i].stop, "."}
      BY <1>16, <3>1, EndedTextEnds
    <3>3. Speaks(t, brief)
      BY <1>16, <3>2 DEF Speaks
    <3>4. CA!Chars(t) <= m + 1
      <4>1. CA!Chars(t) \in Nat /\ CA!Chars(cut) \in Nat
        BY <1>16, <3>2, CharsAre
      <4> QED BY <1>11, <1>15, <3>2, <4>1
    <3> QED BY <1>16, <3>2, <3>3, <3>4
  <2>2. CASE f # "supporting_copy"
    <3>1. t = cut
      BY <1>13, <2>2
    <3>2. CA!Chars(t) <= m + 1
      <4>1. CA!Chars(cut) \in Nat
        BY <1>16, CharsAre
      <4> QED BY <1>11, <1>15, <3>1, <4>1
    <3> QED BY <1>16, <2>2, <3>1, <3>2
  <2> QED BY <2>1, <2>2
<1>18. CA!Chars(t) \in Nat /\ CA!Chars(t) <= c /\ (c >= 40 => CA!Chars(t) < c)
  <2>1. CA!Chars(t) \in Nat
    BY <1>17, CharsAre
  <2> QED BY <1>11, <1>17, <2>1
<1>19. CA!MaxChars[f] \in Nat
  BY <1>4 DEF Overlay, CA!MaxChars
<1>20. Field(t, brief, CA!MaxChars[f])
  <2>1. CA!Chars(t) <= CA!MaxChars[f]
    BY <1>6, <1>7, <1>18, <1>19
  <2> QED BY <1>17, <2>1 DEF Field
<1>21. DOMAIN x = CA!TextFields \cup {"offer_copy", "hashtags"}
  BY DEF CopyKept
<1>22. /\ DOMAIN y = DOMAIN x /\ y[f] = t /\ \A g \in DOMAIN x : g # f => y[g] = x[g]
  BY <1>2, <1>4, <1>14, <1>21
<1>23. /\ y.offer_copy = x.offer_copy /\ y.hashtags = x.hashtags /\ y.caption = x.caption
  BY <1>2, <1>4, <1>21, <1>22 DEF CA!TextFields
<1>24. CopyKept(y, brief)
  <2>1. \A g \in CA!TextFields : Field(y[g], brief, CA!MaxChars[g])
    <3> TAKE g \in CA!TextFields
    <3>1. CASE g = f
      BY <1>20, <1>22, <3>1
    <3>2. CASE g # f
      BY <1>21, <1>22, <3>2 DEF CopyKept
    <3> QED BY <3>1, <3>2
  <2>2. \A g \in {"headline", "cta", "supporting_copy"} :
           \A n \in Nat : Len(x[g]) <= n => Len(y[g]) <= n
    <3> TAKE g \in {"headline", "cta", "supporting_copy"}
    <3>1. CASE g = f
      <4>1. y[g] = t /\ x[g] = text
        BY <1>5, <1>22, <3>1
      <4>2. Len(t) \in Nat /\ Len(text) \in Nat /\ Len(t) <= Len(text)
        BY <1>7, <1>17
      <4> QED BY <4>1, <4>2
    <3>2. CASE g # f
      <4>1. y[g] = x[g]
        BY <1>21, <1>22, <3>2 DEF CA!TextFields
      <4> QED BY <4>1
    <3> QED BY <3>1, <3>2
  <2>3. Len(y.headline) <= 12 /\ Len(y.cta) <= 6 /\ Len(y.supporting_copy) <= 30
    <3>1. Len(x.headline) <= 12 /\ Len(x.cta) <= 6 /\ Len(x.supporting_copy) <= 30
      BY DEF CopyKept
    <3>2. 12 \in Nat /\ 6 \in Nat /\ 30 \in Nat
      OBVIOUS
    <3> QED BY <2>2, <3>1, <3>2
  <2>4. CA!Ended(y.supporting_copy)
    <3>1. CASE f = "supporting_copy"
      BY <1>17, <1>22, <3>1
    <3>2. CASE f # "supporting_copy"
      <4>1. y.supporting_copy = x.supporting_copy
        BY <1>21, <1>22, <3>2 DEF CA!TextFields
      <4> QED BY <4>1 DEF CopyKept
    <3> QED BY <3>1, <3>2
  <2>5. /\ CA!Ended(x.caption) /\ CA!Chars(x.caption) <= CA!CaptionLimit(brief.platform)
        /\ x.offer_copy = brief.offer /\ x.hashtags \in Seq(Seq(CA!Words)) /\ Len(x.hashtags) <= 15
        /\ Len(x.caption) <= 30
    BY DEF CopyKept
  <2> QED BY <1>21, <1>22, <1>23, <2>1, <2>3, <2>4, <2>5 DEF CopyKept
<1>25. ASSUME brief.offer \in Seq(CA!Words), CA!Chars(brief.offer) <= CA!MaxOfferCopy
       PROVE  CA!OverlayChars(y) < CA!OverlayChars(x)
  <2>1. x.offer_copy = brief.offer /\ y.offer_copy = brief.offer
    BY <1>23 DEF CopyKept
  <2>2. \A g \in Overlay : x[g] \in Seq(CA!Words) /\ y[g] \in Seq(CA!Words)
    <3> TAKE g \in Overlay
    <3>1. g \in CA!TextFields
      BY <1>2
    <3> QED BY <1>24, <3>1 DEF CopyKept, Field
  <2>3. PICK o \in Nat : o = CA!Chars(brief.offer) /\ o <= 160
    BY <1>25, CharsAre DEF CA!MaxOfferCopy
  <2>4. PICK a, b, p, d : /\ a = CA!Chars(x["headline"]) /\ b = CA!Chars(x["subheadline"])
                          /\ p = CA!Chars(x["supporting_copy"]) /\ d = CA!Chars(x["cta"])
    OBVIOUS
  <2>5. PICK a1, b1, p1, d1 : /\ a1 = CA!Chars(y["headline"]) /\ b1 = CA!Chars(y["subheadline"])
                              /\ p1 = CA!Chars(y["supporting_copy"]) /\ d1 = CA!Chars(y["cta"])
    OBVIOUS
  <2>6. /\ a \in Nat /\ b \in Nat /\ p \in Nat /\ d \in Nat
        /\ a1 \in Nat /\ b1 \in Nat /\ p1 \in Nat /\ d1 \in Nat
    BY <2>2, <2>4, <2>5, CharsAre DEF Overlay
  <2>7. CA!OverlayChars(x) = o + (a + b + p + d)
    BY <1>25, <2>1, <2>2, <2>3, <2>4, OverlayIs
  <2>8. CA!OverlayChars(y) = o + (a1 + b1 + p1 + d1)
    BY <1>25, <2>1, <2>2, <2>3, <2>5, OverlayIs
  <2>9. CA!OverlayChars(x) > 420
    BY DEF CA!MayShrink, CA!MaxOverlay
  <2>10. a <= c /\ b <= c /\ p <= c /\ d <= c
    BY <1>4, <1>5, <1>6, <2>4 DEF Overlay
  <2>11. c >= 40
    BY <1>6, <2>3, <2>6, <2>7, <2>9, <2>10
  <2>12. CA!Chars(t) < c
    BY <1>18, <2>11
  <2>13. \A g \in Overlay : g # f => y[g] = x[g]
    BY <1>2, <1>21, <1>22
  <2>14. \/ a1 < a /\ b1 = b /\ p1 = p /\ d1 = d
         \/ a1 = a /\ b1 < b /\ p1 = p /\ d1 = d
         \/ a1 = a /\ b1 = b /\ p1 < p /\ d1 = d
         \/ a1 = a /\ b1 = b /\ p1 = p /\ d1 < d
    <3>1. CA!Chars(y[f]) < CA!Chars(x[f])
      BY <1>5, <1>6, <1>22, <2>12
    <3>2. CASE f = "headline"
      BY <2>4, <2>5, <2>13, <3>1, <3>2 DEF Overlay
    <3>3. CASE f = "subheadline"
      BY <2>4, <2>5, <2>13, <3>1, <3>3 DEF Overlay
    <3>4. CASE f = "supporting_copy"
      BY <2>4, <2>5, <2>13, <3>1, <3>4 DEF Overlay
    <3>5. CASE f = "cta"
      BY <2>4, <2>5, <2>13, <3>1, <3>5 DEF Overlay
    <3> QED BY <1>4, <3>2, <3>3, <3>4, <3>5 DEF Overlay
  <2> QED BY <2>3, <2>6, <2>7, <2>8, <2>14
<1> QED BY <1>24, <1>25

----------------------------------------------------------------------------
(* What a refused copy is refused for. *)

\* Exclamation marks of a text, and of several.
LEMMA MarksAre ==
    ASSUME NEW text \in Seq(CA!Words)
    PROVE  /\ CA!ExclamationsIn(text) \in Nat
           /\ (\A i \in DOMAIN text : text[i].stop # "!") => CA!ExclamationsIn(text) = 0
<1> DEFINE v == [i \in DOMAIN text |-> IF text[i].stop = "!" THEN 1 ELSE 0]
<1>1. CA!ExclamationsIn(text) = CA!Sum(v)
  BY DEF CA!ExclamationsIn
<1>2. PICK n \in Nat : n = Len(text) /\ DOMAIN text = 1 .. n
  OBVIOUS
<1>3. v = [i \in 1 .. n |-> v[i]] /\ \A i \in 1 .. n : v[i] \in Nat /\ (text[i].stop # "!" => v[i] = 0)
  BY <1>2
<1> HIDE DEF v
<1>4. Numbers(v, n)
  BY <1>3 DEF Numbers
<1> QED BY <1>1, <1>2, <1>3, <1>4, SumIsNatural

Marks(texts) == [i \in DOMAIN texts |-> CA!ExclamationsIn(texts[i])]

LEMMA MarksListed ==
    ASSUME NEW texts \in Seq(Seq(CA!Words))
    PROVE  Numbers(Marks(texts), Len(texts)) /\ CA!Exclamations(texts) = CA!Sum(Marks(texts))
<1>1. PICK n \in Nat : n = Len(texts) /\ DOMAIN texts = 1 .. n
  OBVIOUS
<1>2. Marks(texts) = [i \in 1 .. n |-> Marks(texts)[i]] /\ \A i \in 1 .. n : Marks(texts)[i] \in Nat
  <2>1. \A i \in 1 .. n : texts[i] \in Seq(CA!Words)
    BY <1>1
  <2>2. \A i \in 1 .. n : CA!ExclamationsIn(texts[i]) \in Nat
    BY <2>1, MarksAre
  <2> QED BY <1>1, <2>2 DEF Marks
<1>3. CA!Exclamations(texts) = CA!Sum(Marks(texts))
  BY DEF CA!Exclamations, Marks
<1> QED BY <1>1, <1>2, <1>3 DEF Numbers

LEMMA MarksOfConcat ==
    ASSUME NEW a \in Seq(Seq(CA!Words)), NEW b \in Seq(Seq(CA!Words))
    PROVE  /\ CA!Exclamations(a \o b) = CA!Exclamations(a) + CA!Exclamations(b)
           /\ CA!Exclamations(a) \in Nat /\ CA!Exclamations(b) \in Nat
<1>1. PICK T : T = Seq(CA!Words)
  OBVIOUS
<1>2. a \in Seq(T) /\ b \in Seq(T)
  BY <1>1
<1>3. PICK c : c = a \o b
  OBVIOUS
<1>4. PICK n \in Nat, m \in Nat : n = Len(a) /\ m = Len(b) /\ DOMAIN a = 1 .. n /\ DOMAIN b = 1 .. m
  BY <1>2
<1>5. /\ c \in Seq(T) /\ Len(c) = n + m
      /\ \A i \in 1 .. n + m : c[i] = IF i <= n THEN a[i] ELSE b[i - n]
  BY <1>2, <1>3, <1>4, ConcatProperties
<1>6. DOMAIN c = 1 .. n + m
  BY <1>5
<1>7. /\ Numbers(Marks(a), n) /\ Numbers(Marks(b), m) /\ Numbers(Marks(c), n + m)
      /\ CA!Exclamations(a) = CA!Sum(Marks(a)) /\ CA!Exclamations(b) = CA!Sum(Marks(b))
      /\ CA!Exclamations(c) = CA!Sum(Marks(c))
  BY <1>1, <1>2, <1>4, <1>5, MarksListed
<1>8. PICK u, v, w : u = Marks(a) /\ v = Marks(b) /\ w = Marks(c)
  OBVIOUS
<1>9. /\ u \in Seq(Nat) /\ Len(u) = n /\ v \in Seq(Nat) /\ Len(v) = m /\ w \in Seq(Nat) /\ Len(w) = n + m
  BY <1>7, <1>8, NumbersList
<1>10. \A i \in 1 .. n + m : w[i] = IF i <= n THEN u[i] ELSE v[i - n]
  <2> TAKE i \in 1 .. n + m
  <2>1. w[i] = CA!ExclamationsIn(c[i])
    BY <1>6, <1>8 DEF Marks
  <2>2. CASE i <= n
    <3>1. i \in 1 .. n /\ c[i] = a[i]
      BY <1>5, <2>2
    <3> QED BY <1>4, <1>8, <2>1, <2>2, <3>1 DEF Marks
  <2>3. CASE ~ (i <= n)
    <3>1. i - n \in 1 .. m /\ c[i] = b[i - n]
      BY <1>5, <2>3
    <3>2. v[i - n] = CA!ExclamationsIn(b[i - n])
      BY <1>4, <1>8, <3>1 DEF Marks
    <3> QED BY <2>1, <2>3, <3>1, <3>2
  <2> QED BY <2>2, <2>3
<1>11. w = u \o v
  <2>1. PICK z : z = u \o v
    OBVIOUS
  <2>2. /\ z \in Seq(Nat) /\ Len(z) = n + m
        /\ \A i \in 1 .. n + m : z[i] = IF i <= n THEN u[i] ELSE v[i - n]
    BY <1>9, <2>1, ConcatProperties
  <2>3. \A i \in 1 .. Len(w) : w[i] = z[i]
    BY <1>9, <1>10, <2>2
  <2>4. w = z
    BY <1>9, <2>2, <2>3, SeqEqual
  <2> QED BY <2>1, <2>4
<1>12. CA!Sum(u \o v) = CA!Sum(u) + CA!Sum(v)
  BY <1>7, <1>8, SumOfConcat
<1>13. CA!Sum(u) \in Nat /\ CA!Sum(v) \in Nat
  BY <1>7, <1>8, SumIsNatural
<1> QED BY <1>3, <1>7, <1>8, <1>11, <1>12, <1>13

\* Only the fourth of six texts is marked.
LEMMA MarksOfSix ==
    ASSUME NEW six \in Seq(Seq(CA!Words)), Len(six) = 6,
           \A i \in {1, 2, 3, 5, 6} : CA!ExclamationsIn(six[i]) = 0
    PROVE  CA!Exclamations(six) = CA!ExclamationsIn(six[4])
<1>1. DOMAIN six = 1 .. 6
  <2>1. PICK T : T = Seq(CA!Words)
    OBVIOUS
  <2>2. six \in Seq(T)
    BY <2>1
  <2> QED BY <2>2
<1>2. PICK v : v = Marks(six)
  OBVIOUS
<1>3. \A i \in 1 .. 6 : v[i] = CA!ExclamationsIn(six[i])
  BY <1>1, <1>2 DEF Marks
<1>4. Numbers(v, 6) /\ CA!Exclamations(six) = CA!Sum(v)
  BY <1>2, MarksListed
<1>5. PICK sum : sum = CA!SumUpTo(v)
  OBVIOUS
<1>6. sum[0] = 0 /\ CA!Sum(v) = sum[6] /\ \A k \in 1 .. 6 : sum[k] = sum[k - 1] + v[k]
  BY <1>4, <1>5, SumSteps
<1>7. /\ sum[1] = sum[0] + v[1] /\ sum[2] = sum[1] + v[2] /\ sum[3] = sum[2] + v[3] /\ sum[4] = sum[3] + v[4]
      /\ sum[5] = sum[4] + v[5] /\ sum[6] = sum[5] + v[6]
  <2>1. /\ 1 \in 1 .. 6 /\ 2 \in 1 .. 6 /\ 3 \in 1 .. 6 /\ 4 \in 1 .. 6 /\ 5 \in 1 .. 6 /\ 6 \in 1 .. 6
        /\ 1 - 1 = 0 /\ 2 - 1 = 1 /\ 3 - 1 = 2 /\ 4 - 1 = 3 /\ 5 - 1 = 4 /\ 6 - 1 = 5
    OBVIOUS
  <2> QED BY <1>6, <2>1
<1>8. v[1] = 0 /\ v[2] = 0 /\ v[3] = 0 /\ v[5] = 0 /\ v[6] = 0 /\ v[4] = CA!ExclamationsIn(six[4])
  BY <1>3
<1>9. v[4] \in Nat
  BY <1>4 DEF Numbers
<1> QED BY <1>4, <1>6, <1>7, <1>8, <1>9

LEMMA MarksOfOne ==
    ASSUME NEW text \in Seq(CA!Words), NEW one, one = <<text>>
    PROVE  one \in Seq(Seq(CA!Words)) /\ CA!Exclamations(one) = CA!ExclamationsIn(text)
<1>1. one \in Seq(Seq(CA!Words)) /\ Len(one) = 1 /\ DOMAIN one = 1 .. 1 /\ one[1] = text
  <2>1. PICK T : T = Seq(CA!Words)
    OBVIOUS
  <2>2. one \in Seq(T) /\ Len(one) = 1 /\ DOMAIN one = 1 .. 1 /\ one[1] = text
    BY <2>1
  <2> QED BY <2>1, <2>2
<1>2. PICK v : v = Marks(one)
  OBVIOUS
<1>3. v[1] = CA!ExclamationsIn(text)
  BY <1>1, <1>2 DEF Marks
<1>4. Numbers(v, 1) /\ CA!Exclamations(one) = CA!Sum(v)
  BY <1>1, <1>2, MarksListed
<1>5. PICK sum : sum = CA!SumUpTo(v)
  OBVIOUS
<1>6. 1 \in 1 .. 1 /\ 1 - 1 = 0
  OBVIOUS
<1>7. sum[0] = 0 /\ CA!Sum(v) = sum[1] /\ sum[1] = sum[1 - 1] + v[1]
  BY <1>4, <1>5, <1>6, SumSteps
<1>8. v[1] \in Nat
  BY <1>4, <1>6 DEF Numbers
<1> QED BY <1>1, <1>3, <1>4, <1>6, <1>7, <1>8

LEMMA KeptFields ==
    ASSUME NEW x, NEW brief, CopyKept(x, brief)
    PROVE  \A f \in CA!TextFields : /\ x[f] \in Seq(CA!Words) /\ x[f] # <<>> /\ Speaks(x[f], brief)
                                    /\ CA!Chars(x[f]) <= CA!MaxChars[f]
                                    /\ CA!Chars(x[f]) \in Nat /\ CA!Chars(x[f]) >= 1
                                    /\ CA!ExclamationsIn(x[f]) = 0
<1> TAKE f \in CA!TextFields
<1>1. x[f] \in Seq(CA!Words) /\ x[f] # <<>> /\ Speaks(x[f], brief) /\ CA!Chars(x[f]) <= CA!MaxChars[f]
  BY DEF CopyKept, Field
<1>2. CA!Chars(x[f]) \in Nat /\ CA!Chars(x[f]) >= 1
  BY <1>1, CharsAre
<1>3. \A i \in DOMAIN x[f] : x[f][i].stop # "!"
  BY <1>1 DEF Speaks
<1>4. CA!ExclamationsIn(x[f]) = 0
  BY <1>1, <1>3, MarksAre
<1> QED BY <1>1, <1>2, <1>4

\* All texts of a copy, and their exclamation marks.
LEMMA StringsAre ==
    ASSUME NEW x, NEW brief, CopyKept(x, brief), brief.offer \in Seq(CA!Words)
    PROVE  /\ \A t \in CA!AllCopy(x) : \/ \E f \in CA!TextFields : t = x[f]
                                       \/ t = brief.offer \/ t \in CA!Range(x.hashtags)
           /\ CA!Exclamations(CA!CopyStrings(x)) = CA!Exclamations(<<brief.offer>> \o x.hashtags)
<1> DEFINE T == Seq(CA!Words)
           six == <<x.headline, x.subheadline, x.supporting_copy, x.offer_copy, x.cta, x.caption>>
<1>1. /\ x.headline \in T /\ x.subheadline \in T /\ x.supporting_copy \in T /\ x.cta \in T /\ x.caption \in T
      /\ CA!ExclamationsIn(x.headline) = 0 /\ CA!ExclamationsIn(x.subheadline) = 0
      /\ CA!ExclamationsIn(x.supporting_copy) = 0 /\ CA!ExclamationsIn(x.cta) = 0
      /\ CA!ExclamationsIn(x.caption) = 0
  BY KeptFields DEF CA!TextFields
<1>2. x.offer_copy = brief.offer /\ x.hashtags \in Seq(T) /\ x.offer_copy \in T
  BY DEF CopyKept
<1>3. CA!CopyStrings(x) = six \o x.hashtags
  BY DEF CA!CopyStrings
<1> HIDE DEF T
<1>4. /\ six \in Seq(T) /\ Len(six) = 6 /\ six[1] = x.headline /\ six[2] = x.subheadline
      /\ six[3] = x.supporting_copy /\ six[4] = x.offer_copy /\ six[5] = x.cta /\ six[6] = x.caption
  BY <1>1, <1>2
<1> HIDE DEF six
<1>5. PICK strings : strings = six \o x.hashtags
  OBVIOUS
<1>6. PICK m \in Nat : m = Len(x.hashtags) /\ DOMAIN x.hashtags = 1 .. m
  BY <1>2
<1>7. /\ strings \in Seq(T) /\ Len(strings) = 6 + m
      /\ \A i \in 1 .. 6 + m : strings[i] = IF i <= 6 THEN six[i] ELSE x.hashtags[i - 6]
  <2>1. PICK tags : tags = x.hashtags
    OBVIOUS
  <2>2. tags \in Seq(T) /\ Len(tags) = m /\ strings = six \o tags
    BY <1>2, <1>5, <1>6, <2>1
  <2>3. PICK n \in Nat : n = Len(six) /\ n = 6
    BY <1>4
  <2>4. /\ strings \in Seq(T) /\ Len(strings) = n + m
        /\ \A i \in 1 .. n + m : strings[i] = IF i <= n THEN six[i] ELSE tags[i - n]
    <3>1. six \in Seq(T) /\ tags \in Seq(T)
      BY <1>4, <2>2
    <3>2. /\ strings \in Seq(T) /\ Len(strings) = Len(six) + Len(tags)
          /\ \A i \in 1 .. Len(six) + Len(tags) : strings[i] = IF i <= Len(six) THEN six[i] ELSE tags[i - Len(six)]
      BY <3>1, <2>2, ConcatProperties
    <3> QED BY <2>2, <2>3, <3>2
  <2> QED BY <2>1, <2>3, <2>4
<1>8. \A t \in CA!AllCopy(x) : \/ \E f \in CA!TextFields : t = x[f]
                               \/ t = brief.offer \/ t \in CA!Range(x.hashtags)
  <2> TAKE t \in CA!AllCopy(x)
  <2>1. DOMAIN strings = 1 .. 6 + m
    BY <1>7
  <2>2. PICK i \in 1 .. 6 + m : t = strings[i]
    BY <1>3, <1>5, <2>1 DEF CA!AllCopy, CA!Range
  <2>3. CASE i <= 6
    <3>1. i \in {1, 2, 3, 4, 5, 6} /\ t = six[i]
      BY <1>7, <2>2, <2>3
    <3> QED BY <1>2, <1>4, <3>1 DEF CA!TextFields
  <2>4. CASE ~ (i <= 6)
    <3>1. i - 6 \in 1 .. m /\ t = x.hashtags[i - 6]
      BY <1>7, <2>2, <2>4
    <3> QED BY <1>6, <3>1 DEF CA!Range
  <2> QED BY <2>3, <2>4
<1>9. PICK one : one = <<brief.offer>>
  OBVIOUS
<1>10. one \in Seq(T) /\ CA!Exclamations(one) = CA!ExclamationsIn(brief.offer)
  <2>1. brief.offer \in Seq(CA!Words)
    OBVIOUS
  <2> QED BY <1>9, <2>1, MarksOfOne DEF T
<1>11. CA!Exclamations(six) = CA!ExclamationsIn(brief.offer)
  <2>1. \A i \in {1, 2, 3, 5, 6} : CA!ExclamationsIn(six[i]) = 0
    BY <1>1, <1>4
  <2>2. six \in Seq(Seq(CA!Words))
    BY <1>4 DEF T
  <2> QED BY <1>2, <1>4, <2>1, <2>2, MarksOfSix
<1>12. /\ CA!Exclamations(six \o x.hashtags) = CA!Exclamations(six) + CA!Exclamations(x.hashtags)
       /\ CA!Exclamations(one \o x.hashtags) = CA!Exclamations(one) + CA!Exclamations(x.hashtags)
  BY <1>2, <1>4, <1>10, MarksOfConcat DEF T
<1> QED BY <1>3, <1>8, <1>9, <1>10, <1>11, <1>12

\* Why normalised copy may still be refused.
Blamed(x, brief) ==
    \/ CA!Chars(brief.offer) > CA!MaxOfferCopy \/ CA!LongSentence(brief.offer)
    \/ CA!Claims(brief.offer) \cap brief.forbidden # {}
    \/ \E tag \in CA!Range(x.hashtags) :
          Len(tag) # 1 \/ CA!Chars(tag) > 50 \/ ~ CA!Claims(tag) \subseteq brief.source \ brief.forbidden
    \/ CA!Exclamations(<<brief.offer>> \o x.hashtags) > 1
    \/ \E text \in {brief.offer} \cup CA!Range(x.hashtags) \cup {x[f] : f \in CA!TextFields} :
          CA!Dangles(text) \/ CA!Loud(text)
    \/ CA!LongSentence(x.subheadline)

LEMMA ShortIsNoSentence == ASSUME NEW text \in Seq(CA!Words), Len(text) <= 30 PROVE ~ CA!LongSentence(text)
<1>1. \A i \in DOMAIN text : i + 30 \notin DOMAIN text
  OBVIOUS
<1> QED BY <1>1 DEF CA!LongSentence

LEMMA RefusedIsBlamed ==
    ASSUME NEW x, NEW brief, CopyKept(x, brief), brief.offer \in Seq(CA!Words),
           CA!Claims(brief.offer) \cup brief.approved \subseteq brief.source,
           ~ CA!MayShrink(x), CA!CopyErrors(x, brief)
    PROVE  Blamed(x, brief)
<1> SUFFICES ASSUME ~ Blamed(x, brief) PROVE FALSE
  OBVIOUS
<1>1. /\ x.offer_copy = brief.offer /\ Len(x.hashtags) <= 15 /\ CA!Ended(x.supporting_copy) /\ CA!Ended(x.caption)
      /\ CA!Chars(x.caption) <= CA!CaptionLimit(brief.platform)
      /\ Len(x.headline) <= 12 /\ Len(x.cta) <= 6 /\ Len(x.supporting_copy) <= 30 /\ Len(x.caption) <= 30
      /\ x.hashtags \in Seq(Seq(CA!Words))
  BY DEF CopyKept
<1>2. \A t \in CA!AllCopy(x) : \/ \E f \in CA!TextFields : t = x[f]
                               \/ t = brief.offer \/ t \in CA!Range(x.hashtags)
  BY StringsAre
<1>3. CA!Chars(brief.offer) \in Nat /\ CA!Chars(brief.offer) <= 160
  <2>1. ~ (CA!Chars(brief.offer) > 160)
    BY DEF Blamed, CA!MaxOfferCopy
  <2>2. CA!Chars(brief.offer) \in Nat
    BY CharsAre
  <2> QED BY <2>1, <2>2
<1>4. \A tag \in CA!Range(x.hashtags) : /\ Len(tag) = 1 /\ tag \in Seq(CA!Words) /\ CA!Chars(tag) <= 50
                                        /\ CA!Claims(tag) \subseteq brief.source \ brief.forbidden
  <2> TAKE tag \in CA!Range(x.hashtags)
  <2>1. tag \in Seq(CA!Words)
    <3>1. PICK T : T = Seq(CA!Words)
      OBVIOUS
    <3>2. x.hashtags \in Seq(T)
      BY <1>1, <3>1
    <3>3. \A i \in DOMAIN x.hashtags : x.hashtags[i] \in T
      BY <3>2
    <3> QED BY <3>1, <3>3 DEF CA!Range
  <2>2. Len(tag) = 1 /\ ~ (CA!Chars(tag) > 50) /\ CA!Claims(tag) \subseteq brief.source \ brief.forbidden
    BY DEF Blamed
  <2>3. CA!Chars(tag) \in Nat
    BY <2>1, CharsAre
  <2> QED BY <2>1, <2>2, <2>3
<1>5. CA!CopyWellFormed(x)
  <2>1. \A f \in CA!TextFields : CA!Chars(x[f]) \in 1 .. CA!MaxChars[f]
    <3> TAKE f \in CA!TextFields
    <3>1. CA!MaxChars[f] \in Nat
      BY DEF CA!MaxChars, CA!TextFields
    <3>2. CA!Chars(x[f]) <= CA!MaxChars[f] /\ CA!Chars(x[f]) \in Nat /\ CA!Chars(x[f]) >= 1
      BY KeptFields
    <3> QED BY <3>1, <3>2
  <2>2. CA!Chars(x.offer_copy) <= CA!MaxOfferCopy
    BY <1>1, <1>3 DEF CA!MaxOfferCopy
  <2> QED BY <1>1, <1>4, <2>1, <2>2 DEF CA!CopyWellFormed
<1>6. \A t \in CA!AllCopy(x) : ~ CA!LongSentence(t)
  <2>1. \A f \in CA!TextFields : ~ CA!LongSentence(x[f])
    <3>1. ~ CA!LongSentence(x["subheadline"])
      BY DEF Blamed
    <3>2. \A f \in {"headline", "supporting_copy", "cta", "caption"} : x[f] \in Seq(CA!Words) /\ Len(x[f]) <= 30
      <4> TAKE f \in {"headline", "supporting_copy", "cta", "caption"}
      <4>1. x[f] \in Seq(CA!Words)
        BY KeptFields DEF CA!TextFields
      <4>2. Len(x[f]) \in Nat /\ (Len(x[f]) <= 12 \/ Len(x[f]) <= 6 \/ Len(x[f]) <= 30)
        BY <1>1, <4>1
      <4> QED BY <4>1, <4>2
    <3> QED BY <3>1, <3>2, ShortIsNoSentence DEF CA!TextFields
  <2>2. ~ CA!LongSentence(brief.offer)
    BY DEF Blamed
  <2>3. \A tag \in CA!Range(x.hashtags) : ~ CA!LongSentence(tag)
    <3>1. \A tag \in CA!Range(x.hashtags) : Len(tag) <= 30
      <4> TAKE tag \in CA!Range(x.hashtags)
      <4>1. Len(tag) = 1
        BY <1>4
      <4> QED BY <4>1
    <3> QED BY <1>4, <3>1, ShortIsNoSentence
  <2> QED BY <1>2, <2>1, <2>2, <2>3
<1>7. ~ (CA!Exclamations(CA!CopyStrings(x)) > 1)
  BY StringsAre DEF Blamed
<1>8. \A t \in CA!AllCopy(x) : ~ CA!Loud(t) /\ ~ CA!Dangles(t)
  <2>1. \A t \in CA!AllCopy(x) : t \in {brief.offer} \cup CA!Range(x.hashtags) \cup {x[f] : f \in CA!TextFields}
    BY <1>2
  <2> QED BY <2>1 DEF Blamed
<1>9. ~ (CA!OverlayChars(x) > CA!MaxOverlay)
  <2> SUFFICES ASSUME CA!OverlayChars(x) > CA!MaxOverlay PROVE FALSE
    OBVIOUS
  <2>1. PICK f : f = CA!LongestField(x)
    OBVIOUS
  <2>2. \A g \in Overlay : x[g] \in Seq(CA!Words) /\ CA!Chars(x[g]) \in Nat
    <3>1. Overlay \subseteq CA!TextFields
      BY DEF Overlay, CA!TextFields
    <3> QED BY <3>1, KeptFields
  <2>3. f \in Overlay /\ \A g \in Overlay : CA!Chars(x[g]) <= CA!Chars(x[f])
    BY <2>1, <2>2, LongestIs
  <2>4. CA!Chars(x[f]) <= 20
    <3>1. ~ (CA!Chars(x[f]) > CA!MinimumChars(f))
      BY <2>1 DEF CA!MayShrink
    <3>2. CA!MinimumChars(f) \in {8, 20} /\ CA!Chars(x[f]) \in Nat
      BY <2>2, <2>3, MinimumIs
    <3> QED BY <3>1, <3>2
  <2>5. /\ CA!Chars(x["headline"]) <= 20 /\ CA!Chars(x["subheadline"]) <= 20
        /\ CA!Chars(x["supporting_copy"]) <= 20 /\ CA!Chars(x["cta"]) <= 20
        /\ CA!Chars(x["headline"]) \in Nat /\ CA!Chars(x["subheadline"]) \in Nat
        /\ CA!Chars(x["supporting_copy"]) \in Nat /\ CA!Chars(x["cta"]) \in Nat
    <3>1. \A g \in Overlay : CA!Chars(x[g]) <= 20 /\ CA!Chars(x[g]) \in Nat
      <4> TAKE g \in Overlay
      <4>1. CA!Chars(x[g]) \in Nat /\ CA!Chars(x[f]) \in Nat /\ CA!Chars(x[g]) <= CA!Chars(x[f])
        BY <2>2, <2>3
      <4> QED BY <2>4, <4>1
    <3> QED BY <3>1 DEF Overlay
  <2>6. CA!OverlayChars(x) = CA!Chars(brief.offer) + (CA!Chars(x["headline"]) + CA!Chars(x["subheadline"])
                               + CA!Chars(x["supporting_copy"]) + CA!Chars(x["cta"]))
    BY <1>1, <2>2, OverlayIs
  <2> QED BY <1>3, <2>5, <2>6 DEF CA!MaxOverlay
<1>10. ~ (CA!Chars(x.caption) > CA!CaptionLimit(brief.platform))
  <2>1. CA!Chars(x.caption) \in Nat
    BY KeptFields DEF CA!TextFields
  <2>2. CA!CaptionLimit(brief.platform) \in Nat
    BY DEF CA!CaptionLimit
  <2> QED BY <1>1, <2>1, <2>2
<1>11. CA!Preserves(x.offer_copy, brief.offer)
  <2>1. PICK n \in Nat : n = Len(brief.offer)
    OBVIOUS
  <2>2. SubSeq(brief.offer, 0 + 1, 0 + n) = brief.offer
    BY <2>1
  <2>3. 0 \in 0 .. n - n
    BY <2>1
  <2> QED BY <1>1, <2>1, <2>2, <2>3 DEF CA!Preserves
<1>12. \A t \in CA!AllCopy(x) : CA!Claims(t) \cap brief.forbidden = {} /\ CA!Claims(t) \subseteq brief.source
  <2>1. \A f \in CA!TextFields : CA!Claims(x[f]) \subseteq brief.approved \ brief.forbidden
    <3> TAKE f \in CA!TextFields
    <3>1. Speaks(x[f], brief)
      BY KeptFields
    <3> QED BY <3>1 DEF Speaks, CA!Claims, CA!Range
  <2>2. CA!Claims(brief.offer) \cap brief.forbidden = {}
    BY DEF Blamed
  <2>3. ASSUME NEW t \in CA!AllCopy(x)
        PROVE  CA!Claims(t) \cap brief.forbidden = {} /\ CA!Claims(t) \subseteq brief.source
    BY <1>2, <1>4, <2>1, <2>2
  <2> QED BY <2>3
<1>13. Len(x.headline) \in Nat /\ Len(x.cta) \in Nat
  BY KeptFields DEF CA!TextFields
<1>14. ~ (Len(x.headline) > 12) /\ ~ (Len(x.cta) > 6)
  BY <1>1, <1>13
<1>15. ~ CA!CopyErrors(x, brief)
  <2>1. /\ ~ (brief.offer = <<>> /\ x.offer_copy # <<>>)
        /\ ~ ((UNION {CA!Claims(t) : t \in CA!AllCopy(x)}) \cap brief.forbidden # {})
        /\ UNION {CA!Claims(t) : t \in CA!AllCopy(x)} \subseteq brief.source
    <3>1. ~ (brief.offer = <<>> /\ x.offer_copy # <<>>)
      BY <1>1
    <3>2. (UNION {CA!Claims(t) : t \in CA!AllCopy(x)}) \cap brief.forbidden = {}
      BY <1>12
    <3>3. UNION {CA!Claims(t) : t \in CA!AllCopy(x)} \subseteq brief.source
      <4>1. ASSUME NEW t \in CA!AllCopy(x) PROVE CA!Claims(t) \subseteq brief.source
        BY ONLY <1>12, t \in CA!AllCopy(x), Zenon
      <4> QED BY ONLY <4>1, Zenon
    <3> QED BY <3>1, <3>2, <3>3
  <2>2. CA!Ended(x.supporting_copy) /\ CA!Ended(x.caption)
    BY <1>1
  <2> QED BY <1>5, <1>6, <1>7, <1>8, <1>9, <1>10, <1>11, <1>14, <2>1, <2>2 DEF CA!CopyErrors
<1> QED BY <1>15

----------------------------------------------------------------------------

\* The agents that make the concept, the copy and the layout.
Makers == {"creative_director", "copywriter", "art_director", "design_spec"}

\* Every other step leads to another agent.
LEMMA MadeElsewhere ==
    ASSUME \/ Understand \/ AnalyzeBrand \/ HandToAudience \/ AnalyzeAudience \/ HandToStrategist
           \/ Strategize \/ HandToAssets \/ ClassifyAssets \/ NothingToClassify
           \/ ValidateReferences \/ PlanGeneration \/ HandToProduction \/ SkipScene
           \/ GenerateScene \/ HandToPurity \/ NothingToInspect \/ InspectScene \/ HandToRegeneration
           \/ HandToComposition \/ Compose \/ Verify \/ ReviewMarketing \/ ReviewDesign \/ ReviewVision
           \/ HandToReview \/ ScoreQuality
    PROVE  agent' \notin Makers
<1> USE DEF Makers, Asking, Return, Refuse, Remember, Start
<1>1. Understand \/ AnalyzeBrand \/ HandToAudience => agent' \notin Makers
  BY DEF Understand, AnalyzeBrand, HandToAudience
<1>2. AnalyzeAudience \/ HandToStrategist \/ Strategize => agent' \notin Makers
  BY DEF AnalyzeAudience, HandToStrategist, Strategize
<1>3. HandToAssets \/ ClassifyAssets \/ NothingToClassify => agent' \notin Makers
  BY DEF HandToAssets, ClassifyAssets, NothingToClassify
<1>4. ValidateReferences => agent' \notin Makers
  BY DEF ValidateReferences, Shown, ConcludeReferences, Conclude
<1>5. PlanGeneration \/ HandToProduction \/ SkipScene \/ GenerateScene => agent' \notin Makers
  BY DEF PlanGeneration, HandToProduction, SkipScene, GenerateScene, Shown
<1>6. HandToPurity \/ NothingToInspect \/ HandToRegeneration => agent' \notin Makers
  BY DEF HandToPurity, NothingToInspect, HandToRegeneration
<1>7. InspectScene => agent' \notin Makers
  BY DEF InspectScene, Shown, Unusable, Conclude
<1>8. HandToComposition \/ Compose => agent' \notin Makers
  BY DEF HandToComposition, Compose
<1>9. Verify => agent' \notin Makers
  BY DEF Verify, Shown, Unusable
<1>10. ReviewMarketing => agent' \notin Makers
  BY DEF ReviewMarketing, Shown, Unusable, Conclude
<1>11. ReviewDesign => agent' \notin Makers
  BY DEF ReviewDesign, Shown, Unusable, Conclude
<1>12. ReviewVision => agent' \notin Makers
  BY DEF ReviewVision, Shown, Unusable, Conclude
<1>13. HandToReview => agent' \notin Makers
  BY DEF HandToReview, NextReview
<1>14. ScoreQuality => agent' \notin Makers
  BY DEF ScoreQuality, Conclude
<1> QED BY <1>1, <1>2, <1>3, <1>4, <1>5, <1>6, <1>7, <1>8, <1>9, <1>10, <1>11, <1>12, <1>13, <1>14

----------------------------------------------------------------------------
(* The copy and the layout that follows it. *)

\* What the copywriter remembers of the first answer, and what its repairs have made of
\* it; the texts an art direction carries; why a copy or a layout was refused.
CopyInv ==
    /\ agent = "copywriter" =>
          /\ input \in Inputs["copywriter"]
          /\ status = "asking" /\ calls # 0 => Typed(kept)
          /\ status \in {"shrinking", "refused"} => CopyKept(kept, input)
          /\ status = "refused" => CA!CopyErrors(kept, input) /\ ~ CA!MayShrink(kept)
    /\ agent = "art_director" /\ status = "done" => FittingTexts(output.texts)
    /\ agent = "design_spec" =>
          /\ FittingTexts(input.art.texts)
          /\ status = "refused" => CA!SpecErrors(CA!DeterministicSpec(input.art, input.copy), input.copy)

LEMMA CopyInvInit == Init => CopyInv
BY DEF Init, Entry, CopyInv

LEMMA CopyElsewhere ==
    ASSUME agent' \notin {"copywriter", "art_director", "design_spec"} PROVE CopyInv'
BY DEF CopyInv

LEMMA WriteCopies == ASSUME CopyInv, Write PROVE CopyInv'
<1>1. agent = "copywriter" /\ status = "asking" /\ input \in Inputs["copywriter"] /\ calls' = calls + 1
  BY DEF Write, Asking, CopyInv
<1>0. PICK answer \in Answers["copywriter"] : \E fields :
         /\ fields = IF answer = Unparsed THEN <<>> ELSE answer.x
         /\ \/ Return(CA!FilledCopy(answer.x))
            \/ calls = 0 /\ Remember(fields)
            \/ /\ calls # 0 /\ kept' = CA!NormalizedCopy(fields, kept, input) /\ status' = "shrinking"
               /\ UNCHANGED <<agent, input, output>>
  BY <1>1 DEF Write
<1>2. PICK fields :
         /\ fields = IF answer = Unparsed THEN <<>> ELSE answer.x
         /\ \/ Return(CA!FilledCopy(answer.x))
            \/ calls = 0 /\ Remember(fields)
            \/ /\ calls # 0 /\ kept' = CA!NormalizedCopy(fields, kept, input) /\ status' = "shrinking"
               /\ UNCHANGED <<agent, input, output>>
  BY <1>0
<1>3. Typed(fields)
  <2>1. CASE answer = Unparsed
    <3>1. fields = <<>> /\ DOMAIN fields = {}
      BY <1>2, <2>1
    <3> QED BY <3>1 DEF Typed
  <2>2. CASE answer # Unparsed
    BY <1>2, <2>2, CopyInputs DEF Typed
  <2> QED BY <2>1, <2>2
<1>4. CASE Return(CA!FilledCopy(answer.x))
  BY <1>1, <1>4 DEF Return, CopyInv
<1>5. CASE calls = 0 /\ Remember(fields)
  BY <1>1, <1>3, <1>5 DEF Remember, CopyInv
<1>6. CASE /\ calls # 0 /\ kept' = CA!NormalizedCopy(fields, kept, input) /\ status' = "shrinking"
           /\ UNCHANGED <<agent, input, output>>
  <2>1. Typed(kept)
    BY <1>1, <1>6 DEF CopyInv
  <2>2. CopyKept(kept', input)
    BY <1>3, <1>6, <2>1, NormalizedIsKept
  <2> QED BY <1>1, <1>6, <2>2 DEF CopyInv
<1> QED BY <1>2, <1>4, <1>5, <1>6

LEMMA ShrinkCopies == ASSUME CopyInv, Shrink PROVE CopyInv'
<1>1. agent = "copywriter" /\ status = "shrinking" /\ input \in Inputs["copywriter"] /\ CopyKept(kept, input)
  BY DEF Shrink, CopyInv
<1>2. CASE CA!MayShrink(kept)
  <2>1. Remember(CA!ShrunkField(kept))
    BY <1>2 DEF Shrink
  <2>2. CopyKept(CA!ShrunkField(kept), input)
    BY <1>1, <1>2, ShrunkIsKept
  <2> QED BY <1>1, <2>1, <2>2 DEF Remember, CopyInv
<1>3. CASE ~ CA!MayShrink(kept)
  <2>1. (CA!CopyErrors(kept, input) /\ Refuse) \/ Return(kept)
    BY <1>3 DEF Shrink
  <2> QED BY <1>1, <1>3, <2>1 DEF Refuse, Return, CopyInv
<1> QED BY <1>2, <1>3

LEMMA DirectsArt == ASSUME CopyInv, ArtDirect PROVE CopyInv'
<1>1. agent = "art_director"
  BY DEF ArtDirect, Asking
<1>2. PICK answer \in Answers["art_director"] :
         Remember(answer) \/ Refuse \/ (answer # Unparsed /\ Return(answer.x))
  BY <1>1 DEF ArtDirect
<1>3. CASE Remember(answer) \/ Refuse
  BY <1>1, <1>3 DEF ArtDirect, Asking, Remember, Refuse, CopyInv
<1>4. CASE answer # Unparsed /\ Return(answer.x)
  <2>1. FittingTexts(answer.x.texts)
    BY <1>4, CopyInputs DEF FittingTexts
  <2> QED BY <1>1, <1>4, <2>1 DEF Return, CopyInv
<1> QED BY <1>2, <1>3, <1>4

LEMMA CompilesSpec == ASSUME CopyInv, CompileSpec PROVE CopyInv'
<1>1. agent = "design_spec" /\ status = "asking"
  BY DEF CompileSpec, Asking
<1>2. PICK answer, x : \/ Remember(answer) \/ Return(x)
                       \/ /\ CA!SpecErrors(CA!DeterministicSpec(input.art, input.copy), input.copy)
                          /\ Refuse
  BY DEF CompileSpec
<1> QED BY <1>1, <1>2 DEF Remember, Return, Refuse, CopyInv

LEMMA ArtHanded == ASSUME CopyInv, HandToArtDirector \/ HandToSpec PROVE CopyInv'
<1>1. CASE HandToArtDirector
  BY <1>1 DEF HandToArtDirector, Start, CopyInv
<1>2. CASE HandToSpec
  BY <1>2 DEF HandToSpec, Start, CopyInv
<1> QED BY <1>1, <1>2

LEMMA CopyInvNext == CopyInv /\ [Next]_vars => CopyInv'
<1> SUFFICES ASSUME CopyInv, [Next]_vars PROVE CopyInv'
  OBVIOUS
<1>1. CASE UNCHANGED vars
  BY <1>1 DEF vars, CopyInv
<1>2. CASE Direct \/ CorrectDirection
  <2>1. agent' = "creative_director"
    BY <1>2 DEF Direct, CorrectDirection, Judge, Asking, Return, Refuse, Remember
  <2> QED BY <2>1, CopyElsewhere
<1>3. CASE RejectInput \/ StorageUnavailable
  <2>1. agent' = agent /\ agent \notin {"copywriter", "art_director", "design_spec"}
    <3>1. ASSUME RejectInput PROVE agent \notin {"copywriter", "art_director", "design_spec"}
      BY <3>1 DEF RejectInput, Unfit, Witnesses, RV!ReadBy
    <3>2. ASSUME StorageUnavailable PROVE agent \notin {"copywriter", "art_director", "design_spec"}
      BY <3>2 DEF StorageUnavailable
    <3> QED BY <1>3, <3>1, <3>2 DEF RejectInput, StorageUnavailable, Refuse
  <2> QED BY <2>1, CopyElsewhere
<1>4. CASE ProviderFails
  <2>1. status' = "provider_failed" /\ UNCHANGED <<agent, input>>
    BY <1>4 DEF ProviderFails
  <2> QED BY <2>1 DEF CopyInv
<1>5. CASE Next /\ agent' \notin Makers
  BY <1>5, CopyElsewhere DEF Makers
<1> QED BY <1>1, <1>2, <1>3, <1>4, <1>5, MadeElsewhere, WriteCopies, ShrinkCopies, DirectsArt, CompilesSpec,
         ArtHanded DEF Next

\* However the model answers, copy and layout come to an end: no agent makes more calls
\* than its corrections allow; a copy is refused only for the client's offer, the hashtags
\* or a text that a cut has spoilt; each turn of the loop over the overlay shortens it; and
\* the deterministic layout is never refused (copywriter._normalize_copy_output,
\* design_spec_compiler._deterministic_spec).
THEOREM ProductionEnds == Spec => []ProductionGoesOn
<1>1. Init => CallsInv /\ CopyInv
  BY CallsInvInit, CopyInvInit
<1>2. (CallsInv /\ CopyInv) /\ [Next]_vars => (CallsInv /\ CopyInv)'
  BY CallsInvNext, CopyInvNext
<1>3. CallsInv /\ CopyInv => ProductionGoesOn
  <2> SUFFICES ASSUME CallsInv, CopyInv PROVE ProductionGoesOn
    OBVIOUS
  <2>1. TypeOK
    BY DEF CallsInv
  <2>2. CopyIsRepaired
    <3> SUFFICES ASSUME agent = "copywriter", status = "refused" PROVE CopyIsRepaired
      BY DEF CopyIsRepaired
    <3>1. /\ input \in Inputs["copywriter"] /\ CopyKept(kept, input)
          /\ CA!CopyErrors(kept, input) /\ ~ CA!MayShrink(kept)
      BY DEF CopyInv
    <3>2. Blamed(kept, input)
      BY <3>1, CopyInputs, RefusedIsBlamed
    <3> QED BY <3>2 DEF Blamed, CopyIsRepaired
  <2>3. ShrinkingEnds
    <3> SUFFICES ASSUME status = "shrinking", CA!MayShrink(kept), CA!Chars(input.offer) <= CA!MaxOfferCopy
                 PROVE  CA!OverlayChars(CA!ShrunkField(kept)) < CA!OverlayChars(kept)
      BY DEF ShrinkingEnds
    <3>1. agent = "copywriter"
      BY DEF CallsInv
    <3>2. input \in Inputs["copywriter"] /\ CopyKept(kept, input)
      BY <3>1 DEF CopyInv
    <3> QED BY <3>2, CopyInputs, ShrunkIsKept
  <2>4. SpecAlwaysCompiles
    BY FallbackIsSound DEF CopyInv, SpecAlwaysCompiles
  <2> QED BY <2>1, <2>2, <2>3, <2>4 DEF ProductionGoesOn
<1> QED BY <1>1, <1>2, <1>3, PTL DEF Spec

----------------------------------------------------------------------------
(* The validation of references guards originality. *)

\* The instruction that was filed is about the findings it was made from.
LEMMA FiledAbout ==
    ASSUME NEW history, history \in Seq(RV!Range(history)), NEW instruction, "findings" \in DOMAIN instruction,
           NEW filed, filed = RV!Filed(history, instruction)
    PROVE  filed[Len(filed)].findings = instruction.findings
<1>1. CASE filed = Append(history, instruction)
  <2>1. PICK S : S = RV!Range(history) \cup {instruction}
    OBVIOUS
  <2>2. history \in Seq(S) /\ instruction \in S
    BY <2>1
  <2>3. Append(history, instruction)[Len(Append(history, instruction))] = instruction
    BY <2>2
  <2> QED BY <1>1, <2>3
<1>2. CASE /\ [history[Len(history)] EXCEPT !.iteration = instruction.iteration] = instruction
           /\ filed = history
  <2>1. PICK last : last = history[Len(history)]
    OBVIOUS
  <2>2. PICK i : i = instruction.iteration
    OBVIOUS
  <2>3. [last EXCEPT !.iteration = i] = instruction
    BY <1>2, <2>1, <2>2
  <2>4. DOMAIN last = DOMAIN instruction
    BY <2>3
  <2>5. last.findings = instruction.findings
    BY <2>3, <2>4
  <2> QED BY <1>2, <2>1, <2>5
<1> QED BY <1>1, <1>2 DEF RV!Filed

LEMMA ChosenAlikeOriginality ==
    ASSUME NEW s, NEW wanted PROVE OR!Chosen(s, wanted) = RV!Chosen(s, wanted)
<1>1. OR!ChosenUpTo(s, wanted) = RV!ChosenUpTo(s, wanted)
  BY DEF OR!ChosenUpTo, RV!ChosenUpTo
<1> QED BY <1>1 DEF OR!Chosen, RV!Chosen

\* What copies, repeats or is a commodity fails its originality, which is the concept's.
LEMMA GuardFinds ==
    ASSUME NEW p, NEW x, OR!Signals(p) > 0 \/ OR!Copied(x), NEW report, report = OR!ReferenceReport(p, x)
    PROVE  /\ report.findings # <<>> /\ report.decision = "REVISE"
           /\ \E f \in RV!Range(report.findings) : f.route = "concept"
<1>1. "originality" \in OR!FailedDimensions(p, x)
  BY DEF OR!FailedDimensions, OR!CopyGates, OR!GenericGates
<1>2. PICK dimensions : dimensions = OR!ReferenceDimensions
  OBVIOUS
<1>3. dimensions \in Seq(RV!Range(dimensions)) /\ "originality" \in RV!Range(dimensions)
  <2>1. /\ DOMAIN dimensions = 1 .. 8 /\ dimensions = [i \in 1 .. 8 |-> dimensions[i]]
        /\ dimensions[8] = "originality"
    BY <1>2 DEF OR!ReferenceDimensions
  <2>2. dimensions \in [1 .. 8 -> RV!Range(dimensions)]
    BY <2>1 DEF RV!Range
  <2>3. dimensions \in Seq(RV!Range(dimensions))
    BY <2>2, SeqDef
  <2> QED BY <2>1, <2>3 DEF RV!Range
<1>4. PICK failed : failed = OR!Chosen(dimensions, OR!FailedDimensions(p, x))
  OBVIOUS
<1>5. "originality" \in RV!Range(failed)
  BY <1>1, <1>3, <1>4, ChosenIsWanted, ChosenAlikeOriginality
<1>6. PICK i \in DOMAIN failed : failed[i] = "originality"
  BY <1>5 DEF RV!Range
<1>7. report.findings = [j \in DOMAIN failed |->
                            [route |-> OR!ReferenceRoute(failed[j]), source |-> failed[j], chars |-> 0]]
  BY <1>2, <1>4 DEF OR!ReferenceReport
<1>8. i \in DOMAIN report.findings /\ report.findings[i].route = "concept"
  BY <1>6, <1>7 DEF OR!ReferenceRoute
<1>9. report.findings # <<>>
  <2>1. DOMAIN <<>> = {}
    OBVIOUS
  <2> QED BY <1>8, <2>1
<1>10. report.decision = IF report.findings = <<>> THEN "PASS" ELSE "REVISE"
  BY DEF OR!ReferenceReport
<1> QED BY <1>8, <1>9, <1>10 DEF RV!Range

LEMMA ReferencesGuarded == ASSUME FindingsInv, ValidateReferences PROVE OriginalityGuarded'
<1>1. agent = "reference_validation" /\ status = "asking"
  BY DEF ValidateReferences, Shown, Asking
<1>2. agent \in Recorded /\ agent \in DOMAIN RV!Findings
  BY <1>1, Reviewers DEF Recorded
<1>3. "history" \in DOMAIN input /\ IsList(input.history)
  BY <1>2 DEF FindingsInv, HistoryListed
<1>4. PICK answer, x : Remember(answer) \/ Refuse \/ Conclude(OR!ReferenceReport(input, x), PR!Nobody)
  BY DEF ValidateReferences, ConcludeReferences
<1>5. CASE Remember(answer) \/ Refuse
  BY <1>1, <1>5 DEF Remember, Refuse, OriginalityGuarded, Done
<1>6. CASE Conclude(OR!ReferenceReport(input, x), PR!Nobody) /\ ~ Refuse /\ ~ Remember(answer)
  <2>1. PICK report : report = OR!ReferenceReport(input, x)
    OBVIOUS
  <2>2. /\ Lists(report.findings, Found["reference_validation"]) /\ report.history = input.history
        /\ {"history", "findings", "decision"} \subseteq DOMAIN report
        /\ report.findings = <<>> => report.decision = "PASS"
    BY <2>1, ReferenceLists
  <2>3. agent' = agent /\ input' = input /\ RevisionReachesOwners'
    BY <1>1, <1>2, <1>3, <1>6, <2>1, <2>2, ConcludedWith
  <2>4. SUFFICES ASSUME OR!Signals(input) > 0 \/ output'.copied
                 PROVE  /\ output'.decision = "REVISE"
                        /\ RV!Routing["concept"] \in RV!Downstream(output'.history[Len(output'.history)].target)
    BY <2>3 DEF OriginalityGuarded
  <2>5. report.copied = OR!Copied(x) /\ "copied" \in DOMAIN report
    BY <2>1 DEF OR!ReferenceReport
  <2>6. CASE report.findings = <<>>
    <3>1. output' = report
      BY <1>6, <2>1, <2>6 DEF Conclude, Return
    <3> QED BY <2>1, <2>4, <2>5, <2>6, <3>1, GuardFinds
  <2>7. CASE report.findings # <<>>
    <3>1. PICK instruction : instruction = RV!Instruction(report.findings, agent, input.history, PR!Nobody)
      OBVIOUS
    <3>2. PICK filed : filed = RV!Filed(input.history, instruction)
      OBVIOUS
    <3>3. Return([report EXCEPT !.history = filed])
      BY <1>6, <2>1, <2>7, <3>1, <3>2 DEF Conclude
    <3>4. /\ output'.history = filed /\ output'.copied = report.copied /\ output'.decision = report.decision
          /\ status' = "done"
      BY <2>2, <2>5, <3>3 DEF Return
    <3>5. /\ report.decision = "REVISE"
          /\ \E f \in RV!Range(report.findings) : f.route = "concept"
      BY <2>1, <2>4, <2>5, <3>4, GuardFinds
    <3>6. instruction.findings = RV!Range(report.findings) /\ "findings" \in DOMAIN instruction
      BY <3>1 DEF RV!Instruction
    <3>7. filed[Len(filed)].findings = RV!Range(report.findings)
      BY <1>3, <3>2, <3>6, FiledAbout DEF IsList
    <3>8. \A f \in filed[Len(filed)].findings :
             RV!Routing[f.route] \in RV!Downstream(filed[Len(filed)].target)
      BY <1>2, <2>3, <3>4, <3>5 DEF RevisionReachesOwners
    <3> QED BY <3>4, <3>5, <3>7, <3>8
  <2> QED BY <2>6, <2>7
<1> QED BY <1>4, <1>5, <1>6

----------------------------------------------------------------------------
(* The ranking of ideas. *)

\* A scorecard has a score of every dimension.
Scored(c) == c.scores \in [CD!Dimensions -> 1 .. 10]

LEMMA ScoresAre ==
    ASSUME NEW c, Scored(c)
    PROVE  /\ DOMAIN CD!SelectionScores(c) = 1 .. 8
           /\ \A i \in 1 .. 8 : CD!SelectionScores(c)[i] \in Nat
           /\ CD!Total(c) \in Nat
<1>1. PICK dims : dims = CD!SelectionDimensions
  OBVIOUS
<1>2. DOMAIN dims = 1 .. 8 /\ \A i \in 1 .. 8 : dims[i] \in CD!Range(dims)
  BY <1>1 DEF CD!SelectionDimensions, CD!Range
<1>3. CD!Range(dims) \subseteq CD!Dimensions
  BY <1>1 DEF CD!Dimensions, CD!QualityThresholds
<1>4. PICK s : s = CD!SelectionScores(c)
  OBVIOUS
<1>5. s = [i \in 1 .. 8 |-> c.scores[dims[i]]]
  BY <1>1, <1>2, <1>4 DEF CD!SelectionScores
<1>6. \A i \in 1 .. 8 : c.scores[dims[i]] \in 1 .. 10
  BY <1>2, <1>3 DEF Scored
<1>7. s = [i \in 1 .. 8 |-> s[i]] /\ \A i \in 1 .. 8 : s[i] \in Nat
  BY <1>5, <1>6
<1>8. CA!Sum(s) \in Nat
  BY <1>7, SumIsNatural DEF Numbers
<1>9. CD!Sum(s) = CA!Sum(s)
  <2>1. CD!SumUpTo(s) = CA!SumUpTo(s)
    BY DEF CD!SumUpTo, CA!SumUpTo
  <2> QED BY <2>1 DEF CD!Sum, CA!Sum
<1> QED BY <1>4, <1>7, <1>8, <1>9 DEF CD!Total

\* The first of the dimensions in which two scorecards differ.
LEMMA ScoreList ==
    ASSUME NEW c, Scored(c), NEW s, s = CD!SelectionScores(c) PROVE s = [i \in 1 .. 8 |-> s[i]]
<1>1. DOMAIN s = 1 .. 8
  BY ScoresAre
<1> QED BY <1>1 DEF CD!SelectionScores

LEMMA FirstDifference ==
    ASSUME NEW s, NEW t, DOMAIN s = 1 .. 8, DOMAIN t = 1 .. 8, NEW k \in 1 .. 8, s[k] # t[k]
    PROVE  \E i \in 1 .. 8 : s[i] # t[i] /\ \A j \in 1 .. i - 1 : s[j] = t[j]
<1> DEFINE T == {i \in 1 .. 8 : s[i] # t[i]}
<1>1. T \subseteq Nat /\ k \in T
  OBVIOUS
<1>2. PICK i \in T : \A j \in T : i <= j
  BY <1>1, LeastNatural
<1>3. \A j \in 1 .. i - 1 : j \in 1 .. 8 /\ ~ (i <= j)
  BY <1>2
<1> QED BY <1>2, <1>3

LEMMA RankIsStrict ==
    ASSUME NEW a, Scored(a), NEW b, Scored(b)
    PROVE  /\ ~ CD!Above(a, a)
           /\ CD!SelectionScores(a) # CD!SelectionScores(b) => CD!Above(a, b) \/ CD!Above(b, a)
<1>1. PICK s, t : s = CD!SelectionScores(a) /\ t = CD!SelectionScores(b)
  OBVIOUS
<1>2. /\ DOMAIN s = 1 .. 8 /\ DOMAIN t = 1 .. 8 /\ \A i \in 1 .. 8 : s[i] \in Nat /\ t[i] \in Nat
      /\ CD!Total(a) \in Nat /\ CD!Total(b) \in Nat
  BY <1>1, ScoresAre
<1>3. ~ CD!Above(a, a)
  BY <1>1, <1>2 DEF CD!Above
<1>4. ASSUME s # t PROVE CD!Above(a, b) \/ CD!Above(b, a)
  <2>1. PICK k \in 1 .. 8 : s[k] # t[k]
    <3>1. s = [i \in 1 .. 8 |-> s[i]] /\ t = [i \in 1 .. 8 |-> t[i]]
      BY <1>1, <1>2, ScoreList
    <3> QED BY <1>4, <3>1
  <2>2. PICK i \in 1 .. 8 : s[i] # t[i] /\ \A j \in 1 .. i - 1 : s[j] = t[j]
    BY <1>2, <2>1, FirstDifference
  <2>3. s[i] > t[i] \/ t[i] > s[i]
    BY <1>2, <2>2
  <2> QED BY <1>1, <1>2, <2>2, <2>3 DEF CD!Above
<1> QED BY <1>1, <1>3, <1>4

LEMMA RankIsTransitive ==
    ASSUME NEW a, Scored(a), NEW b, Scored(b), NEW c, Scored(c), CD!Above(a, b), CD!Above(b, c)
    PROVE  CD!Above(a, c)
<1>1. PICK s, t, u : s = CD!SelectionScores(a) /\ t = CD!SelectionScores(b) /\ u = CD!SelectionScores(c)
  OBVIOUS
<1>2. /\ DOMAIN s = 1 .. 8 /\ DOMAIN t = 1 .. 8 /\ DOMAIN u = 1 .. 8
      /\ \A i \in 1 .. 8 : s[i] \in Nat /\ t[i] \in Nat /\ u[i] \in Nat
  BY <1>1, ScoresAre
<1>3. CD!Total(a) \in Nat /\ CD!Total(b) \in Nat /\ CD!Total(c) \in Nat
  BY ScoresAre
<1>4. CASE CD!Total(a) > CD!Total(b) \/ CD!Total(b) > CD!Total(c)
  <2>1. CD!Total(a) >= CD!Total(b) /\ CD!Total(b) >= CD!Total(c)
    BY <1>3 DEF CD!Above
  <2>2. CD!Total(a) > CD!Total(c)
    BY <1>3, <1>4, <2>1
  <2> QED BY <2>2 DEF CD!Above
<1>5. CASE ~ (CD!Total(a) > CD!Total(b)) /\ ~ (CD!Total(b) > CD!Total(c))
  <2>1. CD!Total(a) = CD!Total(c)
    BY <1>5 DEF CD!Above
  <2>2. PICK i \in 1 .. 8 : s[i] > t[i] /\ \A j \in 1 .. i - 1 : s[j] = t[j]
    BY <1>1, <1>2, <1>5 DEF CD!Above
  <2>3. PICK k \in 1 .. 8 : t[k] > u[k] /\ \A j \in 1 .. k - 1 : t[j] = u[j]
    BY <1>1, <1>2, <1>5 DEF CD!Above
  <2>4. PICK m \in 1 .. 8 : m = IF i <= k THEN i ELSE k
    OBVIOUS
  <2>5. s[m] > u[m]
    BY <1>2, <2>2, <2>3, <2>4
  <2>6. \A j \in 1 .. m - 1 : s[j] = u[j]
    BY <2>2, <2>3, <2>4
  <2> QED BY <1>1, <1>2, <2>1, <2>5, <2>6 DEF CD!Above
<1> QED BY <1>4, <1>5

\* Three to five ideas with different scorecards.
Rankable(ideas, n) ==
    /\ n \in 3 .. 5 /\ DOMAIN ideas = 1 .. n
    /\ \A i \in 1 .. n : Scored(ideas[i])
    /\ \A i, j \in 1 .. n : i # j => CD!SelectionScores(ideas[i]) # CD!SelectionScores(ideas[j])

BestOf(ideas, n, b) ==
    b \in 1 .. n /\ \A j \in 1 .. n \ {b} : CD!Above(ideas[b], ideas[j])

LEMMA OneIsBest ==
    ASSUME NEW ideas, NEW n, Rankable(ideas, n)
    PROVE  \E b \in 1 .. n : BestOf(ideas, n, b)
<1> DEFINE Best(m) == \E b \in 1 .. m : BestOf(ideas, m, b)
<1>1. Best(1)
  BY DEF BestOf
<1>2. ASSUME NEW m \in 1 .. 4, m + 1 <= n, Best(m) PROVE Best(m + 1)
  <2>1. PICK b \in 1 .. m : BestOf(ideas, m, b)
    BY <1>2
  <2>2. /\ b \in 1 .. n /\ m + 1 \in 1 .. n /\ b # m + 1 /\ 1 .. m \subseteq 1 .. n
        /\ \A j \in 1 .. m : j \in 1 .. n /\ Scored(ideas[j])
        /\ Scored(ideas[m + 1])
    BY <1>2, <2>1 DEF Rankable
  <2>3. CASE CD!Above(ideas[b], ideas[m + 1])
    <3>1. \A j \in 1 .. m + 1 \ {b} : j = m + 1 \/ j \in 1 .. m \ {b}
      OBVIOUS
    <3>2. BestOf(ideas, m + 1, b)
      BY <2>1, <2>3, <3>1 DEF BestOf
    <3> QED BY <3>2 DEF BestOf
  <2>4. CASE CD!Above(ideas[m + 1], ideas[b])
    <3>1. ASSUME NEW j \in 1 .. m PROVE CD!Above(ideas[m + 1], ideas[j])
      <4>1. CASE j = b
        BY <2>4, <4>1
      <4>2. CASE j # b
        <5>1. CD!Above(ideas[b], ideas[j])
          BY <2>1, <4>2 DEF BestOf
        <5> QED BY <2>2, <2>4, <5>1, RankIsTransitive
      <4> QED BY <4>1, <4>2
    <3>2. \A j \in 1 .. m + 1 \ {m + 1} : j \in 1 .. m
      OBVIOUS
    <3>3. m + 1 \in 1 .. m + 1
      OBVIOUS
    <3> QED BY <3>1, <3>2, <3>3 DEF BestOf
  <2>5. CD!Above(ideas[b], ideas[m + 1]) \/ CD!Above(ideas[m + 1], ideas[b])
    <3>1. CD!SelectionScores(ideas[b]) # CD!SelectionScores(ideas[m + 1])
      BY <2>2 DEF Rankable
    <3> QED BY <2>2, <3>1, RankIsStrict
  <2> QED BY <2>3, <2>4, <2>5
<1> HIDE DEF Best
<1>3. n \in {3, 4, 5}
  BY DEF Rankable
<1>4. Best(2) /\ Best(3)
  BY <1>1, <1>2, <1>3
<1>5. n >= 4 => Best(4)
  BY <1>2, <1>3, <1>4
<1>6. n >= 5 => Best(5)
  BY <1>2, <1>3, <1>5
<1> QED BY <1>3, <1>4, <1>5, <1>6 DEF Best

LEMMA WinnerIs ==
    ASSUME NEW ideas, NEW n \in Nat, DOMAIN ideas = 1 .. n, NEW b, BestOf(ideas, n, b),
           \A i \in 1 .. n : Scored(ideas[i])
    PROVE  CD!Winner(ideas) = ideas[b]
<1> DEFINE best == {i \in DOMAIN ideas : ~ \E j \in DOMAIN ideas : CD!Above(ideas[j], ideas[i])}
<1>1. b \in 1 .. n
  BY DEF BestOf
<1>2. ASSUME NEW j \in 1 .. n PROVE ~ CD!Above(ideas[j], ideas[b])
  <2>1. ASSUME CD!Above(ideas[j], ideas[b]) PROVE FALSE
    <3>1. ~ CD!Above(ideas[b], ideas[b])
      BY <1>1, RankIsStrict
    <3>2. j # b
      BY <2>1, <3>1
    <3>3. CD!Above(ideas[b], ideas[j])
      BY <3>2 DEF BestOf
    <3> QED BY <1>1, <2>1, <3>1, <3>3, RankIsTransitive
  <2> QED BY <2>1
<1>3. best = {b}
  <2>1. b \in best
    BY <1>1, <1>2
  <2>2. \A i \in best : i = b
    BY <1>1 DEF BestOf
  <2> QED BY <2>1, <2>2
<1>4. CD!Winner(ideas) = ideas[CHOOSE i \in best : \A j \in best : i <= j]
  BY DEF CD!Winner
<1> HIDE DEF best
<1>5. (CHOOSE i \in best : \A j \in best : i <= j) = b
  <2>1. \E i \in best : \A j \in best : i <= j
    BY <1>1, <1>3
  <2>2. PICK w : w = CHOOSE i \in best : \A j \in best : i <= j
    OBVIOUS
  <2>3. w \in best
    BY <2>1, <2>2
  <2> QED BY <1>3, <2>2, <2>3
<1> QED BY <1>4, <1>5

\* The order of the list decides nothing.
LEMMA WinnerOfOrder ==
    ASSUME NEW ideas, NEW n, Rankable(ideas, n), NEW order \in CD!Bijection(1 .. n, 1 .. n),
           NEW other, other = [i \in DOMAIN ideas |-> ideas[order[i]]]
    PROVE  CD!Winner(other) = CD!Winner(ideas)
<1>1. n \in Nat /\ DOMAIN ideas = 1 .. n /\ DOMAIN other = 1 .. n /\ \A i \in 1 .. n : Scored(ideas[i])
  BY DEF Rankable
<1>2. PICK b \in 1 .. n : BestOf(ideas, n, b)
  BY OneIsBest
<1>3. /\ \A i \in 1 .. n : order[i] \in 1 .. n
      /\ \A i, j \in 1 .. n : order[i] = order[j] => i = j
      /\ \A j \in 1 .. n : \E i \in 1 .. n : order[i] = j
  BY DEF CD!Bijection, CD!Injection, CD!Surjection, CD!IsInjective
<1>4. PICK a \in 1 .. n : order[a] = b
  BY <1>2, <1>3
<1>5. \A i \in 1 .. n : other[i] = ideas[order[i]] /\ Scored(other[i])
  BY <1>1, <1>3
<1>6. BestOf(other, n, a)
  <2>1. ASSUME NEW j \in 1 .. n \ {a} PROVE CD!Above(other[a], other[j])
    <3>1. order[j] \in 1 .. n \ {b}
      BY <1>3, <1>4
    <3> QED BY <1>2, <1>4, <1>5, <3>1 DEF BestOf
  <2> QED BY <2>1 DEF BestOf
<1>7. CD!Winner(ideas) = ideas[b] /\ CD!Winner(other) = other[a]
  BY <1>1, <1>2, <1>5, <1>6, WinnerIs
<1> QED BY <1>4, <1>5, <1>7

LEMMA AlikeRanked ==
    ASSUME NEW a, NEW b, NEW c, NEW d, a.scores = c.scores, b.scores = d.scores
    PROVE  /\ CD!SelectionScores(a) = CD!SelectionScores(c) /\ (Scored(a) => Scored(c))
           /\ CD!Above(a, b) => CD!Above(c, d)
<1>1. CD!SelectionScores(a) = CD!SelectionScores(c) /\ CD!SelectionScores(b) = CD!SelectionScores(d)
  BY DEF CD!SelectionScores
<1>2. CD!Total(a) = CD!Total(c) /\ CD!Total(b) = CD!Total(d)
  BY <1>1 DEF CD!Total
<1>3. CD!Above(a, b) => CD!Above(c, d)
  BY <1>1, <1>2, Zenon DEF CD!Above
<1> QED BY <1>1, <1>3 DEF Scored

\* The winner of the same scorecards has the same place.
LEMMA SamePlace ==
    ASSUME NEW ideas, NEW n, Rankable(ideas, n), NEW given, DOMAIN given = 1 .. n,
           \A i \in 1 .. n : given[i].scores = ideas[i].scores
    PROVE  \E b \in 1 .. n : CD!Winner(ideas) = ideas[b] /\ CD!Winner(given) = given[b]
<1>1. n \in Nat /\ DOMAIN ideas = 1 .. n /\ \A i \in 1 .. n : Scored(ideas[i])
  BY DEF Rankable
<1>2. PICK b \in 1 .. n : BestOf(ideas, n, b)
  BY OneIsBest
<1>3. \A i \in 1 .. n : Scored(given[i])
  BY <1>1 DEF Scored
<1>4. BestOf(given, n, b)
  <2>1. ASSUME NEW j \in 1 .. n \ {b} PROVE CD!Above(given[b], given[j])
    <3>1. CD!Above(ideas[b], ideas[j])
      BY <1>2 DEF BestOf
    <3>2. ideas[b].scores = given[b].scores /\ ideas[j].scores = given[j].scores
      OBVIOUS
    <3> QED BY <3>1, <3>2, AlikeRanked
  <2> QED BY <2>1 DEF BestOf
<1> QED BY <1>1, <1>2, <1>3, <1>4, WinnerIs

----------------------------------------------------------------------------
(* What is published of an exploration. *)

\* The items of an exploration as they are validated: but for the basis, as they were.
LEMMA PreparedItems ==
    ASSUME NEW items, NEW kinds, NEW secondary, NEW normal, normal = CD!NormalizedItems(items, kinds, secondary)
    PROVE  /\ DOMAIN normal = DOMAIN items
           /\ \A i \in DOMAIN items : /\ DOMAIN normal[i] = DOMAIN items[i] \cup {"basis"}
                                      /\ \A f \in DOMAIN items[i] \ {"basis"} : normal[i][f] = items[i][f]
BY DEF CD!NormalizedItems

LEMMA CutItems ==
    ASSUME NEW items, NEW kinds, NEW allowed, NEW cut,
           cut = [i \in DOMAIN items |-> [items[i] EXCEPT !.basis = CD!Canonical(@, kinds, allowed)]]
    PROVE  /\ DOMAIN cut = DOMAIN items
           /\ \A i \in DOMAIN items : /\ DOMAIN cut[i] = DOMAIN items[i]
                                      /\ \A f \in DOMAIN items[i] \ {"basis"} : cut[i][f] = items[i][f]
OBVIOUS

\* What is published of a list of items is what was given.
Kept(given, items) ==
    /\ DOMAIN items = DOMAIN given
    /\ \A i \in DOMAIN given : /\ DOMAIN items[i] = DOMAIN given[i] \cup {"basis"}
                               /\ \A f \in DOMAIN given[i] \ {"basis"} : items[i][f] = given[i][f]

LEMMA PreparedKeeps ==
    ASSUME NEW x, NEW allowed, NEW y, y = CD!WithCanonicalBasis(CD!Normalized(x), allowed)
    PROVE  /\ Kept(x.territories, y.territories) /\ Kept(x.hooks, y.hooks) /\ Kept(x.ideas, y.ideas)
           /\ y = [territories |-> y.territories, hooks |-> y.hooks, ideas |-> y.ideas]
<1>1. PICK n : n = CD!Normalized(x)
  OBVIOUS
<1>2. Kept(x.territories, n.territories) /\ Kept(x.hooks, n.hooks) /\ Kept(x.ideas, n.ideas)
  BY <1>1, PreparedItems DEF CD!Normalized, Kept
<1> DEFINE cut(items, kinds) == [i \in DOMAIN items |-> [items[i] EXCEPT !.basis = CD!Canonical(@, kinds, allowed)]]
<1>3. y = [territories |-> cut(n.territories, {"audience"}), hooks |-> cut(n.hooks, {"brand"}),
           ideas |-> cut(n.ideas, {"audience"})]
  BY <1>1 DEF CD!WithCanonicalBasis
<1>4. ASSUME NEW given, NEW items, NEW kinds, Kept(given, items) PROVE Kept(given, cut(items, kinds))
  <2>1. PICK c : c = cut(items, kinds)
    OBVIOUS
  <2>2. /\ DOMAIN c = DOMAIN items
        /\ \A i \in DOMAIN items : /\ DOMAIN c[i] = DOMAIN items[i]
                                   /\ \A f \in DOMAIN items[i] \ {"basis"} : c[i][f] = items[i][f]
    BY <2>1, CutItems
  <2>3. Kept(given, c)
    BY <1>4, <2>2 DEF Kept
  <2> QED BY <2>1, <2>3
<1> HIDE DEF cut
<1> QED BY <1>2, <1>3, <1>4

\* Identifiers that are as many as the items are unique.
LEMMA IdsUnique ==
    ASSUME NEW items, NEW n \in Nat, DOMAIN items = 1 .. n, CD!Cardinality(CD!Ids(items)) = n
    PROVE  \A i, j \in 1 .. n : items[i].id = items[j].id => i = j
<1> DEFINE f == [i \in 1 .. n |-> items[i].id]
           T == CD!Ids(items)
<1>1. T = {items[i].id : i \in 1 .. n}
  BY DEF CD!Ids, CD!Range
<1>2. f \in Surjection(1 .. n, T)
  BY <1>1 DEF Surjection
<1>3. IsFiniteSet(1 .. n) /\ Cardinality(1 .. n) = n
  BY FS_Interval
<1>4. CD!Cardinality(T) = Cardinality(T)
  BY DEF CD!Cardinality, Cardinality
<1>5. f \in Injection(1 .. n, T)
  BY <1>2, <1>3, <1>4, FS_Surjection
<1> QED BY <1>5 DEF Injection, IsInjective

\* What makes a direction that is published sound.
Upright(direction, brief) ==
    /\ CD!WellFormed(direction.exploration) /\ CD!ExplorationErrors(direction.exploration, brief) = {}
    /\ CD!GateFailures(CD!ById(direction.exploration.ideas, direction.winner)) = {}
    /\ LET ideas == direction.exploration.ideas
       IN  \A order \in CD!Bijection(DOMAIN ideas, DOMAIN ideas) :
               CD!Winner([i \in DOMAIN ideas |-> ideas[order[i]]]).id = direction.winner

LEMMA NoErrorsIn ==
    ASSUME NEW candidate, NEW brief, CD!CandidateErrors(candidate, brief) = {},
           NEW y, y = CD!WithCanonicalBasis(CD!Normalized(candidate.x), brief.allowed)
    PROVE  /\ CD!Complete(CD!Normalized(candidate.x)) /\ candidate # CD!NoObject
           /\ CD!WellFormed(y) /\ CD!ExplorationErrors(y, brief) = {}
           /\ CD!GateFailures(CD!Winner(y.ideas)) = {}
<1>1. candidate # CD!NoObject /\ CD!Complete(CD!Normalized(candidate.x)) /\ CD!DirectionErrors(candidate.x, brief) = {}
  BY DEF CD!CandidateErrors
<1>2. CD!WellFormed(y) /\ CD!ExplorationErrors(y, brief) = {}
  BY <1>1 DEF CD!DirectionErrors
<1>3. CD!When(CD!GateFailures(CD!Winner(y.ideas)) # {}, CD!Violation(CD!All, "below the quality bar")) = {}
  BY <1>1, <1>2 DEF CD!DirectionErrors
<1> QED BY <1>1, <1>2, <1>3 DEF CD!When

LEMMA RankableIdeas ==
    ASSUME NEW y, CD!WellFormed(y), NEW brief, CD!ExplorationErrors(y, brief) = {}
    PROVE  \E n \in 3 .. 5 : Rankable(y.ideas, n) /\ CD!Cardinality(CD!Ids(y.ideas)) = n
<1>1. PICK ideas : ideas = y.ideas
  OBVIOUS
<1>2. PICK n \in 3 .. 5 : DOMAIN ideas = 1 .. n /\ CD!Cardinality(CD!Ids(ideas)) = n
  BY <1>1 DEF CD!WellFormed
<1>3. \A i \in 1 .. n : Scored(ideas[i])
  <2>1. \A c \in CD!Range(ideas) : Scored(c)
    BY <1>1 DEF CD!WellFormed, Scored
  <2> QED BY <1>2, <2>1 DEF CD!Range
<1>4. CD!ScorecardErrors(y) = {}
  BY DEF CD!ExplorationErrors
<1>5. \A i, j \in 1 .. n : i < j => CD!SelectionScores(ideas[i]) # CD!SelectionScores(ideas[j])
  BY <1>1, <1>2, <1>4 DEF CD!ScorecardErrors, CD!When
<1>6. \A i, j \in 1 .. n : i # j => CD!SelectionScores(ideas[i]) # CD!SelectionScores(ideas[j])
  <2>1. \A i, j \in 1 .. n : i # j => i < j \/ j < i
    OBVIOUS
  <2> QED BY <1>5, <2>1
<1> QED BY <1>1, <1>2, <1>3, <1>6 DEF Rankable

LEMMA DirectionUpright ==
    ASSUME NEW candidate, NEW brief, CD!CandidateErrors(candidate, brief) = {}, NEW notes,
           NEW direction, direction = CD!Direction(candidate.x, brief, notes)
    PROVE  Upright(direction, brief)
<1>1. PICK x : x = candidate.x
  OBVIOUS
<1>2. PICK y : y = CD!WithCanonicalBasis(CD!Normalized(x), brief.allowed)
  OBVIOUS
<1>3. /\ CD!Complete(CD!Normalized(x)) /\ CD!WellFormed(y) /\ CD!ExplorationErrors(y, brief) = {}
      /\ CD!GateFailures(CD!Winner(y.ideas)) = {}
  BY <1>1, <1>2, NoErrorsIn
<1>4. PICK n \in 3 .. 5 : Rankable(y.ideas, n) /\ CD!Cardinality(CD!Ids(y.ideas)) = n
  BY <1>3, RankableIdeas
<1>5. DOMAIN y.ideas = 1 .. n /\ n \in Nat
  BY <1>4 DEF Rankable
<1>6. Kept(x.ideas, y.ideas)
  BY <1>2, PreparedKeeps
<1>7. DOMAIN x.ideas = 1 .. n
      /\ \A i \in 1 .. n : x.ideas[i].scores = y.ideas[i].scores /\ x.ideas[i].id = y.ideas[i].id
  <2>1. PICK normal : normal = CD!NormalizedItems(x.ideas, CD!EvidenceKinds, CD!AudienceTarget)
    OBVIOUS
  <2>2. \A c \in CD!Range(normal) : DOMAIN c = CD!IdeaFields
    BY <1>3, <2>1 DEF CD!Complete, CD!Normalized
  <2>3. DOMAIN x.ideas = 1 .. n
    BY <1>5, <1>6 DEF Kept
  <2>4. DOMAIN normal = 1 .. n /\ \A i \in 1 .. n : DOMAIN normal[i] = DOMAIN x.ideas[i] \cup {"basis"}
    BY <2>1, <2>3, PreparedItems
  <2>5. \A i \in 1 .. n : {"scores", "id"} \subseteq DOMAIN x.ideas[i]
    BY <2>2, <2>4 DEF CD!Range, CD!IdeaFields
  <2> QED BY <1>6, <2>3, <2>5 DEF Kept
<1>8. PICK b \in 1 .. n : CD!Winner(y.ideas) = y.ideas[b] /\ CD!Winner(x.ideas) = x.ideas[b]
  BY <1>4, <1>7, SamePlace
<1>9. direction.exploration = y /\ direction.winner = y.ideas[b].id
  BY <1>1, <1>2, <1>7, <1>8 DEF CD!Direction
<1>10. CD!ById(y.ideas, y.ideas[b].id) = y.ideas[b]
  <2>1. \A i, j \in 1 .. n : y.ideas[i].id = y.ideas[j].id => i = j
    BY <1>4, <1>5, IdsUnique
  <2>2. PICK ideas : ideas = y.ideas
    OBVIOUS
  <2>3. ideas[b] \in CD!Range(ideas) /\ \A c \in CD!Range(ideas) : c.id = ideas[b].id => c = ideas[b]
    BY <1>5, <2>1, <2>2 DEF CD!Range
  <2>4. CD!ById(ideas, ideas[b].id) = ideas[b]
    BY <2>3 DEF CD!ById
  <2> QED BY <2>2, <2>4
<1>11. \A order \in CD!Bijection(DOMAIN y.ideas, DOMAIN y.ideas) :
          CD!Winner([i \in DOMAIN y.ideas |-> y.ideas[order[i]]]).id = y.ideas[b].id
  BY <1>4, <1>5, <1>8, WinnerOfOrder
<1> QED BY <1>3, <1>8, <1>9, <1>10, <1>11 DEF Upright

----------------------------------------------------------------------------
(* What is said of the repairs. *)

Noted == {"stabilized", "related"}

LEMMA AnnouncedIs ==
    ASSUME NEW notes, notes \cap Noted # {}, NEW said, said = CD!Announced(notes)
    PROVE  \E m \in 1 .. 2 : /\ said = [i \in 1 .. m |-> said[i]]
                             /\ \A i \in 1 .. m : said[i] \in Noted
<1>1. CASE "stabilized" \in notes /\ "related" \in notes
  <2>1. said = <<"stabilized">> \o <<"related">>
    BY <1>1 DEF CD!Announced
  <2>2. <<"stabilized">> \in Seq({"stabilized"}) /\ Len(<<"stabilized">>) = 1 /\ <<"stabilized">>[1] = "stabilized"
    OBVIOUS
  <2>3. PICK one : one = <<"stabilized">>
    OBVIOUS
  <2>4. one \in Seq({"stabilized"}) /\ Len(one) = 1 /\ one[1] = "stabilized" /\ said = one \o <<"related">>
    BY <2>1, <2>2, <2>3
  <2>5. /\ said \in Seq({"stabilized"} \cup {"related"}) /\ Len(said) = 2 /\ said[2] = "related"
        /\ said[1] = one[1]
    <3>1. /\ said \in Seq({"stabilized"} \cup {"related"}) /\ Len(said) = Len(one) + 1
          /\ said[Len(one) + 1] = "related" /\ \A i \in 1 .. Len(one) : said[i] = one[i]
      <4>1. PICK A, e : A = {"stabilized"} /\ e = "related"
        OBVIOUS
      <4>2. one \in Seq(A) /\ said = one \o <<e>>
        BY <2>4, <4>1
      <4>3. /\ said \in Seq(A \cup {e}) /\ Len(said) = Len(one) + 1 /\ said[Len(one) + 1] = e
            /\ \A i \in 1 .. Len(one) : said[i] = one[i]
        BY ONLY <4>2, ConcatOne
      <4> QED BY <4>1, <4>3
    <3>2. Len(one) + 1 = 2 /\ 1 \in 1 .. Len(one)
      BY <2>4
    <3> QED BY <3>1, <3>2
  <2>6. said = [i \in 1 .. 2 |-> said[i]] /\ said[1] = "stabilized" /\ said[2] = "related"
    BY <2>4, <2>5
  <2> QED BY <2>6 DEF Noted
<1>2. CASE "stabilized" \in notes /\ "related" \notin notes
  <2>1. said = <<"stabilized">> \o <<>>
    BY <1>2 DEF CD!Announced
  <2>2. said = <<"stabilized">>
    BY <2>1
  <2> QED BY <2>2 DEF Noted
<1>3. CASE "stabilized" \notin notes /\ "related" \in notes
  <2>1. said = <<>> \o <<"related">>
    BY <1>3 DEF CD!Announced
  <2>2. said = <<"related">>
    BY <2>1
  <2> QED BY <2>2 DEF Noted
<1> QED BY <1>1, <1>2, <1>3 DEF Noted

LEMMA RepairAnnounced ==
    ASSUME NEW S, NEW limitations \in Seq(S), Len(limitations) + 2 <= CD!MaxLimitations,
           NEW notes, notes \cap Noted # {},
           NEW all, all = CD!Shortened(limitations \o CD!Announced(notes))
    PROVE  \E i \in DOMAIN all : all[i] \in Noted
<1>1. PICK said : said = CD!Announced(notes)
  OBVIOUS
<1>2. PICK m \in 1 .. 2 : said = [i \in 1 .. m |-> said[i]] /\ \A i \in 1 .. m : said[i] \in Noted
  BY <1>1, AnnouncedIs
<1>3. PICK T : T = S \cup Noted
  OBVIOUS
<1>4. said \in Seq(T) /\ Len(said) = m /\ limitations \in Seq(T)
  <2>1. said \in [1 .. m -> T]
    BY <1>2, <1>3
  <2>2. said \in Seq(T)
    BY <1>2, <2>1, SeqDef
  <2>3. DOMAIN said = 1 .. m
    BY <1>2
  <2>4. Len(said) \in Nat /\ DOMAIN said = 1 .. Len(said)
    BY <2>2
  <2>5. Len(said) = m
    BY <2>3, <2>4
  <2> QED BY <1>3, <2>2, <2>5
<1>5. PICK n \in Nat : n = Len(limitations)
  OBVIOUS
<1>6. PICK whole : whole = limitations \o said
  OBVIOUS
<1>7. whole \in Seq(T) /\ Len(whole) = n + m /\ whole[n + 1] = said[1]
  BY <1>4, <1>5, <1>6
<1>8. n + m <= 20
  BY <1>2, <1>5 DEF CD!MaxLimitations
<1>9. all = SubSeq(whole, 1, n + m)
  <2>1. all = SubSeq(whole, 1, IF Len(whole) < 20 THEN Len(whole) ELSE 20)
    BY <1>1, <1>6 DEF CD!Shortened, CD!MaxLimitations
  <2> QED BY <1>7, <1>8, <2>1
<1>10. n + 1 \in DOMAIN all /\ all[n + 1] = said[1]
  BY <1>7, <1>9
<1> QED BY <1>2, <1>10

----------------------------------------------------------------------------

(* The texts of an exploration, through its repairs. *)

\* An item of the list has this text in this field.
HasField(items, f, p) == \E i \in DOMAIN items : f \in DOMAIN items[i] /\ p = items[i][f]

LEMMA InRepaired ==
    ASSUME NEW x, NEW p
    PROVE  p \in CD!RepairedTexts(x) <=>
              \/ \E f \in CD!TerritoryTexts : HasField(x.territories, f, p)
              \/ \E f \in CD!HookTexts : HasField(x.hooks, f, p)
              \/ \E f \in CD!IdeaTexts : HasField(x.ideas, f, p)
<1>1. ASSUME NEW items, NEW fields
      PROVE  p \in UNION {CD!Fields(t, fields) : t \in CD!Range(items)}
                <=> \E f \in fields : HasField(items, f, p)
  BY DEF CD!Fields, CD!Range, HasField
<1>2. p \in UNION {CD!Fields(t, CD!TerritoryTexts) : t \in CD!Range(x.territories)}
         <=> \E f \in CD!TerritoryTexts : HasField(x.territories, f, p)
  BY <1>1
<1>3. p \in UNION {CD!Fields(t, CD!HookTexts) : t \in CD!Range(x.hooks)}
         <=> \E f \in CD!HookTexts : HasField(x.hooks, f, p)
  BY <1>1
<1>4. p \in UNION {CD!Fields(t, CD!IdeaTexts) : t \in CD!Range(x.ideas)}
         <=> \E f \in CD!IdeaTexts : HasField(x.ideas, f, p)
  BY <1>1
<1> QED BY <1>2, <1>3, <1>4 DEF CD!RepairedTexts

LEMMA InWritten ==
    ASSUME NEW x, NEW p
    PROVE  p \in CD!WrittenTexts(x) <=>
              \/ \E f \in CD!TerritoryTexts : HasField(x.territories, f, p)
              \/ \E f \in CD!HookTexts : HasField(x.hooks, f, p)
              \/ \E f \in CD!IdeaTexts \cup {"weakness"} : HasField(x.ideas, f, p)
              \/ \E e : HasField(x.ideas, "extensions", e) /\ p \in CD!Range(e)
<1>1. ASSUME NEW items, NEW fields
      PROVE  p \in UNION {CD!Fields(t, fields) : t \in CD!Range(items)}
                <=> \E f \in fields : HasField(items, f, p)
  BY DEF CD!Fields, CD!Range, HasField
<1>2. p \in UNION {CD!Fields(t, CD!TerritoryTexts) : t \in CD!Range(x.territories)}
         <=> \E f \in CD!TerritoryTexts : HasField(x.territories, f, p)
  BY <1>1
<1>3. p \in UNION {CD!Fields(t, CD!HookTexts) : t \in CD!Range(x.hooks)}
         <=> \E f \in CD!HookTexts : HasField(x.hooks, f, p)
  BY <1>1
<1> DEFINE extras(c) == IF "extensions" \in DOMAIN c THEN CD!Range(c.extensions) ELSE {}
           fields == CD!IdeaTexts \cup {"weakness"}
<1>4. p \in UNION {CD!Fields(c, fields) : c \in CD!Range(x.ideas)}
         <=> \E f \in fields : HasField(x.ideas, f, p)
  BY <1>1
<1>5. p \in UNION {extras(c) : c \in CD!Range(x.ideas)}
         <=> \E e : HasField(x.ideas, "extensions", e) /\ p \in CD!Range(e)
  <2>1. PICK items : items = x.ideas
    OBVIOUS
  <2>2. ASSUME NEW i \in DOMAIN items, p \in extras(items[i])
        PROVE  \E e : HasField(items, "extensions", e) /\ p \in CD!Range(e)
    <3>1. "extensions" \in DOMAIN items[i] /\ p \in CD!Range(items[i].extensions)
      BY <2>2
    <3> QED BY <3>1 DEF HasField
  <2>3. ASSUME NEW e, HasField(items, "extensions", e), p \in CD!Range(e)
        PROVE  \E i \in DOMAIN items : p \in extras(items[i])
    BY <2>3 DEF HasField
  <2> HIDE DEF extras
  <2>4. p \in UNION {extras(c) : c \in CD!Range(items)} <=> \E i \in DOMAIN items : p \in extras(items[i])
    BY DEF CD!Range
  <2> QED BY <2>1, <2>2, <2>3, <2>4
<1>6. p \in UNION {CD!Fields(c, fields) \cup extras(c) : c \in CD!Range(x.ideas)}
         <=> \/ p \in UNION {CD!Fields(c, fields) : c \in CD!Range(x.ideas)}
             \/ p \in UNION {extras(c) : c \in CD!Range(x.ideas)}
  <2> HIDE DEF extras, fields
  <2> QED OBVIOUS
<1> QED BY <1>2, <1>3, <1>4, <1>5, <1>6 DEF CD!WrittenTexts

\* Every text of an exploration but its basis and scores comes from one of two others.
Comes(x, a, b) ==
    \A f, p : f \notin {"basis", "scores"} =>
       /\ HasField(x.territories, f, p) => HasField(a.territories, f, p) \/ HasField(b.territories, f, p)
       /\ HasField(x.hooks, f, p) => HasField(a.hooks, f, p) \/ HasField(b.hooks, f, p)
       /\ HasField(x.ideas, f, p) => HasField(a.ideas, f, p) \/ HasField(b.ideas, f, p)

LEMMA TextsCome ==
    ASSUME NEW x, NEW a, NEW b, Comes(x, a, b)
    PROVE  /\ CD!RepairedTexts(x) \subseteq CD!RepairedTexts(a) \cup CD!RepairedTexts(b)
           /\ CD!WrittenTexts(x) \subseteq CD!WrittenTexts(a) \cup CD!WrittenTexts(b)
<1>1. CD!TerritoryTexts \cap {"basis", "scores"} = {} /\ CD!HookTexts \cap {"basis", "scores"} = {}
      /\ CD!IdeaTexts \cap {"basis", "scores"} = {}
      /\ (CD!IdeaTexts \cup {"weakness"}) \cap {"basis", "scores"} = {}
      /\ "extensions" \notin {"basis", "scores"}
  BY DEF CD!TerritoryTexts, CD!HookTexts, CD!IdeaTexts
<1>2. /\ \A p : \A f \in CD!TerritoryTexts : HasField(x.territories, f, p) =>
                   HasField(a.territories, f, p) \/ HasField(b.territories, f, p)
      /\ \A p : \A f \in CD!HookTexts : HasField(x.hooks, f, p) =>
                   HasField(a.hooks, f, p) \/ HasField(b.hooks, f, p)
      /\ \A p : \A f \in CD!IdeaTexts \cup {"weakness"} : HasField(x.ideas, f, p) =>
                   HasField(a.ideas, f, p) \/ HasField(b.ideas, f, p)
      /\ \A e : HasField(x.ideas, "extensions", e) =>
                   HasField(a.ideas, "extensions", e) \/ HasField(b.ideas, "extensions", e)
  BY <1>1 DEF Comes
<1>3. ASSUME NEW p \in CD!RepairedTexts(x) PROVE p \in CD!RepairedTexts(a) \cup CD!RepairedTexts(b)
  BY <1>2, InRepaired
<1>4. ASSUME NEW p \in CD!WrittenTexts(x) PROVE p \in CD!WrittenTexts(a) \cup CD!WrittenTexts(b)
  BY <1>2, InWritten
<1> QED BY <1>3, <1>4

LEMMA NormalizedHas ==
    ASSUME NEW items, NEW kinds, NEW secondary, NEW f, f # "basis", NEW p,
           HasField(CD!NormalizedItems(items, kinds, secondary), f, p)
    PROVE  HasField(items, f, p)
<1>1. PICK normal : normal = CD!NormalizedItems(items, kinds, secondary)
  OBVIOUS
<1>2. /\ DOMAIN normal = DOMAIN items
      /\ \A i \in DOMAIN items : /\ DOMAIN normal[i] = DOMAIN items[i] \cup {"basis"}
                                 /\ \A g \in DOMAIN items[i] \ {"basis"} : normal[i][g] = items[i][g]
  BY <1>1, PreparedItems
<1> QED BY <1>1, <1>2 DEF HasField

LEMMA NormalizedComes == ASSUME NEW x PROVE Comes(CD!Normalized(x), x, x)
<1>1. ASSUME NEW f, NEW p, f \notin {"basis", "scores"}
      PROVE  /\ HasField(CD!Normalized(x).territories, f, p) => HasField(x.territories, f, p)
             /\ HasField(CD!Normalized(x).hooks, f, p) => HasField(x.hooks, f, p)
             /\ HasField(CD!Normalized(x).ideas, f, p) => HasField(x.ideas, f, p)
  BY <1>1, NormalizedHas DEF CD!Normalized
<1> QED BY <1>1 DEF Comes

LEMMA MergedHas ==
    ASSUME NEW items, NEW edits, NEW f, f \notin {"basis", "scores"}, NEW p,
           HasField(CD!Merged(items, edits), f, p)
    PROVE  HasField(items, f, p) \/ HasField(edits, f, p)
<1>1. PICK merged : merged = CD!Merged(items, edits)
  OBVIOUS
<1>2. PICK i \in DOMAIN merged : f \in DOMAIN merged[i] /\ p = merged[i][f]
  BY <1>1 DEF HasField
<1> DEFINE to == {e \in CD!Range(edits) : e.id = items[i].id}
<1>3. PICK edit : edit = CHOOSE e \in to : TRUE
  OBVIOUS
<1>4. i \in DOMAIN items
      /\ merged[i] = IF to = {} THEN items[i]
                     ELSE [g \in DOMAIN items[i] \cup DOMAIN edit |->
                             IF g \notin DOMAIN edit THEN items[i][g]
                             ELSE IF g = "scores" /\ g \in DOMAIN items[i]
                             THEN CD!Overlaid(items[i][g], edit[g]) ELSE edit[g]]
  BY <1>1, <1>3 DEF CD!Merged
<1>5. CASE to = {}
  BY <1>2, <1>4, <1>5 DEF HasField
<1>6. CASE to # {}
  <2>1. edit \in CD!Range(edits)
    BY <1>3, <1>6
  <2>2. PICK j \in DOMAIN edits : edit = edits[j]
    BY <2>1 DEF CD!Range
  <2> HIDE DEF to
  <2>3. f \in DOMAIN items[i] \cup DOMAIN edit
        /\ p = IF f \notin DOMAIN edit THEN items[i][f] ELSE edit[f]
    BY <1>2, <1>4, <1>6
  <2> QED BY <1>4, <2>2, <2>3 DEF HasField
<1> QED BY <1>5, <1>6

LEMMA PatchedComes ==
    ASSUME NEW previous, NEW answer, NEW x, x = CD!Patched(CD!Normalized(previous), answer)
    PROVE  Comes(x, previous, answer.x)
<1>1. PICK patch : patch = CD!Normalized(answer.x)
  OBVIOUS
<1>2. PICK base : base = CD!Normalized(previous)
  OBVIOUS
<1>3. Comes(patch, answer.x, answer.x) /\ Comes(base, previous, previous)
  BY <1>1, <1>2, NormalizedComes
<1>4. CASE x = patch
  BY <1>3, <1>4 DEF Comes
<1>5. CASE x = [g \in DOMAIN base |-> CD!Merged(base[g], patch[g])]
  <2>1. DOMAIN base = {"territories", "hooks", "ideas"}
    BY <1>2 DEF CD!Normalized
  <2>2. /\ x.territories = CD!Merged(base.territories, patch.territories)
        /\ x.hooks = CD!Merged(base.hooks, patch.hooks)
        /\ x.ideas = CD!Merged(base.ideas, patch.ideas)
    BY <1>5, <2>1
  <2>3. SUFFICES ASSUME NEW f, NEW p, f \notin {"basis", "scores"}
        PROVE /\ HasField(x.territories, f, p) => HasField(previous.territories, f, p) \/ HasField(answer.x.territories, f, p)
              /\ HasField(x.hooks, f, p) => HasField(previous.hooks, f, p) \/ HasField(answer.x.hooks, f, p)
              /\ HasField(x.ideas, f, p) => HasField(previous.ideas, f, p) \/ HasField(answer.x.ideas, f, p)
    BY DEF Comes
  <2>4. /\ HasField(x.territories, f, p) => HasField(base.territories, f, p) \/ HasField(patch.territories, f, p)
        /\ HasField(x.hooks, f, p) => HasField(base.hooks, f, p) \/ HasField(patch.hooks, f, p)
        /\ HasField(x.ideas, f, p) => HasField(base.ideas, f, p) \/ HasField(patch.ideas, f, p)
    BY <2>2, <2>3, MergedHas
  <2> QED BY <1>3, <2>3, <2>4 DEF Comes
<1> QED BY <1>1, <1>2, <1>4, <1>5 DEF CD!Patched

----------------------------------------------------------------------------
(* What may be said. *)

\* A text that may be said.
Clean(p) == IsList(p) /\ CD!Faults(p) \cap CD!Unsayable = {}

LEMMA ChosenAlikeDirector == ASSUME NEW s, NEW wanted PROVE CD!Chosen(s, wanted) = RV!Chosen(s, wanted)
<1>1. CD!ChosenUpTo(s, wanted) = RV!ChosenUpTo(s, wanted)
  BY DEF CD!ChosenUpTo, RV!ChosenUpTo
<1> QED BY <1>1 DEF CD!Chosen, RV!Chosen

LEMMA RangeAlikeDirector == ASSUME NEW s PROVE CD!Range(s) = RV!Range(s)
BY DEF CD!Range, RV!Range

LEMMA EmptyIsClean == Clean(<<>>)
<1>1. <<>> \in Seq({})
  OBVIOUS
<1>2. CD!Range(<<>>) = {}
  <2>1. DOMAIN <<>> = {}
    OBVIOUS
  <2> QED BY <2>1 DEF CD!Range
<1>3. IsList(<<>>)
  BY <1>1, SeqIsList
<1>4. CD!Faults(<<>>) = {}
  BY <1>2 DEF CD!Faults
<1> QED BY <1>3, <1>4 DEF Clean

LEMMA SafeIsClean == ASSUME NEW p, IsList(p) PROVE Clean(CD!Safe(p))
<1> DEFINE worded(i) == IF "execution" \in p[i].faults
                        THEN CD!Sentence(p[i].says \cup {"contrast"}, p[i].faults \ {"execution"})
                        ELSE p[i]
<1>1. PICK n \in Nat : n = Len(p) /\ DOMAIN p = 1 .. n
  BY DEF IsList
<1>2. PICK reworded : reworded = [i \in DOMAIN p |-> worded(i)]
  OBVIOUS
<1>3. PICK S : S = {worded(i) : i \in DOMAIN p}
  OBVIOUS
<1>4. reworded \in Seq(S)
  <2> HIDE DEF worded
  <2>1. reworded \in [1 .. n -> S]
    BY <1>1, <1>2, <1>3
  <2> QED BY <2>1, SeqDef
<1>5. PICK wanted : wanted = {s \in CD!Range(reworded) : s.faults \cap CD!Unsayable = {}}
  OBVIOUS
<1>6. PICK left : left = CD!Chosen(reworded, wanted)
  OBVIOUS
<1>7. left \in Seq(S) /\ CD!Range(left) \subseteq wanted
  BY <1>4, <1>6, ChosenIsWanted, ChosenAlikeDirector, RangeAlikeDirector
<1>8. CD!Faults(left) \cap CD!Unsayable = {}
  BY <1>5, <1>7 DEF CD!Faults
<1>9. Clean(left)
  BY <1>7, <1>8, SeqIsList DEF Clean
<1>10. CD!Safe(p) = <<>> \/ CD!Safe(p) = left
  BY <1>2, <1>5, <1>6 DEF CD!Safe
<1> QED BY <1>9, <1>10, EmptyIsClean

LEMMA SaidIsList == ASSUME NEW notions PROVE IsList(CD!Said(notions))
<1>1. PICK s : s = CD!Sentence(notions, {})
  OBVIOUS
<1>2. <<s>> \in Seq({s})
  OBVIOUS
<1> QED BY <1>1, <1>2, SeqIsList DEF CD!Said

LEMMA JoinedIsList == ASSUME NEW p, NEW q, IsList(q), NEW notion PROVE IsList(CD!Joined(p, q, notion))
<1>1. PICK s : CD!Joined(p, q, notion) = <<s>> \o (IF q = <<>> THEN <<>> ELSE Tail(q))
  BY DEF CD!Joined
<1>2. PICK S : S = RV!Range(q) \cup {s}
  OBVIOUS
<1>3. q \in Seq(S)
  BY <1>2 DEF IsList
<1>4. PICK rest : rest = IF q = <<>> THEN <<>> ELSE Tail(q)
  OBVIOUS
<1>5. rest \in Seq(S) /\ <<s>> \in Seq(S)
  BY <1>2, <1>3, <1>4
<1>6. PICK one : one = <<s>>
  OBVIOUS
<1>7. one \o rest \in Seq(S)
  BY <1>5, <1>6
<1> QED BY <1>1, <1>4, <1>6, <1>7, SeqIsList

LEMMA SafeObjectClean ==
    ASSUME NEW x, \A p \in CD!RepairedTexts(x) : IsList(p), NEW safe, safe = CD!SafeObject(x)
    PROVE  /\ DOMAIN safe.territories = DOMAIN x.territories
           /\ DOMAIN safe.hooks = DOMAIN x.hooks /\ DOMAIN safe.ideas = DOMAIN x.ideas
           /\ \A i \in DOMAIN x.territories :
                 /\ DOMAIN safe.territories[i] = DOMAIN x.territories[i]
                 /\ \A f \in CD!TerritoryTexts \cap DOMAIN x.territories[i] : Clean(safe.territories[i][f])
           /\ \A i \in DOMAIN x.hooks :
                 /\ DOMAIN safe.hooks[i] = DOMAIN x.hooks[i]
                 /\ \A f \in CD!HookTexts \cap DOMAIN x.hooks[i] : Clean(safe.hooks[i][f])
           /\ \A i \in DOMAIN x.ideas :
                 /\ DOMAIN safe.ideas[i] = DOMAIN x.ideas[i]
                 /\ \A f \in CD!IdeaTexts \cap DOMAIN x.ideas[i] : Clean(safe.ideas[i][f])
<1>1. /\ safe.territories = [i \in DOMAIN x.territories |-> CD!SafeFields(x.territories[i], CD!TerritoryTexts)]
      /\ safe.hooks = [i \in DOMAIN x.hooks |-> CD!SafeFields(x.hooks[i], CD!HookTexts)]
  BY DEF CD!SafeObject
<1>2. /\ \A i \in DOMAIN x.territories : \A f \in CD!TerritoryTexts \cap DOMAIN x.territories[i] :
            IsList(x.territories[i][f])
      /\ \A i \in DOMAIN x.hooks : \A f \in CD!HookTexts \cap DOMAIN x.hooks[i] : IsList(x.hooks[i][f])
      /\ \A i \in DOMAIN x.ideas : \A f \in CD!IdeaTexts \cap DOMAIN x.ideas[i] : IsList(x.ideas[i][f])
  BY InRepaired DEF HasField
<1>3. \A i \in DOMAIN x.territories :
         /\ DOMAIN safe.territories[i] = DOMAIN x.territories[i]
         /\ \A f \in CD!TerritoryTexts \cap DOMAIN x.territories[i] : Clean(safe.territories[i][f])
  BY <1>1, <1>2, SafeIsClean DEF CD!SafeFields
<1>4. \A i \in DOMAIN x.hooks :
         /\ DOMAIN safe.hooks[i] = DOMAIN x.hooks[i]
         /\ \A f \in CD!HookTexts \cap DOMAIN x.hooks[i] : Clean(safe.hooks[i][f])
  BY <1>1, <1>2, SafeIsClean DEF CD!SafeFields
<1>5. \A i \in DOMAIN x.ideas :
         /\ DOMAIN safe.ideas[i] = DOMAIN x.ideas[i]
         /\ \A f \in CD!IdeaTexts \cap DOMAIN x.ideas[i] : Clean(safe.ideas[i][f])
  <2> SUFFICES ASSUME NEW i \in DOMAIN x.ideas
               PROVE  /\ DOMAIN safe.ideas[i] = DOMAIN x.ideas[i]
                      /\ \A f \in CD!IdeaTexts \cap DOMAIN x.ideas[i] : Clean(safe.ideas[i][f])
    OBVIOUS
  <2>1. PICK c : c = CD!SafeFields(x.ideas[i], CD!IdeaTexts)
    OBVIOUS
  <2>2. DOMAIN c = DOMAIN x.ideas[i]
        /\ \A f \in CD!IdeaTexts \cap DOMAIN x.ideas[i] : Clean(c[f])
    BY <1>2, <2>1, SafeIsClean DEF CD!SafeFields
  <2>3. PICK rest : safe.ideas[i] = [f \in DOMAIN c |-> IF f # "extensions" THEN c[f] ELSE rest]
    BY <2>1 DEF CD!SafeObject
  <2>4. "extensions" \notin CD!IdeaTexts
    BY DEF CD!IdeaTexts
  <2> QED BY <2>2, <2>3, <2>4
<1>6. DOMAIN safe.ideas = DOMAIN x.ideas
  BY DEF CD!SafeObject
<1> QED BY <1>1, <1>3, <1>4, <1>5, <1>6

LEMMA ReferredIsList ==
    ASSUME NEW items, NEW field, \A i \in DOMAIN items : IsList(items[i][field]), NEW id, NEW default, IsList(default)
    PROVE  IsList(CD!Referred(items, id, field, default))
<1>1. CASE id \in CD!Ids(items)
  <2>1. CD!ById(items, id) \in CD!Range(items)
    BY <1>1 DEF CD!ById, CD!Ids
  <2>2. PICK i \in DOMAIN items : CD!ById(items, id) = items[i]
    BY <2>1 DEF CD!Range
  <2> QED BY <1>1, <2>2 DEF CD!Referred
<1>2. CASE id \notin CD!Ids(items)
  BY <1>2 DEF CD!Referred
<1> QED BY <1>1, <1>2

LEMMA ReframedTerritoryClean ==
    ASSUME NEW t, DOMAIN t = CD!TerritoryFields, \A f \in CD!TerritoryTexts : Clean(t[f])
    PROVE  \A f \in CD!TerritoryTexts : Clean(CD!ReframedTerritory(t)[f])
<1>1. CD!TerritoryTexts \subseteq DOMAIN t /\ {"premise", "creative_tension", "name"} \subseteq CD!TerritoryTexts
  BY DEF CD!TerritoryFields, CD!TerritoryTexts
<1>2. PICK joined : joined = CD!Joined(t.name, t.creative_tension, "shift")
  OBVIOUS
<1>3. IsList(joined)
  BY <1>1, <1>2, JoinedIsList DEF Clean
<1>4. PICK safe : safe = CD!Safe(joined)
  OBVIOUS
<1>5. Clean(safe)
  BY <1>3, <1>4, SafeIsClean
<1>6. CD!ReframedTerritory(t) = t \/ CD!ReframedTerritory(t) = [t EXCEPT !.premise = safe]
  BY <1>2, <1>4 DEF CD!ReframedTerritory
<1> QED BY <1>1, <1>5, <1>6

LEMMA ReframedIdeaClean ==
    ASSUME NEW c, CD!IdeaTexts \subseteq DOMAIN c, \A f \in CD!IdeaTexts : Clean(c[f]), NEW x, NEW brief,
           \A i \in DOMAIN x.hooks : IsList(x.hooks[i].symbol)
    PROVE  \A f \in CD!IdeaTexts : Clean(CD!ReframedIdea(c, x, brief)[f])
<1>1. PICK name : name = CD!Referred(x.territories, c.territory_id, "name", CD!Said({"tension"}))
  OBVIOUS
<1>2. PICK symbol : symbol = CD!Referred(x.hooks, c.visual_hook_id, "symbol", CD!Said({"transformation"}))
  OBVIOUS
<1>3. IsList(symbol)
  BY <1>2, ReferredIsList, SaidIsList
<1>4. PICK joined : joined = CD!Joined(name, symbol, "metaphor")
  OBVIOUS
<1>5. PICK safe : safe = CD!Safe(joined)
  OBVIOUS
<1>6. Clean(safe)
  BY <1>3, <1>4, <1>5, JoinedIsList, SafeIsClean
<1>7. CD!ReframedIdea(c, x, brief) = c \/ CD!ReframedIdea(c, x, brief) = [c EXCEPT !.idea = safe]
  BY <1>1, <1>2, <1>4, <1>5 DEF CD!ReframedIdea
<1> QED BY <1>6, <1>7

\* A repair leaves no sentence that may not be said, whatever it was given.
LEMMA StabilizedIsClean ==
    ASSUME NEW x, \A p \in CD!RepairedTexts(x) : IsList(p), NEW brief
    PROVE  \A p \in CD!RepairedTexts(CD!Stabilized(x, brief)) : Clean(p)
<1>1. PICK safe : safe = CD!SafeObject(x)
  OBVIOUS
<1>2. /\ DOMAIN safe.territories = DOMAIN x.territories
      /\ DOMAIN safe.hooks = DOMAIN x.hooks /\ DOMAIN safe.ideas = DOMAIN x.ideas
      /\ \A i \in DOMAIN x.territories :
            /\ DOMAIN safe.territories[i] = DOMAIN x.territories[i]
            /\ \A f \in CD!TerritoryTexts \cap DOMAIN x.territories[i] : Clean(safe.territories[i][f])
      /\ \A i \in DOMAIN x.hooks :
            /\ DOMAIN safe.hooks[i] = DOMAIN x.hooks[i]
            /\ \A f \in CD!HookTexts \cap DOMAIN x.hooks[i] : Clean(safe.hooks[i][f])
      /\ \A i \in DOMAIN x.ideas :
            /\ DOMAIN safe.ideas[i] = DOMAIN x.ideas[i]
            /\ \A f \in CD!IdeaTexts \cap DOMAIN x.ideas[i] : Clean(safe.ideas[i][f])
  BY <1>1, SafeObjectClean
<1>3. CASE ~ CD!Complete(x)
  <2>1. CD!Stabilized(x, brief) = safe
    BY <1>1, <1>3 DEF CD!Stabilized
  <2>2. /\ \A f \in CD!TerritoryTexts : \A p : HasField(safe.territories, f, p) => Clean(p)
        /\ \A f \in CD!HookTexts : \A p : HasField(safe.hooks, f, p) => Clean(p)
        /\ \A f \in CD!IdeaTexts : \A p : HasField(safe.ideas, f, p) => Clean(p)
    BY <1>2 DEF HasField
  <2> QED BY <2>1, <2>2, InRepaired
<1>4. CASE CD!Complete(x)
  <2>1. PICK stable : stable = CD!Stabilized(x, brief)
    OBVIOUS
  <2>2. DOMAIN safe = {"territories", "hooks", "ideas"}
    BY <1>1 DEF CD!SafeObject
  <2>3. stable = [safe EXCEPT
               !.territories = [i \in DOMAIN @ |-> CD!ReframedTerritory(@[i])],
               !.ideas = [i \in DOMAIN @ |-> CD!ReframedIdea(@[i], safe, brief)]]
    BY <1>1, <1>4, <2>1 DEF CD!Stabilized
  <2>4. /\ stable.territories = [i \in DOMAIN safe.territories |-> CD!ReframedTerritory(safe.territories[i])]
        /\ stable.ideas = [i \in DOMAIN safe.ideas |-> CD!ReframedIdea(safe.ideas[i], safe, brief)]
        /\ stable.hooks = safe.hooks
    BY <2>2, <2>3
  <2>5. /\ \A i \in DOMAIN x.territories : DOMAIN x.territories[i] = CD!TerritoryFields
        /\ \A i \in DOMAIN x.hooks : DOMAIN x.hooks[i] = CD!HookFields
        /\ \A i \in DOMAIN x.ideas : DOMAIN x.ideas[i] = CD!IdeaFields
    BY <1>4 DEF CD!Complete, CD!Range
  <2>6. /\ CD!TerritoryTexts \subseteq CD!TerritoryFields /\ CD!HookTexts \subseteq CD!HookFields
        /\ CD!IdeaTexts \subseteq CD!IdeaFields /\ "symbol" \in CD!HookTexts
    BY DEF CD!TerritoryFields, CD!HookFields, CD!IdeaFields, CD!HookTexts
  <2>7. \A i \in DOMAIN safe.territories : \A f \in CD!TerritoryTexts : Clean(stable.territories[i][f])
    BY <1>2, <2>4, <2>5, <2>6, ReframedTerritoryClean
  <2>8. \A i \in DOMAIN safe.hooks : \A f \in CD!HookTexts : Clean(safe.hooks[i][f])
    BY <1>2, <2>5, <2>6
  <2>9. \A i \in DOMAIN safe.hooks : IsList(safe.hooks[i].symbol)
    BY <2>6, <2>8 DEF Clean
  <2>10. \A i \in DOMAIN safe.ideas : CD!IdeaTexts \subseteq DOMAIN safe.ideas[i]
                                      /\ \A f \in CD!IdeaTexts : Clean(safe.ideas[i][f])
    BY <1>2, <2>5, <2>6
  <2>11. \A i \in DOMAIN safe.ideas : \A f \in CD!IdeaTexts : Clean(stable.ideas[i][f])
    BY <2>4, <2>9, <2>10, ReframedIdeaClean
  <2>12. /\ \A f \in CD!TerritoryTexts : \A p : HasField(stable.territories, f, p) => Clean(p)
         /\ \A f \in CD!HookTexts : \A p : HasField(stable.hooks, f, p) => Clean(p)
         /\ \A f \in CD!IdeaTexts : \A p : HasField(stable.ideas, f, p) => Clean(p)
    BY <2>4, <2>7, <2>8, <2>11 DEF HasField
  <2> QED BY <2>1, <2>12, InRepaired
<1> QED BY <1>3, <1>4

\* What is published is what was written, when no code changed it.
LEMMA PublishedIsWritten ==
    ASSUME NEW x, CD!Complete(CD!Normalized(x)), NEW allowed, NEW y, y = CD!WithCanonicalBasis(CD!Normalized(x), allowed)
    PROVE  CD!AllTexts(y) \subseteq CD!WrittenTexts(x)
<1>1. Kept(x.territories, y.territories) /\ Kept(x.hooks, y.hooks) /\ Kept(x.ideas, y.ideas)
  BY PreparedKeeps
<1>2. ASSUME NEW items, NEW kinds, NEW secondary, NEW fields, NEW texts, texts \subseteq fields \ {"basis"},
             \A t \in CD!Range(CD!NormalizedItems(items, kinds, secondary)) : DOMAIN t = fields,
             NEW given, Kept(items, given), NEW i \in DOMAIN given, NEW f \in texts
      PROVE  HasField(items, f, given[i][f])
  <2>1. PICK normal : normal = CD!NormalizedItems(items, kinds, secondary)
    OBVIOUS
  <2>2. DOMAIN normal = DOMAIN items /\ \A j \in DOMAIN items : DOMAIN normal[j] = DOMAIN items[j] \cup {"basis"}
    BY <2>1, PreparedItems
  <2>3. i \in DOMAIN items
    BY <1>2 DEF Kept
  <2>4. DOMAIN normal[i] = fields
    BY <1>2, <2>1, <2>2, <2>3 DEF CD!Range
  <2>5. f \in DOMAIN items[i] /\ f # "basis"
    BY <1>2, <2>2, <2>3, <2>4
  <2>6. given[i][f] = items[i][f]
    BY <1>2, <2>3, <2>5 DEF Kept
  <2> QED BY <2>3, <2>5, <2>6 DEF HasField
<1>3. /\ \A t \in CD!Range(CD!NormalizedItems(x.territories, {"audience"}, CD!AudienceTension)) : DOMAIN t = CD!TerritoryFields
      /\ \A t \in CD!Range(CD!NormalizedItems(x.hooks, {"brand"}, CD!BrandIdentity)) : DOMAIN t = CD!HookFields
      /\ \A t \in CD!Range(CD!NormalizedItems(x.ideas, CD!EvidenceKinds, CD!AudienceTarget)) : DOMAIN t = CD!IdeaFields
  BY DEF CD!Complete, CD!Normalized
<1>4. /\ CD!TerritoryTexts \subseteq CD!TerritoryFields \ {"basis"} /\ CD!HookTexts \subseteq CD!HookFields \ {"basis"}
      /\ CD!IdeaTexts \cup {"weakness", "extensions"} \subseteq CD!IdeaFields \ {"basis"}
  BY DEF CD!TerritoryFields, CD!HookFields, CD!IdeaFields, CD!HookTexts, CD!TerritoryTexts, CD!IdeaTexts
<1>5. \A i \in DOMAIN y.territories : \A f \in CD!TerritoryTexts : HasField(x.territories, f, y.territories[i][f])
  BY <1>1, <1>2, <1>3, <1>4
<1>6. \A i \in DOMAIN y.hooks : \A f \in CD!HookTexts : HasField(x.hooks, f, y.hooks[i][f])
  BY <1>1, <1>2, <1>3, <1>4
<1>7. \A i \in DOMAIN y.ideas : \A f \in CD!IdeaTexts \cup {"weakness", "extensions"} :
         HasField(x.ideas, f, y.ideas[i][f])
  BY <1>1, <1>2, <1>3, <1>4
<1>8. ASSUME NEW p \in CD!AllTexts(y)
      PROVE  \/ \E i \in DOMAIN y.territories : \E f \in CD!TerritoryTexts : p = y.territories[i][f]
             \/ \E i \in DOMAIN y.hooks : \E f \in CD!HookTexts : p = y.hooks[i][f]
             \/ \E i \in DOMAIN y.ideas : \E f \in CD!IdeaTexts \cup {"weakness"} : p = y.ideas[i][f]
             \/ \E i \in DOMAIN y.ideas : p \in CD!Range(y.ideas[i].extensions)
  BY DEF CD!AllTexts, CD!Range
<1>9. ASSUME NEW p \in CD!AllTexts(y) PROVE p \in CD!WrittenTexts(x)
  <2>1. CASE \E i \in DOMAIN y.territories : \E f \in CD!TerritoryTexts : p = y.territories[i][f]
    BY <1>5, <2>1, InWritten
  <2>2. CASE \E i \in DOMAIN y.hooks : \E f \in CD!HookTexts : p = y.hooks[i][f]
    BY <1>6, <2>2, InWritten
  <2>3. CASE \E i \in DOMAIN y.ideas : \E f \in CD!IdeaTexts \cup {"weakness"} : p = y.ideas[i][f]
    BY <1>7, <2>3, InWritten
  <2>4. CASE \E i \in DOMAIN y.ideas : p \in CD!Range(y.ideas[i].extensions)
    BY <1>7, <2>4, InWritten
  <2> QED BY <1>8, <2>1, <2>2, <2>3, <2>4
<1> QED BY <1>9

----------------------------------------------------------------------------
(* The creative director. *)

\* The texts of the model's answers.
Answered == UNION {CD!WrittenTexts(a.x) : a \in Answers["creative_director"] \ {Unparsed}}

\* A candidate that may be kept: its texts are lists, after a correction without a
\* sentence that may not be said; and what code has written in it is noted.
Remembered(candidate, notes, corrected) ==
    /\ notes \subseteq Noted
    /\ candidate # CD!NoObject =>
          /\ \A p \in CD!RepairedTexts(candidate.x) : IsList(p) /\ (corrected => Clean(p))
          /\ notes = {} => CD!WrittenTexts(candidate.x) \subseteq Answered

\* A rewritten text is announced.
Disclosed(direction) ==
    \/ \E i \in DOMAIN direction.limitations : direction.limitations[i] \in Noted
    \/ CD!AllTexts(direction.exploration) \subseteq Answered

CreativeInv ==
    agent = "creative_director" =>
       /\ input \in Inputs["creative_director"]
       /\ status = "asking" /\ calls # 0 => Remembered(kept.candidate, kept.notes, calls > 1)
       /\ status = "done" => Upright(output, input) /\ Disclosed(output)

LEMMA CreativeInvInit == Init => CreativeInv
BY DEF Init, CreativeInv

LEMMA CreativeElsewhere == ASSUME agent' # "creative_director" PROVE CreativeInv'
BY DEF CreativeInv

LEMMA AnsweredIsListed ==
    ASSUME NEW answer \in Answers["creative_director"], answer # CD!NoObject
    PROVE  /\ \A p \in CD!RepairedTexts(answer.x) : IsList(p)
           /\ CD!WrittenTexts(answer.x) \subseteq Answered
<1>1. answer \in Answers["creative_director"] \ {Unparsed}
  BY DEF Unparsed
<1>2. \A p \in CD!RepairedTexts(answer.x) : p \in Seq(CD!Range(p))
  BY <1>1, CreativeInputs
<1>3. \A p \in CD!RepairedTexts(answer.x) : IsList(p)
  BY <1>2, SeqIsList
<1> QED BY <1>1, <1>3 DEF Answered

\* What is published without errors is sound and, if code has rewritten it, says so.
LEMMA PublishedIsSound ==
    ASSUME NEW brief \in Inputs["creative_director"], NEW candidate, CD!CandidateErrors(candidate, brief) = {},
           NEW notes, notes \subseteq Noted, notes = {} => CD!WrittenTexts(candidate.x) \subseteq Answered,
           NEW direction, direction = CD!Direction(candidate.x, brief, notes)
    PROVE  Upright(direction, brief) /\ Disclosed(direction)
<1>1. Upright(direction, brief)
  BY DirectionUpright
<1>2. CASE notes = {}
  <2>1. PICK x : x = candidate.x
    OBVIOUS
  <2>2. PICK y : y = CD!WithCanonicalBasis(CD!Normalized(x), brief.allowed)
    OBVIOUS
  <2>3. CD!Complete(CD!Normalized(x))
    BY <2>1, <2>2, NoErrorsIn
  <2>4. direction.exploration = y
    BY <2>1, <2>2 DEF CD!Direction
  <2>5. CD!AllTexts(y) \subseteq CD!WrittenTexts(x)
    BY <2>2, <2>3, PublishedIsWritten
  <2> QED BY <1>1, <1>2, <2>1, <2>4, <2>5 DEF Disclosed
<1>3. CASE notes # {}
  <2>1. brief.limitations \in Seq(CD!Range(brief.limitations)) /\ Len(brief.limitations) + 2 <= CD!MaxLimitations
    BY CreativeInputs
  <2>2. direction.limitations = CD!Shortened(brief.limitations \o CD!Announced(notes))
    BY DEF CD!Direction
  <2>3. notes \cap Noted # {}
    BY <1>3
  <2>4. \E i \in DOMAIN direction.limitations : direction.limitations[i] \in Noted
    BY <2>1, <2>2, <2>3, RepairAnnounced
  <2> QED BY <1>1, <2>4 DEF Disclosed
<1> QED BY <1>2, <1>3

LEMMA Judged ==
    ASSUME agent = "creative_director", input \in Inputs["creative_director"], status = "asking",
           calls \in Nat, calls' = calls + 1,
           NEW candidate, NEW notes, notes \subseteq Noted,
           candidate # CD!NoObject /\ notes = {} => CD!WrittenTexts(candidate.x) \subseteq Answered,
           calls < CD!Corrections => Remembered(candidate, notes, calls > 0),
           Judge(candidate, notes)
    PROVE  CreativeInv'
<1>1. PICK errors : errors = CD!CandidateErrors(candidate, input)
  OBVIOUS
<1>2. PICK related : related = CD!Object(CD!Related(candidate.x, errors))
  OBVIOUS
<1>3. \/ errors = {} /\ Return(CD!Direction(candidate.x, input, notes))
      \/ calls < CD!Corrections /\ Remember([candidate |-> candidate, errors |-> errors, notes |-> notes])
      \/ Refuse
      \/ /\ CD!CandidateErrors(related, input) = {}
         /\ Return(CD!Direction(related.x, input, notes \cup {"related"}))
  BY <1>1, <1>2 DEF Judge
<1>4. CASE errors = {} /\ Return(CD!Direction(candidate.x, input, notes))
  <2>1. candidate # CD!NoObject
    BY <1>1, <1>4, NoErrorsIn
  <2>2. PICK direction : direction = CD!Direction(candidate.x, input, notes)
    OBVIOUS
  <2>3. Upright(direction, input) /\ Disclosed(direction)
    BY <1>1, <1>4, <2>1, <2>2, PublishedIsSound
  <2> QED BY <1>4, <2>2, <2>3 DEF Return, CreativeInv
<1>5. CASE calls < CD!Corrections /\ Remember([candidate |-> candidate, errors |-> errors, notes |-> notes])
  <2>1. /\ kept'.candidate = candidate /\ kept'.notes = notes
        /\ UNCHANGED <<agent, input, status>>
    BY <1>5 DEF Remember
  <2>2. (calls > 0) = (calls' > 1)
    OBVIOUS
  <2>3. Remembered(candidate, notes, calls' > 1)
    BY <1>5, <2>2
  <2> QED BY <1>5, <2>1, <2>3 DEF CreativeInv
<1>6. CASE Refuse
  BY <1>6 DEF Refuse, CreativeInv
<1>7. CASE /\ CD!CandidateErrors(related, input) = {}
           /\ Return(CD!Direction(related.x, input, notes \cup {"related"}))
  <2>1. PICK direction : direction = CD!Direction(related.x, input, notes \cup {"related"})
    OBVIOUS
  <2>2. PICK all : all = notes \cup {"related"}
    OBVIOUS
  <2>3. all \subseteq Noted /\ all # {}
    BY <2>2 DEF Noted
  <2>4. Upright(direction, input) /\ Disclosed(direction)
    BY <1>7, <2>1, <2>2, <2>3, PublishedIsSound
  <2> QED BY <1>7, <2>1, <2>4 DEF Return, CreativeInv
<1> QED BY <1>3, <1>4, <1>5, <1>6, <1>7

\* A correction that is kept is clean; one that code did not write in is the model's.
LEMMA CorrectionIsClean ==
    ASSUME NEW brief, NEW previous, NEW notes, NEW errors, NEW answer \in Answers["creative_director"], NEW last \in BOOLEAN,
           Remembered(previous, notes, FALSE),
           NEW next, next = CD!Correction(brief, previous, errors, answer, last),
           next.candidate # CD!Refused
    PROVE  /\ last = FALSE => Remembered(next.candidate, notes \cup next.notes, TRUE)
           /\ notes \cup next.notes \subseteq Noted
           /\ next.candidate # CD!NoObject /\ notes \cup next.notes = {} =>
                 CD!WrittenTexts(next.candidate.x) \subseteq Answered
<1>0. notes \subseteq Noted
  BY DEF Remembered
<1> DEFINE regenerated == previous = CD!NoObject \/ CD!NeedsRegeneration(errors)
<1>1. PICK repaired : repaired = IF regenerated THEN CD!Normalized(answer.x)
                                 ELSE CD!Patched(CD!Normalized(previous.x), answer)
  OBVIOUS
<1>2. PICK stable : stable = CD!Stabilized(repaired, brief)
  OBVIOUS
<1>3. PICK relate \in BOOLEAN : relate = (last /\ CD!Repairable(errors) /\ CD!Complete(stable))
  OBVIOUS
<1>4. PICK related : related = IF relate THEN CD!Related(stable, errors) ELSE stable
  OBVIOUS
<1>5. \/ answer = CD!NoObject /\ next = [candidate |-> CD!NoObject, notes |-> {}]
      \/ /\ answer # CD!NoObject
         /\ next = [candidate |-> CD!Object(related), notes |-> CD!RepairNotes(stable # repaired, relate)]
  <2> HIDE DEF regenerated
  <2>1. DOMAIN next = {"candidate", "notes"}
    BY DEF CD!Correction
  <2> USE DEF regenerated
  <2> QED BY <1>1, <1>2, <1>3, <1>4 DEF CD!Correction
<1>6. CASE answer = CD!NoObject /\ next = [candidate |-> CD!NoObject, notes |-> {}]
  BY <1>0, <1>6 DEF Remembered
<1>7. CASE /\ answer # CD!NoObject
           /\ next = [candidate |-> CD!Object(related), notes |-> CD!RepairNotes(stable # repaired, relate)]
  <2>1. next.candidate.x = related /\ next.notes = CD!RepairNotes(stable # repaired, relate)
    BY <1>7 DEF CD!Object
  <2>2. next.notes \subseteq Noted /\ (next.notes = {} => stable = repaired /\ ~ relate)
    BY <2>1 DEF CD!RepairNotes, Noted
  <2>3. /\ \A p \in CD!RepairedTexts(answer.x) : IsList(p)
        /\ CD!WrittenTexts(answer.x) \subseteq Answered
    BY <1>7, AnsweredIsListed
  <2>4. /\ \A p \in CD!RepairedTexts(repaired) : IsList(p)
        /\ notes = {} => CD!WrittenTexts(repaired) \subseteq Answered
    <3>1. CASE regenerated
      <4>1. Comes(repaired, answer.x, answer.x)
        BY <1>1, <3>1, NormalizedComes
      <4> QED BY <2>3, <4>1, TextsCome
    <3>2. CASE ~ regenerated
      <4>1. Comes(repaired, previous.x, answer.x)
        BY <1>1, <3>2, PatchedComes
      <4>2. previous # CD!NoObject
        BY <3>2
      <4>3. /\ \A p \in CD!RepairedTexts(previous.x) : IsList(p)
            /\ notes = {} => CD!WrittenTexts(previous.x) \subseteq Answered
        BY <4>2 DEF Remembered
      <4> QED BY <2>3, <4>1, <4>3, TextsCome
    <3> QED BY <3>1, <3>2
  <2>5. \A p \in CD!RepairedTexts(stable) : Clean(p)
    BY <1>2, <2>4, StabilizedIsClean
  <2>6. notes \cup next.notes = {} => CD!WrittenTexts(related) \subseteq Answered
    BY <1>4, <2>2, <2>4
  <2>7. ASSUME last = FALSE PROVE \A p \in CD!RepairedTexts(related) : IsList(p) /\ Clean(p)
    BY <1>3, <1>4, <2>5, <2>7 DEF Clean
  <2> QED BY <1>0, <2>1, <2>2, <2>6, <2>7 DEF Remembered
<1> QED BY <1>5, <1>6, <1>7

LEMMA Directs == ASSUME CallsInv, CreativeInv, Direct PROVE CreativeInv'
<1>1. /\ agent = "creative_director" /\ status = "asking" /\ calls' = calls + 1 /\ calls = 0
      /\ input \in Inputs["creative_director"]
  BY DEF Direct, Asking, CreativeInv
<1>2. PICK answer \in Answers["creative_director"] : Judge(answer, {})
  BY <1>1 DEF Direct
<1>3. Remembered(answer, {}, FALSE)
  BY AnsweredIsListed DEF Remembered
<1>4. (calls > 0) = FALSE
  BY <1>1
<1>5. Remembered(answer, {}, calls > 0)
  BY <1>3, <1>4
<1> QED BY <1>1, <1>2, <1>3, <1>5, Judged DEF Remembered

LEMMA CorrectsDirection == ASSUME CallsInv, CreativeInv, CorrectDirection PROVE CreativeInv'
<1>1. /\ agent = "creative_director" /\ status = "asking" /\ calls' = calls + 1 /\ calls > 0
      /\ input \in Inputs["creative_director"]
  BY DEF CorrectDirection, Asking, CreativeInv
<1>2. calls \in Nat
  BY <1>1 DEF CallsInv, TypeOK, CallBudget, CD!Corrections
<1>3. Remembered(kept.candidate, kept.notes, calls > 1)
  BY <1>1, <1>2 DEF CreativeInv
<1>4. Remembered(kept.candidate, kept.notes, FALSE)
  BY <1>3 DEF Remembered
<1>5. PICK answer \in Answers["creative_director"] :
         LET next == CD!Correction(input, kept.candidate, kept.errors, answer, calls = CD!Corrections)
         IN  IF next.candidate = CD!Refused THEN Refuse ELSE Judge(next.candidate, kept.notes \cup next.notes)
  BY <1>1 DEF CorrectDirection
<1>6. PICK next :
         /\ next = CD!Correction(input, kept.candidate, kept.errors, answer, calls = CD!Corrections)
         /\ IF next.candidate = CD!Refused THEN Refuse ELSE Judge(next.candidate, kept.notes \cup next.notes)
  BY <1>5
<1>7. CASE next.candidate = CD!Refused
  BY <1>1, <1>6, <1>7 DEF Refuse, CreativeInv
<1>8. CASE next.candidate # CD!Refused
  <2>1. PICK last \in BOOLEAN :
           /\ next = CD!Correction(input, kept.candidate, kept.errors, answer, last)
           /\ calls < CD!Corrections => last = FALSE
    <3>1. CASE calls = CD!Corrections
      <4>1. (calls = CD!Corrections) = TRUE /\ ~ calls < CD!Corrections
        BY <1>2, <3>1
      <4>2. next = CD!Correction(input, kept.candidate, kept.errors, answer, TRUE)
        BY <1>6, <4>1
      <4> QED BY <4>1, <4>2
    <3>2. CASE calls # CD!Corrections
      <4>1. (calls = CD!Corrections) = FALSE
        BY <3>2
      <4>2. next = CD!Correction(input, kept.candidate, kept.errors, answer, FALSE)
        BY <1>6, <4>1
      <4> QED BY <4>2
    <3> QED BY <3>1, <3>2
  <2>2. PICK notes : notes = kept.notes \cup next.notes
    OBVIOUS
  <2>3. /\ last = FALSE => Remembered(next.candidate, notes, TRUE)
        /\ notes \subseteq Noted
        /\ next.candidate # CD!NoObject /\ notes = {} => CD!WrittenTexts(next.candidate.x) \subseteq Answered
    <3>1. PICK previous, given, errors :
             previous = kept.candidate /\ given = kept.notes /\ errors = kept.errors
      OBVIOUS
    <3>2. Remembered(previous, given, FALSE) /\ notes = given \cup next.notes
      BY <1>4, <2>2, <3>1
    <3>3. next = CD!Correction(input, previous, errors, answer, last)
      BY <2>1, <3>1
    <3>4. /\ last = FALSE => Remembered(next.candidate, given \cup next.notes, TRUE)
          /\ given \cup next.notes \subseteq Noted
          /\ next.candidate # CD!NoObject /\ given \cup next.notes = {} =>
                CD!WrittenTexts(next.candidate.x) \subseteq Answered
      BY ONLY <1>8, <3>2, <3>3, CorrectionIsClean
    <3> QED BY <3>2, <3>4
  <2>5. (calls > 0) = TRUE
    BY <1>1
  <2>6. calls < CD!Corrections => Remembered(next.candidate, notes, calls > 0)
    BY <2>1, <2>3, <2>5
  <2>7. Judge(next.candidate, notes)
    BY <1>6, <1>8, <2>2
  <2> QED BY <1>1, <1>2, <2>3, <2>6, <2>7, Judged
<1> QED BY <1>7, <1>8

LEMMA CreativeInvNext == CallsInv /\ CreativeInv /\ [Next]_vars => CreativeInv'
<1> SUFFICES ASSUME CallsInv, CreativeInv, [Next]_vars PROVE CreativeInv'
  OBVIOUS
<1>1. CASE UNCHANGED vars
  BY <1>1 DEF vars, CreativeInv
<1>2. CASE Write \/ Shrink
  <2>1. agent' = "copywriter"
    BY <1>2 DEF Write, Shrink, Asking, Return, Refuse, Remember
  <2> QED BY <2>1, CreativeElsewhere
<1>3. CASE HandToArtDirector \/ ArtDirect \/ HandToSpec \/ CompileSpec
  <2>1. agent' \in {"art_director", "design_spec"}
    <3>1. HandToArtDirector \/ HandToSpec => agent' \in {"art_director", "design_spec"}
      BY DEF HandToArtDirector, HandToSpec, Start, Refuse
    <3>2. ArtDirect => agent' = "art_director"
      BY DEF ArtDirect, Asking, Return, Refuse, Remember
    <3>3. CompileSpec => agent' = "design_spec"
      BY DEF CompileSpec, Asking, Return, Refuse, Remember
    <3> QED BY <1>3, <3>1, <3>2, <3>3
  <2> QED BY <2>1, CreativeElsewhere
<1>4. CASE RejectInput \/ StorageUnavailable
  <2>1. agent' = agent /\ agent # "creative_director"
    <3>1. ASSUME RejectInput PROVE agent # "creative_director"
      BY <3>1 DEF RejectInput, Unfit, Witnesses, RV!ReadBy
    <3>2. ASSUME StorageUnavailable PROVE agent # "creative_director"
      BY <3>2 DEF StorageUnavailable
    <3> QED BY <1>4, <3>1, <3>2 DEF RejectInput, StorageUnavailable, Refuse
  <2> QED BY <2>1, CreativeElsewhere
<1>5. CASE ProviderFails
  <2>1. status' = "provider_failed" /\ UNCHANGED <<agent, input>>
    BY <1>5 DEF ProviderFails
  <2> QED BY <2>1 DEF CreativeInv
<1>6. CASE Next /\ agent' \notin Makers
  BY <1>6, CreativeElsewhere DEF Makers
<1> QED BY <1>1, <1>2, <1>3, <1>4, <1>5, <1>6, MadeElsewhere, Directs, CorrectsDirection DEF Next

LEMMA GuardedNext == FindingsInv /\ OriginalityGuarded /\ [Next]_vars => OriginalityGuarded'
<1> SUFFICES ASSUME FindingsInv, OriginalityGuarded, [Next]_vars PROVE OriginalityGuarded'
  OBVIOUS
<1>1. CASE UNCHANGED vars
  BY <1>1 DEF vars, OriginalityGuarded, Done
<1>2. CASE ValidateReferences
  BY <1>2, ReferencesGuarded
<1>3. CASE agent' # "reference_validation"
  BY <1>3 DEF OriginalityGuarded, Done
<1>4. CASE status' # "done"
  BY <1>4 DEF OriginalityGuarded, Done
<1>5. CASE Next /\ ~ ValidateReferences
  <2> SUFFICES ASSUME agent' = "reference_validation", status' = "done" PROVE FALSE
    BY <1>3, <1>4
  <2> USE DEF Asking, Return, Refuse, Remember, Start
  <2>1. ~ (Understand \/ AnalyzeBrand \/ HandToAudience \/ AnalyzeAudience \/ HandToStrategist \/ Strategize)
    BY DEF Understand, AnalyzeBrand, HandToAudience, AnalyzeAudience, HandToStrategist, Strategize
  <2>2. ~ (Direct \/ CorrectDirection)
    BY DEF Direct, CorrectDirection, Judge
  <2>3. ~ (Write \/ Shrink \/ HandToAssets \/ ClassifyAssets \/ NothingToClassify)
    BY DEF Write, Shrink, HandToAssets, ClassifyAssets, NothingToClassify
  <2>4. ~ (HandToArtDirector \/ ArtDirect \/ HandToSpec \/ CompileSpec)
    BY DEF HandToArtDirector, ArtDirect, HandToSpec, CompileSpec
  <2>5. ~ (PlanGeneration \/ HandToProduction \/ SkipScene \/ GenerateScene)
    BY DEF PlanGeneration, HandToProduction, SkipScene, GenerateScene, Shown
  <2>6. ~ (HandToPurity \/ NothingToInspect \/ HandToRegeneration \/ HandToComposition \/ Compose)
    BY DEF HandToPurity, NothingToInspect, HandToRegeneration, HandToComposition, Compose
  <2>7. ~ InspectScene
    BY DEF InspectScene, Shown, Unusable, Conclude
  <2>8. ~ Verify
    BY DEF Verify, Shown, Unusable
  <2>9. ~ (ReviewMarketing \/ ReviewDesign \/ ReviewVision)
    BY DEF ReviewMarketing, ReviewDesign, ReviewVision, Shown, Unusable, Conclude
  <2>10. ~ (HandToReview \/ ScoreQuality)
    BY DEF HandToReview, NextReview, ScoreQuality, Conclude
  <2>11. ~ (RejectInput \/ StorageUnavailable \/ ProviderFails)
    BY DEF RejectInput, StorageUnavailable, ProviderFails
  <2> QED BY <1>5, <2>1, <2>2, <2>3, <2>4, <2>5, <2>6, <2>7, <2>8, <2>9, <2>10, <2>11 DEF Next
<1> QED BY <1>1, <1>2, <1>5

\* Whatever the model answers, in four rounds of corrections and a repair by templates: a
\* direction that is published breaks no rule and its winner clears every threshold in any
\* order of the ideas; a text no answer contains is announced; no candidate that is kept
\* holds a sentence that may not be said; and no score passes a copy or a repetition
\* (creative_director._validated_direction and stabilize_repair, reference_validator).
THEOREM DirectionStands == Spec => []CreativeIsSound
<1> DEFINE Sound == CallsInv /\ CreativeInv /\ FindingsInv /\ OriginalityGuarded
<1>1. Init => Sound
  BY CallsInvInit, CreativeInvInit, FindingsInvInit DEF Init, OriginalityGuarded, Done
<1>2. Sound /\ [Next]_vars => Sound'
  BY CallsInvNext, CreativeInvNext, FindingsInvNext, GuardedNext
<1>3. Sound => CreativeIsSound
  <2> SUFFICES ASSUME CreativeInv, OriginalityGuarded PROVE CreativeIsSound
    OBVIOUS
  <2>1. ASSUME Done("creative_director") PROVE DirectionIsSound /\ WinnerByJudgement /\ RepairIsDisclosed
    <3>1. Upright(output, input) /\ Disclosed(output) /\ agent = "creative_director"
      BY <2>1 DEF Done, CreativeInv
    <3>2. DirectionIsSound
      BY <3>1 DEF Upright, DirectionIsSound
    <3>3. WinnerByJudgement
      BY <3>1 DEF Upright, WinnerByJudgement
    <3>4. RepairIsDisclosed
      BY <3>1 DEF Disclosed, Noted, Answered, RepairIsDisclosed
    <3> QED BY <3>2, <3>3, <3>4
  <2>2. ASSUME ~ Done("creative_director") PROVE DirectionIsSound /\ WinnerByJudgement /\ RepairIsDisclosed
    BY <2>2 DEF DirectionIsSound, WinnerByJudgement, RepairIsDisclosed
  <2>3. CorrectedIsSayable
    <3> SUFFICES ASSUME agent = "creative_director", status = "asking", calls > 1, calls # 0,
                        kept.candidate # Unparsed, NEW p \in CD!RepairedTexts(kept.candidate.x)
                 PROVE  CD!Faults(p) \cap CD!Unsayable = {}
      BY DEF CorrectedIsSayable
    <3>1. Remembered(kept.candidate, kept.notes, calls > 1)
      BY DEF CreativeInv
    <3> QED BY <3>1 DEF Remembered, Clean, Unparsed
  <2> QED BY <2>1, <2>2, <2>3 DEF CreativeIsSound
<1> QED BY <1>1, <1>2, <1>3, PTL DEF Spec
=============================================================================
