---------------------------- MODULE Understanding ----------------------------
(***************************************************************************)
(* The client_understanding agent: the brief is built from what the model   *)
(* extracted, what the chat verified and what the closed vocabularies find   *)
(* in the client's messages.  A message is the set of phrases it contains    *)
(* with what each pattern matches in it; a quote is a set of phrases.        *)
(***************************************************************************)
EXTENDS ChatRouting

CONSTANTS
    GoalMarked,        \* phrases with a word such as "increase" or "more"
    ActionMarked,      \* phrases with a word such as "book" or "visit"
    BusinessTypes,     \* phrases that are a kind of business
    DeclaresProduct,   \* words that announce a product, a business
    DeclaresBusiness,
    Inside             \* pairs of phrases, the first contained in the second

ASSUME UnderstandingConstants ==
    /\ GoalMarked \cup ActionMarked \cup BusinessTypes \subseteq Word
    /\ DeclaresProduct \cup DeclaresBusiness \subseteq Word
    /\ Inside \subseteq Word \X Word

ScalarFields == Fields \cup {"platform"}
Values == [ScalarFields -> Word \cup {None, "shqip", "english"}]

\* What the searches of the agent find in one message.
Said == [words: SUBSET Word, platforms: SUBSET Word, named: Word \cup {None},
         kind: BusinessTypes \cup {None}, goal: Word \cup {None}, action: Word \cup {None},
         markers: SUBSET Marker]

\* ClientUnderstandingInput; verified is the chat's project context.
Source == [history: Seq([role: {"user", "assistant"}, said: Said]), latest: Said,
           verified: Values, constraints: SUBSET Word]

\* ClientUnderstandingLLMOutput; an absent quote is the empty set.
Extracted == [values: Values, quotes: [ScalarFields \cup {"constraints"} -> SUBSET Word],
              constraints: SUBSET Word]

\* Mutant: the assistant's messages count as well.
AllTurns(source) == {0} \cup DOMAIN source.history

\* The messages in the order in which they are searched: the latest one, which is
\* number 0, then the client's turns from the oldest on.
ClientTurns(source) == {0} \cup {i \in DOMAIN source.history : source.history[i].role = "user"}
Message(source, i) == IF i = 0 THEN source.latest ELSE source.history[i].said
ClientTexts(source) == {Message(source, i) : i \in ClientTurns(source)}

IsClientQuote(source, quote) ==
    quote # {} /\ \E m \in ClientTexts(source) : quote \subseteq m.words

GroundedOptional(source, value, quote) ==
    IF \/ \E m \in ClientTexts(source) : value \in m.words
       \/ IsClientQuote(source, quote) /\ value \in quote
    THEN value ELSE None

GroundedList(source, values, quote) ==
    IF IsClientQuote(source, quote) THEN values \cap quote ELSE {}

\* The first message with a match, and the last one (reversed).
Matching(source, field) == {i \in ClientTurns(source) : Message(source, i)[field] # None}
FirstFound(source, field) ==
    LET hits == Matching(source, field)
    IN  IF hits = {} THEN None ELSE Message(source, CHOOSE i \in hits : \A j \in hits : i <= j)[field]
LastFound(source, field) ==
    LET hits == Matching(source, field)
    IN  IF hits = {} THEN None ELSE Message(source, CHOOSE i \in hits : \A j \in hits : i >= j)[field]

ExtractNamedBrand(source) == FirstFound(source, "named")
ExtractBusinessType(source) == LastFound(source, "kind")
ExtractGoal(source) == LastFound(source, "goal")
ExtractCta(source) == LastFound(source, "action")

\* The first platform of the table that any message names.
ExtractPlatform(source) ==
    LET named == UNION {m.platforms : m \in ClientTexts(source)}
    IN  IF named = {} THEN None ELSE CHOOSE p \in named : TRUE

DetectLanguage(source) ==
    IF Cardinality(UNION {m.markers : m \in ClientTexts(source)}) >= 2 THEN "shqip" ELSE None

Or(value, fallback) == IF value = None THEN fallback ELSE value

\* Verified context first, then what the client is on record for.
Trusted(source, x) ==
    [f \in ScalarFields |->
        IF source.verified[f] # None THEN source.verified[f]
        ELSE GroundedOptional(source, x.values[f], x.quotes[f])]

\* A brand repeated as product or business is dropped unless a quote says so.
Distinguished(v, x) ==
    [v EXCEPT !["product_service"] =
                 IF @ # None /\ @ = v["brand"] /\ x.quotes["product_service"] \cap DeclaresProduct = {}
                 THEN None ELSE @,
              !["business"] =
                 IF @ # None /\ @ = v["brand"] /\ x.quotes["business"] \cap DeclaresBusiness = {}
                 THEN None ELSE @]

\* An outcome given as the action becomes the goal; what is no action is dropped.
SplitGoalAndAction(v) ==
    LET action == v["cta_intent"]
    IN  IF v["goal"] = None /\ action \in GoalMarked
        THEN [v EXCEPT !["goal"] = action, !["cta_intent"] = None]
        ELSE IF action # None /\ action \notin ActionMarked THEN [v EXCEPT !["cta_intent"] = None]
        ELSE v

\* Mutant: a business named in the brief is not a subject of its own.
CompletedFromBrand(v, source) ==
    [v EXCEPT !["brand"] = Or(@, ExtractNamedBrand(source)), !["business"] = None,
              !["product_service"] = IF @ = v["brand"] THEN None ELSE @]

\* What the messages supply for the fields still empty.
Completed(v, source) ==
    LET goal == ExtractGoal(source)
        business == Or(v["business"], ExtractBusinessType(source))
    IN  [v EXCEPT !["platform"] = Or(@, ExtractPlatform(source)),
                  !["language"] = Or(@, DetectLanguage(source)),
                  !["brand"] = Or(@, ExtractNamedBrand(source)),
                  !["business"] = business,
                  !["goal"] = IF goal # None /\ (@ = None \/ @ = goal \/ <<goal, @>> \in Inside)
                              THEN goal ELSE @,
                  !["cta_intent"] = Or(@, ExtractCta(source)),
                  !["product_service"] = IF @ = None /\ business \in BusinessTypes
                                         THEN business ELSE @]

BuildBrief(source, x) ==
    [values |-> Completed(SplitGoalAndAction(Distinguished(Trusted(source, x), x)), source),
     constraints |-> GroundedList(source, x.constraints, x.quotes["constraints"])
                        \cup source.constraints]

MissingFields(brief) == {f \in ScalarFields : brief.values[f] = None}

\* The stage evaluates the clarification engine on the brief it writes.
BriefNeedsClient(brief) == RequiresUserInput([facts |-> brief.values])

\* The chat hands its context to the workflow (ChatRouting!ProjectContext).
VerifiedBy(context) == [f \in ScalarFields |-> IF f \in Fields THEN ProjectContext(context)[f] ELSE None]
=============================================================================
