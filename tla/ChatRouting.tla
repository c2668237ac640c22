----------------------------- MODULE ChatRouting -----------------------------
(***************************************************************************)
(* The decisions of the Posts chat that need no database: what a message    *)
(* adds to the conversation's context, which facts block a generation, and  *)
(* which single action a turn may take.  A message is abstracted to what    *)
(* the closed vocabularies find in it; audience stands for the fields no    *)
(* rule reads (audience, market, location, platform, offer), and the lists  *)
(* of styles, constraints, assets and requests are left out.                *)
(***************************************************************************)
EXTENDS Integers, Sequences, FiniteSets

CONSTANTS
    Word,       \* names and phrases a client may use
    Marker,     \* the Albanian function words
    Promotion,  \* the goal inferred from the promoted subject
    None

ASSUME RoutingConstants ==
    /\ None \notin Word \cup {Promotion, "shqip", "english"}
    /\ Promotion \notin Word
    /\ IsFiniteSet(Marker)

Fields == {"business", "brand", "product_service", "goal", "cta_intent", "language", "audience"}
Subjects == {"product_service", "business", "brand"}
QuotedFields == Subjects

\* question: ends in "?" and opens with a question word; post and change: some
\* pattern of an order or of a revision matches; goal and cta_intent: what the
\* outcome and action patterns find; words and markers: what it contains.
Text == [question: BOOLEAN, post: BOOLEAN, change: BOOLEAN, goal: Word \cup {None},
         cta_intent: Word \cup {None}, words: SUBSET Word, markers: SUBSET Marker]

Intents == {"GENERAL_CONVERSATION", "MARKETING_QUESTION", "MISSING_INFORMATION",
            "GENERATE_POST", "REVISE_POST", "CLARIFICATION"}
Actions == {"reply", "ask", "generate", "revise"}

\* One turn's facts; None changes nothing.
Update == [Fields -> Word \cup {None, Promotion, "shqip", "english"}]
NoUpdate == [f \in Fields |-> None]

\* The stored context; Generated is what the caller keeps of a generation.
Context(Generated) ==
    [facts: Update, inferred: SUBSET Fields, explicit_generation_requests: Nat,
     generated_posts: Seq(Generated)]

NewContext ==
    [facts |-> NoUpdate, inferred |-> {}, explicit_generation_requests |-> 0,
     generated_posts |-> <<>>]

----------------------------------------------------------------------------
ExplicitGenerationRequest(text) == text.post /\ ~ text.question
ExplicitRevisionRequest(text) == text.change /\ ~ text.question

\* _ground: a named entity survives only in the client's own words.
Ground(update, texts) ==
    [f \in Fields |->
        IF f \in QuotedFields /\ \A t \in texts : update[f] \notin t.words
        THEN None ELSE update[f]]

\* Mutant: absent values are written as well.
Overwrite(context, update) == [context EXCEPT !.facts = update]

Merge(context, update) ==
    LET stated == {f \in Fields : update[f] # None}
    IN  [context EXCEPT !.facts = [f \in Fields |-> IF f \in stated THEN update[f] ELSE @[f]],
                        !.inferred = @ \ stated]

\* _recover_stated_facts: what the model did not extract.
Recovered(context, text) ==
    [NoUpdate EXCEPT
        !["goal"] = IF context.facts["goal"] = None THEN text.goal ELSE None,
        !["cta_intent"] = IF context.facts["cta_intent"] = None THEN text.cta_intent ELSE None]

DetectsAlbanian(texts) == Cardinality(UNION {t.markers : t \in texts}) >= 2

\* _verify_language: what the client typed settles the language.
VerifyLanguage(context, texts) ==
    IF DetectsAlbanian(texts) THEN Merge(context, [NoUpdate EXCEPT !["language"] = "shqip"])
    ELSE IF context.facts["language"] = "english" THEN context
    ELSE [context EXCEPT !.facts["language"] = None]

CountRequest(context, text) ==
    IF ExplicitGenerationRequest(text)
    THEN [context EXCEPT !.explicit_generation_requests = @ + 1] ELSE context

\* reply's accumulation, from the stored context to the one it routes with.
Understood(context, text, texts, update) ==
    LET merged == Merge(context, update)
        recovered == Merge(merged, Recovered(merged, text))
    IN  CountRequest(VerifyLanguage(recovered, texts), text)

\* Mutants: the count is reduced instead of reset; the list is replaced.
SpendRequest(context, ref) ==
    [context EXCEPT !.generated_posts = Append(@, ref), !.explicit_generation_requests = @ - 1]
ReplaceGenerated(context, ref) ==
    [context EXCEPT !.generated_posts = <<ref>>, !.explicit_generation_requests = 0]

\* with_generated_post; that the list keeps its last 100 entries only is left out.
WithGeneratedPost(context, ref) ==
    [context EXCEPT !.generated_posts = Append(@, ref), !.explicit_generation_requests = 0]

\* Mutant: inferred values are handed over as well.
AllFacts(context) == context.facts

\* project_context: inferred values are withheld from the workflow.
ProjectContext(context) ==
    [f \in Fields |-> IF f \in context.inferred THEN None ELSE context.facts[f]]

----------------------------------------------------------------------------
\* ClarificationEngine
Classify(field, context) ==
    CASE field = "product_service" ->
           IF context.facts["business"] # None \/ context.facts["brand"] # None
           THEN "INFERABLE" ELSE "CRITICAL"
      [] field \in {"goal", "cta_intent", "language"} -> "INFERABLE"
      [] field = "audience" -> "RESEARCHABLE"
      [] OTHER -> "OPTIONAL"

RequiresUserInput(context) ==
    \E f \in Fields : context.facts[f] = None /\ Classify(f, context) = "CRITICAL"

HasGeneration(context) == context.generated_posts # <<>>

DeterministicIntent(proposed, text, context) ==
    IF ExplicitRevisionRequest(text) /\ HasGeneration(context) THEN "REVISE_POST"
    ELSE IF ExplicitGenerationRequest(text) THEN "GENERATE_POST"
    ELSE IF proposed = "GENERATE_POST" /\ text.question THEN "MARKETING_QUESTION"
    ELSE IF /\ context.explicit_generation_requests > 0 /\ ~ text.question
            /\ proposed \in {"CLARIFICATION", "MISSING_INFORMATION", "GENERATE_POST"}
         THEN "GENERATE_POST"
    ELSE proposed

\* ChatIntentRouter.route
Route(proposed, text, context) ==
    LET intent == DeterministicIntent(proposed, text, context)
    IN  CASE intent = "REVISE_POST" /\ HasGeneration(context) -> "revise"
          [] intent = "GENERATE_POST" ->
               IF RequiresUserInput(context) THEN "ask" ELSE "generate"
          [] intent = "MISSING_INFORMATION" -> "ask"
          [] OTHER -> "reply"

GoalInferenceThreshold == 2

\* _resolve_deadlock: whether a repeated order goes through on an inferred goal.
InfersGoal(action, context) ==
    /\ action = "ask"
    /\ context.explicit_generation_requests >= GoalInferenceThreshold
    /\ \E f \in Subjects : context.facts[f] # None
    /\ context.facts["goal"] = None
    /\ ~ RequiresUserInput(context)

WithInferredGoal(context) ==
    [context EXCEPT !.facts["goal"] = Promotion, !.inferred = @ \cup {"goal"}]
=============================================================================
