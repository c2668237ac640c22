----------------------------- MODULE MCPostChat ------------------------------
(***************************************************************************)
(* Three kinds of message: a question that names the business, an order, and   *)
(* a change that states a goal.                                              *)
(***************************************************************************)
EXTENDS PostChat, TLC

MCWord == {"shop", "sales"}
MCMarker == {"dua", "per"}

Question == [question |-> TRUE, post |-> FALSE, change |-> FALSE, goal |-> None,
             cta_intent |-> None, words |-> {"shop"}, markers |-> {}]
Order == [Question EXCEPT !.question = FALSE, !.post = TRUE, !.words = {}, !.markers = MCMarker]
Change == [Question EXCEPT !.question = FALSE, !.change = TRUE, !.goal = "sales"]

MCTexts == {Question, Order, Change}

Classified(intent, f, v) == [intent |-> intent, updates |-> [NoUpdate EXCEPT ![f] = v]]
MCClassifications ==
    [text \in MCTexts |->
        CASE text = Question -> {Classified("MISSING_INFORMATION", "product_service", "shop"),
                              Classified("MARKETING_QUESTION", "language", "shqip")}
          [] text = Order -> {Classified("GENERATE_POST", "business", "shop")}
          [] text = Change -> {Classified("GENERAL_CONVERSATION", "language", "english")}]

\* A client who has stored messages and taken no turn, and one who has twice
\* asked for a post without saying what for.
Alone == [role |-> "user", text |-> Question, answers |-> 0, alone |-> TRUE]
Answer(n) == [role |-> "assistant", text |-> None, answers |-> n, alone |-> FALSE]
Ordered == [role |-> "user", text |-> Order, answers |-> 0, alone |-> FALSE]
MCHistories ==
    { [messages |-> <<Alone, Alone, Alone, Alone>>, context |-> None],
      [messages |-> <<Ordered, Answer(1), Ordered, Answer(3)>>,
       context |-> [NewContext EXCEPT !.facts["language"] = "shqip",
                                      !.explicit_generation_requests = 2]] }

Interchangeable == Permutations(Requests)
=============================================================================
