----------------------------- MODULE MCCampaign ------------------------------
(***************************************************************************)
(* A campaign about to become ready.  The texts a and A differ only in case; *)
(* a is part of ab.                                                          *)
(***************************************************************************)
EXTENDS Campaign, TLC

CONSTANTS a, A, ab, b

MCText == {a, A, ab, b}
MCNormalized == [t \in MCText |-> IF t = A THEN a ELSE t]
MCWithin == {<<t, t>> : t \in MCText} \cup {<<a, ab>>, <<b, ab>>}

Blank == [f \in Fields |-> None]
Told(f, v) == [Blank EXCEPT ![f] = v]
Complete == [Blank EXCEPT !["business"] = a, !["goal"] = a, !["audience"] = a]

\* Nothing; a goal and an audience missing their subject, with a budget;
\* everything required, with location, channels and a budget.
MCInitialBriefs ==
    { Blank,
      [Complete EXCEPT !["business"] = None, !["budget_amount"] = 1, !["budget_currency"] = a],
      [Complete EXCEPT !["location"] = a, !["channels"] = <<a>>] }

\* A turn that says nothing new, and turns that complete or correct the brief.
MCExtractions ==
    { Blank, Told("product_or_service", b), Told("budget_amount", 2), Complete }

MCCandidates ==
    { [location |-> ab, allocation |-> None, channels |-> <<A, b>>],
      [location |-> None, allocation |-> [total |-> 1, currency |-> A, item_total |-> 1],
       channels |-> <<>>],
      [location |-> b, allocation |-> [total |-> 2, currency |-> a, item_total |-> 1],
       channels |-> <<a>>] }

Interchangeable == Permutations(Requests)
=============================================================================
