------------------------- MODULE VersionedDocument --------------------------
(***************************************************************************)
(* What the workflow-state store promises the supervisor and the API: one   *)
(* document per generation, of which every version is kept, each version    *)
(* differing from the one before in a single section, and a semantic        *)
(* contract that is written at most once.                                   *)
(***************************************************************************)
EXTENDS Integers, Sequences

CONSTANTS
    Sections,   \* PostWorkflowSection
    Contract,   \* PostWorkflowSection.SEMANTIC_CONTRACT
    Values,     \* what a section can hold
    Empty       \* the empty object or array

VARIABLE versions   \* versions[n] is the document as of version n

Document == [Sections -> Values \cup {Empty}]

Init == versions = << [x \in Sections |-> Empty] >>

Put(x, v) ==
    LET doc == versions[Len(versions)] IN
    /\ x = Contract => doc[x] \in {Empty, v}
    /\ versions' = Append(versions, [doc EXCEPT ![x] = v])

Next == \E x \in Sections, v \in Values \cup {Empty} : Put(x, v)

Spec == Init /\ [][Next]_versions
=============================================================================
