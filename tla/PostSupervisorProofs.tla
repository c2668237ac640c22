------------------------ MODULE PostSupervisorProofs ------------------------
(***************************************************************************)
(* Progress stays consistent, a published post stays as it is, and every     *)
(* input arrives: for every plan that satisfies PlanAssumption and any number *)
(* of attempts that overlap, crash, lose writes or are patched around.        *)
(*                                                                          *)
(* The argument: every write compares versions, so an executor that can       *)
(* still write knows the state exactly (Informed), whatever the others do;    *)
(* the stage it runs is the first that is not done (First), and nothing       *)
(* downstream of that is done (Ordered).  So what it rewrites was read by no   *)
(* stage that counts as done, and a request it appends finds no other open.    *)
(* Attempts that follow one another never run into the decision limit: what    *)
(* they decide is counted against the work there is.                          *)
(***************************************************************************)
EXTENDS PostSupervisor, FiniteSetTheorems, TLAPS

\* No client patches what the reviewers and the verification said.  The endpoint
\* refuses only the contract and the supervisor's own section; a client that
\* patches a verdict overrules the reviewer, and the theorems are about the others.
Verdict(r) == Policy[r].outputs[1]
VerdictsUntouched == Editable \cap ({Verdict(r) : r \in Reviewers} \cup {"verification"}) = {}

Unsettled == Stages \ Settled
First(s) == s \in Unsettled /\ \A u \in Unsettled : Position[s] <= Position[u]

\* Places of an executor that runs a stage.
Working == {"running", "writing", "closing", "completing"}

\* What is done is closed under dependencies; after a revision the stages still to
\* do are the ones it invalidated.
Ordered ==
    /\ \A s \in Settled : Policy[s].dependencies \subseteq Settled
    /\ history = <<>> => progress.invalidated = {}
    /\ history # <<>> /\ PendingTarget = None => Unsettled \subseteq progress.invalidated
    /\ PendingTarget # None => Unsettled \subseteq Downstream[PendingTarget]

\* The requests so far, and the verdicts in force.
Judged ==
    /\ OneOpenRevision /\ RevisionBudget
    /\ \A i \in DOMAIN history : history[i].target \in Targets[history[i].by]
    /\ \A r \in Reviewers \cap Settled :
         /\ section[Verdict(r)] = "REVISE" => PendingTarget # None /\ r \in Downstream[PendingTarget]
         /\ section[Verdict(r)] \in {"PASS", "REVISE"}

Untouched(u) == \A x \in OutputSet(u) : ~ Present(x)
\* Output x needs no more writing.
Written(x) == Present(x) \/ x \in EmptySections \cup {HistorySection}
InOrder(u) ==
    \A i, j \in DOMAIN Policy[u].outputs :
        i < j /\ Present(Policy[u].outputs[j]) => Written(Policy[u].outputs[i])

\* Before the first request a stage is skipped when its outputs exist, so the outputs
\* of a stage that was interrupted must be incomplete.
Fresh ==
    edits = 0 =>
    /\ Settled \cap stale = {}
    /\ history = <<>> =>
         /\ \A u, v \in Unsettled : Position[v] < Position[u] => Untouched(u)
         /\ \A u \in Unsettled \cap stale : ~ OutputsPresent(u)
         /\ \A u \in Unsettled : InOrder(u)

\* What holds of every executor, stale or not.
Asked(q) ==
    /\ q.pc \in Working => q.decision.stage \in Stages
    /\ q.pc = "writing" =>
         /\ q.next \in DOMAIN Policy[q.decision.stage].outputs
         /\ q.value \in Results(q.decision.stage)
         /\ q.value = "REVISE" =>
              /\ q.decision.stage \in Reviewers /\ q.target \in Targets[q.decision.stage]
              /\ q.decision.stage \in Budgeted => q.asked < MaxRevisions

\* The decisions decide can return, and the state each of them presumes.
Sound(d) ==
    /\ d \in Decision
    /\ d.action = "STOP" /\ d.reason = "complete" =>
         Settled = Stages /\ PendingTarget = None /\ Approved
    /\ d.action = "REVISE" => PendingTarget # None /\ d.stage = PendingTarget
    /\ d.action = "SKIP" => PendingTarget = None /\ First(d.stage) /\ Skippable(d.stage)
    /\ d.action \in {"CONTINUE", "RETRY"} =>
         /\ PendingTarget = None /\ First(d.stage) /\ ~ Skippable(d.stage)
         /\ progress.attempts[d.stage] < MaxStageAttempts

\* What an executor q knows that holds the latest version: when it handles stage s,
\* writes its outputs, or has written them.
Handling(q, s) ==
    /\ PendingTarget # None => s = PendingTarget /\ Unsettled \subseteq progress.invalidated
    /\ q.asked = RequestsBy(s)
    /\ edits = 0 /\ history = <<>> => ~ OutputsPresent(s)
Writing(q, s) ==
    /\ \A i \in 1 .. q.next - 1 : Written(Policy[s].outputs[i])
    /\ q.next = 2 /\ s \in Reviewers => section[Verdict(s)] = q.value
Completing(s) ==
    /\ PendingTarget # None => s \in Downstream[PendingTarget]
    /\ s \in Reviewers =>
         /\ section[Verdict(s)] \in {"PASS", "REVISE"}
         /\ section[Verdict(s)] = "REVISE" => PendingTarget # None
Informed(q) ==
    LET s == q.decision.stage IN
    /\ q.pc = "recording" => Sound(q.decision)
    /\ q.pc \in Working => First(s)
    /\ q.pc \in {"running", "writing"} => Handling(q, s)
    /\ q.pc = "writing" => Writing(q, s)
    /\ q.pc = "closing" => s = PendingTarget /\ Unsettled \subseteq progress.invalidated
    /\ q.pc = "completing" => Completing(s)
    /\ q.pc \in {"closing", "completing"} /\ edits = 0 => s \notin stale

Attempt == [pc: {"idle"} \cup Active \cup Ended, decisions: 0..MaxDecisions,
            decision: Decision, asked: Nat, value: Values,
            target: Stages \cup {None}, next: Nat]

\* The inductive invariant.
Inv ==
    /\ TypeOK /\ Ordered /\ Judged /\ Fresh /\ CertifiedCompletion
    /\ \A e \in Executors : Asked(exec[e]) /\ (e \in latest => Informed(exec[e]))

----------------------------------------------------------------------------
(* Facts about plans. *)

\* Induction over the naturals, for a set instead of a predicate.
LEMMA SetInduction ==
    ASSUME NEW T, T \subseteq Nat, 0 \in T, \A n \in T : n + 1 \in T
    PROVE  T = Nat
<1> DEFINE R == OpToRel(<, Nat)
<1>1. IsWellFoundedOn(R, Nat)
  BY NatLessThanWellFounded
<1>2. \A x, y \in Nat : <<x, y>> \in R <=> x < y
  BY DEF OpToRel
<1>3. SUFFICES ASSUME Nat \ T # {} PROVE FALSE
  OBVIOUS
<1> HIDE DEF R
<1>4. \E x \in Nat \ T : \A y \in Nat \ T : ~ (<<y, x>> \in R)
  BY <1>1, <1>3, WFMin
<1>5. PICK x \in Nat \ T : \A y \in Nat \ T : ~ (y < x)
  BY <1>2, <1>4
<1> QED BY <1>5

\* Every non-empty set of naturals has a least element.
LEMMA LeastNatural ==
    ASSUME NEW A, A \subseteq Nat, A # {}
    PROVE  \E x \in A : \A y \in A : x <= y
<1> DEFINE R == OpToRel(<, Nat)
<1>1. IsWellFoundedOn(R, Nat)
  BY NatLessThanWellFounded
<1>2. \A x, y \in Nat : <<x, y>> \in R <=> x < y
  BY DEF OpToRel
<1> HIDE DEF R
<1>3. \E x \in A : \A y \in A : ~ (<<y, x>> \in R)
  BY <1>1, WFMin
<1>4. PICK x \in A : \A y \in A : ~ (<<y, x>> \in R)
  BY <1>3
<1>5. \A y \in A : ~ (y < x)
  BY <1>2, <1>4
<1>6. \A y \in A : x <= y
  BY <1>5
<1> QED BY <1>6

LEMMA PositionType ==
    ASSUME NEW s \in Stages
    PROVE  /\ Position[s] \in 1 .. Len(Plan) /\ Position[s] \in Nat
           /\ Plan[Position[s]].stage = s
<1>1. DOMAIN Plan = 1 .. Len(Plan) /\ Len(Plan) \in Nat
  BY PlanAssumption
<1>2. \E i \in DOMAIN Plan : Plan[i].stage = s
  BY DEF Stages
<1>3. Position[s] = CHOOSE i \in DOMAIN Plan : Plan[i].stage = s
  BY DEF Position
<1> QED BY <1>1, <1>2, <1>3

LEMMA PositionInjective ==
    ASSUME NEW s \in Stages, NEW t \in Stages, Position[s] = Position[t]
    PROVE  s = t
BY PositionType

\* What PlanAssumption says of the dependencies.
LEMMA DependsEarlier ==
    ASSUME NEW s \in Stages, NEW d \in Policy[s].dependencies
    PROVE  d \in Stages /\ Position[d] < Position[s]
BY PlanAssumption

\* The stages of a non-empty set have a first one.
LEMMA FirstStage ==
    ASSUME NEW A, A \subseteq Stages, A # {}
    PROVE  \E s \in A : \A u \in A : Position[s] <= Position[u]
<1> DEFINE P == {Position[s] : s \in A}
<1>1. P \subseteq Nat /\ P # {}
  BY PositionType
<1> HIDE DEF P
<1>2. \E x \in P : \A y \in P : x <= y
  BY <1>1, LeastNatural
<1> QED BY <1>2 DEF P

-----------------------------------------------------------------------------
(* The fixed point of SupervisorPlan.downstream. *)

Round(s, f, n) == IF n = 0 THEN {s} ELSE Dependents(f[n - 1])

\* The rounds of the loop exist, so the definition of Rounds unfolds.
LEMMA RoundsUnfold ==
    ASSUME NEW s \in Stages
    PROVE  Rounds(s) = [n \in 0 .. Len(Plan) |-> Round(s, Rounds(s), n)]
<1> DEFINE IsRounds(g, m) == g = [n \in 0 .. m |-> Round(s, g, n)]
           T == {m \in Nat : \E g : IsRounds(g, m)}
<1>1. 0 \in T
  <2> DEFINE g == [n \in 0 .. 0 |-> {s}]
  <2>1. IsRounds(g, 0)
    BY DEF Round
  <2> QED BY <2>1
<1>2. \A m \in T : m + 1 \in T
  <2> TAKE m \in T
  <2>1. PICK g : IsRounds(g, m)
    OBVIOUS
  <2> DEFINE h == [n \in 0 .. m + 1 |-> IF n = m + 1 THEN Dependents(g[m]) ELSE g[n]]
  <2>2. \A n \in 0 .. m + 1 : h[n] = Round(s, h, n)
    <3> TAKE n \in 0 .. m + 1
    <3>1. CASE n = m + 1
      <4>1. h[n] = Dependents(g[m]) /\ h[n - 1] = g[m] /\ n # 0
        BY <3>1
      <4> QED BY <4>1 DEF Round
    <3>2. CASE n = 0
      <4>1. h[n] = g[0] /\ g[0] = Round(s, g, 0)
        BY <2>1, <3>2
      <4> QED BY <3>2, <4>1 DEF Round
    <3>3. CASE n \in 1 .. m
      <4>1. h[n] = g[n] /\ h[n - 1] = g[n - 1] /\ n # 0
        BY <3>3
      <4>2. g[n] = Round(s, g, n)
        BY <2>1, <3>3
      <4> QED BY <4>1, <4>2 DEF Round
    <3> QED BY <3>1, <3>2, <3>3
  <2> HIDE DEF IsRounds
  <2>3. h = [n \in 0 .. m + 1 |-> Round(s, h, n)]
    BY <2>2
  <2> HIDE DEF h
  <2>4. IsRounds(h, m + 1)
    BY <2>3 DEF IsRounds
  <2> QED BY <2>4
<1>3. T = Nat
  <2> HIDE DEF T
  <2>1. T \subseteq Nat
    BY DEF T
  <2> QED BY <1>1, <1>2, <2>1, SetInduction
<1>4. \E g : IsRounds(g, Len(Plan))
  BY <1>3, PlanAssumption
<1>5. IsRounds(CHOOSE g : IsRounds(g, Len(Plan)), Len(Plan))
  BY <1>4
<1>6. Rounds(s) = CHOOSE g : IsRounds(g, Len(Plan))
  BY DEF Rounds, Round
<1> QED BY <1>5, <1>6

\* What Rounds does from one round to the next.
LEMMA RoundsStep ==
    ASSUME NEW s \in Stages
    PROVE  /\ Rounds(s)[0] = {s}
           /\ \A n \in Nat : n < Len(Plan) => Rounds(s)[n + 1] = Dependents(Rounds(s)[n])
<1>1. Len(Plan) \in Nat
  BY PlanAssumption
<1>2. Rounds(s)[0] = Round(s, Rounds(s), 0)
  BY <1>1, RoundsUnfold
<1>3. \A n \in Nat : n < Len(Plan) => Rounds(s)[n + 1] = Round(s, Rounds(s), n + 1)
  BY <1>1, RoundsUnfold
<1> QED BY <1>2, <1>3 DEF Round

LEMMA DependentsType ==
    ASSUME NEW A, A \subseteq Stages
    PROVE  Dependents(A) \subseteq Stages /\ A \subseteq Dependents(A)
BY DEF Dependents

\* Every round holds stages only, and the stage it began with.
LEMMA RoundsType ==
    ASSUME NEW s \in Stages, NEW n \in 0 .. Len(Plan)
    PROVE  Rounds(s)[n] \subseteq Stages /\ s \in Rounds(s)[n]
<1>1. Len(Plan) \in Nat
  BY PlanAssumption
<1> DEFINE Good(m) == Rounds(s)[m] \subseteq Stages /\ s \in Rounds(s)[m]
           T == {m \in Nat : m <= Len(Plan) => Good(m)}
<1>2. 0 \in T
  BY RoundsStep
<1>3. \A m \in T : m + 1 \in T
  <2> SUFFICES ASSUME NEW m \in T, m + 1 <= Len(Plan) PROVE Good(m + 1)
    OBVIOUS
  <2>1. Good(m) /\ m \in Nat /\ m < Len(Plan)
    BY <1>1
  <2>2. Rounds(s)[m + 1] = Dependents(Rounds(s)[m])
    BY <2>1, RoundsStep
  <2> QED BY <2>1, <2>2, DependentsType
<1>4. T = Nat
  <2> HIDE DEF T
  <2>1. T \subseteq Nat
    BY DEF T
  <2> QED BY <1>2, <1>3, <2>1, SetInduction
<1> QED BY <1>1, <1>4

\* A stage enters in a round no later than its place in the plan.
LEMMA RoundsReach ==
    ASSUME NEW s \in Stages, NEW n \in 0 .. Len(Plan),
           NEW v \in Dependents(Rounds(s)[n]), Position[v] <= n
    PROVE  v \in Rounds(s)[n]
<1>1. Len(Plan) \in Nat
  BY PlanAssumption
<1> DEFINE Reached(m) == \A u \in Dependents(Rounds(s)[m]) :
                            Position[u] <= m => u \in Rounds(s)[m]
           T == {m \in Nat : m <= Len(Plan) => Reached(m)}
<1>2. 0 \in T
  <2>1. Dependents(Rounds(s)[0]) \subseteq Stages
    BY <1>1, RoundsType, DependentsType
  <2>2. \A u \in Stages : ~ (Position[u] <= 0)
    BY PositionType
  <2> QED BY <2>1, <2>2
<1>3. \A m \in T : m + 1 \in T
  <2> SUFFICES ASSUME NEW m \in T, m + 1 <= Len(Plan),
                      NEW u \in Dependents(Rounds(s)[m + 1]), Position[u] <= m + 1
               PROVE  u \in Rounds(s)[m + 1]
    OBVIOUS
  <2>1. Reached(m) /\ m \in Nat /\ m < Len(Plan) /\ m \in 0 .. Len(Plan)
                   /\ m + 1 \in 0 .. Len(Plan)
    BY <1>1
  <2>2. Rounds(s)[m + 1] = Dependents(Rounds(s)[m])
    BY <2>1, RoundsStep
  <2>3. Rounds(s)[m] \subseteq Stages /\ Rounds(s)[m + 1] \subseteq Stages
    BY <2>1, RoundsType
  <2>4. CASE u \in Rounds(s)[m + 1]
    BY <2>4
  <2>5. CASE u \notin Rounds(s)[m + 1]
    <3>1. u \in Stages /\ Policy[u].dependencies \cap Rounds(s)[m + 1] # {}
      BY <2>5 DEF Dependents
    <3>2. PICK d \in Policy[u].dependencies : d \in Rounds(s)[m + 1]
      BY <3>1
    <3>3. d \in Stages /\ Position[d] < Position[u]
      BY <3>1, DependsEarlier
    <3>4. Position[d] <= m
      BY <2>1, <3>1, <3>3, PositionType
    <3>5. d \in Rounds(s)[m]
      BY <2>1, <2>2, <3>2, <3>4
    <3> QED BY <2>2, <3>1, <3>5 DEF Dependents
  <2> QED BY <2>4, <2>5
<1>4. T = Nat
  <2> HIDE DEF T
  <2>1. T \subseteq Nat
    BY DEF T
  <2> QED BY <1>2, <1>3, <2>1, SetInduction
<1> QED BY <1>1, <1>4

\* Downstream[s] holds s and every stage that depends on one of its stages.
LEMMA DownstreamClosed ==
    ASSUME NEW s \in Stages
    PROVE  /\ Downstream[s] \subseteq Stages
           /\ s \in Downstream[s]
           /\ \A v \in Stages : Policy[v].dependencies \cap Downstream[s] # {}
                                  => v \in Downstream[s]
<1>1. Len(Plan) \in Nat /\ Len(Plan) \in 0 .. Len(Plan)
  BY PlanAssumption
<1>2. Downstream[s] = Rounds(s)[Len(Plan)]
  BY DEF Downstream
<1>3. \A v \in Dependents(Downstream[s]) : v \in Downstream[s]
  <2> TAKE v \in Dependents(Downstream[s])
  <2>1. v \in Stages
    BY <1>1, <1>2, RoundsType, DependentsType
  <2>2. Position[v] <= Len(Plan)
    BY <2>1, PositionType
  <2> QED BY <1>1, <1>2, <2>2, RoundsReach
<1> QED BY <1>1, <1>2, <1>3, RoundsType DEF Dependents

\* It is the least such set.
LEMMA DownstreamLeast ==
    ASSUME NEW s \in Stages, NEW A, A \subseteq Stages, s \in A,
           \A v \in Stages : Policy[v].dependencies \cap A # {} => v \in A
    PROVE  Downstream[s] \subseteq A
<1>1. Len(Plan) \in Nat
  BY PlanAssumption
<1> DEFINE T == {m \in Nat : m <= Len(Plan) => Rounds(s)[m] \subseteq A}
<1>2. 0 \in T
  BY RoundsStep
<1>3. \A m \in T : m + 1 \in T
  <2> SUFFICES ASSUME NEW m \in T, m + 1 <= Len(Plan)
               PROVE  Rounds(s)[m + 1] \subseteq A
    OBVIOUS
  <2>1. m \in Nat /\ m < Len(Plan) /\ Rounds(s)[m] \subseteq A
    BY <1>1
  <2>2. Rounds(s)[m + 1] = Dependents(Rounds(s)[m])
    BY <2>1, RoundsStep
  <2> QED BY <2>1, <2>2 DEF Dependents
<1>4. T = Nat
  <2> HIDE DEF T
  <2>1. T \subseteq Nat
    BY DEF T
  <2> QED BY <1>2, <1>3, <2>1, SetInduction
<1>5. Downstream[s] = Rounds(s)[Len(Plan)]
  BY DEF Downstream
<1> QED BY <1>1, <1>4, <1>5

\* What is downstream of a stage comes no earlier in the plan.
LEMMA DownstreamLater ==
    ASSUME NEW s \in Stages, NEW t \in Downstream[s]
    PROVE  t \in Stages /\ Position[s] <= Position[t]
<1> DEFINE A == {v \in Stages : Position[s] <= Position[v]}
<1>1. s \in A
  BY PositionType
<1>2. ASSUME NEW v \in Stages, Policy[v].dependencies \cap A # {}
      PROVE  v \in A
  <2>1. PICK d \in Policy[v].dependencies : d \in A
    BY <1>2
  <2>2. d \in Stages /\ Position[s] <= Position[d] /\ Position[d] < Position[v]
    BY <1>2, <2>1, DependsEarlier
  <2> QED BY <1>2, <2>2, PositionType
<1>3. A \subseteq Stages
  OBVIOUS
<1>4. Downstream[s] \subseteq A
  <2> HIDE DEF A
  <2> QED BY <1>1, <1>2, <1>3, DownstreamLeast
<1> QED BY <1>4

----------------------------------------------------------------------------
(* What decide chooses. *)

LEMMA FirstDependencies ==
    ASSUME Ordered, NEW s, First(s)
    PROVE  Policy[s].dependencies \subseteq Settled
<1> SUFFICES ASSUME NEW d \in Policy[s].dependencies PROVE d \in Settled
  OBVIOUS
<1>1. s \in Stages /\ \A u \in Unsettled : Position[s] <= Position[u]
  BY DEF First, Unsettled
<1>2. d \in Stages /\ Position[d] < Position[s]
  BY <1>1, DependsEarlier
<1>3. d \notin Unsettled
  BY <1>1, <1>2, PositionType
<1> QED BY <1>2, <1>3 DEF Unsettled

\* Nothing downstream of a stage that is not done is done.
LEMMA UnsettledClosed ==
    ASSUME Ordered, NEW s \in Unsettled
    PROVE  Downstream[s] \subseteq Unsettled
<1>1. s \in Stages /\ Unsettled \subseteq Stages
  BY DEF Unsettled
<1>2. ASSUME NEW v \in Stages, Policy[v].dependencies \cap Unsettled # {}
      PROVE  v \in Unsettled
  BY <1>2 DEF Ordered, Unsettled
<1> QED BY <1>1, <1>2, DownstreamLeast

\* The scan of the plan ends at the first stage that is not done.
LEMMA ScanFindsFirst ==
    ASSUME Ordered, Actionable # {}
    PROVE  First(CHOOSE s \in Actionable : \A t \in Actionable : Position[s] <= Position[t])
<1> DEFINE c == CHOOSE s \in Actionable : \A t \in Actionable : Position[s] <= Position[t]
<1>1. Actionable \subseteq Stages /\ Actionable \subseteq Unsettled /\ Unsettled \subseteq Stages
  BY DEF Actionable, Unsettled
<1>2. \E s \in Actionable : \A t \in Actionable : Position[s] <= Position[t]
  BY <1>1, FirstStage
<1>3. c \in Actionable /\ \A t \in Actionable : Position[c] <= Position[t]
  BY <1>2
<1> HIDE DEF c
<1>4. PICK u \in Unsettled : \A v \in Unsettled : Position[u] <= Position[v]
  BY <1>1, FirstStage
<1>5. First(u)
  BY <1>4 DEF First
<1>6. u \in Actionable
  BY <1>5, FirstDependencies DEF Actionable, First, Unsettled
<1>7. \A v \in Unsettled : Position[c] <= Position[v]
  <2> TAKE v \in Unsettled
  <2>1. Position[c] <= Position[u] /\ Position[u] <= Position[v]
    BY <1>3, <1>4, <1>6
  <2>2. Position[c] \in Nat /\ Position[u] \in Nat /\ Position[v] \in Nat
    BY <1>1, <1>3, PositionType
  <2> QED BY <2>1, <2>2
<1>8. First(c)
  BY <1>1, <1>3, <1>7 DEF First
<1> QED BY <1>8 DEF c

LEMMA ScanFindsNothing ==
    ASSUME Ordered, TypeOK, Actionable = {}
    PROVE  Settled = Stages
<1>1. Settled \subseteq Stages
  BY DEF TypeOK, Settled
<1>2. CASE Unsettled = {}
  BY <1>1, <1>2 DEF Unsettled
<1>3. CASE Unsettled # {}
  <2>1. Unsettled \subseteq Stages
    BY DEF Unsettled
  <2>2. PICK u \in Unsettled : \A v \in Unsettled : Position[u] <= Position[v]
    BY <1>3, <2>1, FirstStage
  <2>3. First(u)
    BY <2>2 DEF First
  <2>4. u \in Actionable
    BY <2>3, FirstDependencies DEF Actionable, First, Unsettled
  <2> QED BY <2>4
<1> QED BY <1>2, <1>3

LEMMA PendingType ==
    ASSUME TypeOK
    PROVE  /\ PendingTarget \in Stages \cup {None}
           /\ PendingTarget # None =>
                /\ history # <<>> /\ Len(history) \in DOMAIN history
                /\ history[Len(history)].status = "pending"
                /\ PendingTarget = history[Len(history)].target
<1>1. history \in Seq(Revision)
  BY DEF TypeOK
<1>2. history # <<>> => Len(history) \in DOMAIN history /\ history[Len(history)] \in Revision
  BY <1>1
<1> QED BY <1>2 DEF PendingTarget, Revision

LEMMA StopIsSound ==
    ASSUME NEW s \in Stages \cup {None},
           NEW reason \in {"gate", "immutable", "missing", "clarification", "retry_limit",
                           "no_progress", "unapproved"}
    PROVE  Sound(Stop(s, reason))
BY DEF Sound, Stop, Decision

LEMMA NextDecisionIsSound ==
    ASSUME TypeOK, Ordered
    PROVE  Sound(NextDecision)
<1> DEFINE c == CHOOSE s \in Actionable : \A t \in Actionable : Position[s] <= Position[t]
<1>1. PendingTarget \in Stages \cup {None}
  BY PendingType
<1>2. CASE GateShut
  BY <1>2, StopIsSound DEF NextDecision
<1>3. CASE ~ GateShut /\ PendingTarget # None
  <2>1. NextDecision = RevisionDecision(PendingTarget)
    BY <1>3 DEF NextDecision
  <2>2. CASE PendingTarget = "semantic_contract"
    <3>1. NextDecision = Stop(PendingTarget, "immutable")
      BY <2>1, <2>2 DEF RevisionDecision
    <3> QED BY <1>1, <3>1, StopIsSound
  <2>3. CASE PendingTarget # "semantic_contract" /\ InputsMissing(PendingTarget)
    <3>1. NextDecision = Stop(PendingTarget, "missing")
      BY <2>1, <2>3 DEF RevisionDecision
    <3> QED BY <1>1, <3>1, StopIsSound
  <2>4. CASE PendingTarget # "semantic_contract" /\ ~ InputsMissing(PendingTarget)
    <3>1. NextDecision = Decide("REVISE", PendingTarget)
      BY <2>1, <2>4 DEF RevisionDecision
    <3> QED BY <1>1, <1>3, <3>1 DEF Sound, Decide, Decision
  <2> QED BY <2>2, <2>3, <2>4
<1>4. CASE ~ GateShut /\ PendingTarget = None /\ NeedsClarification
  <2>1. NextDecision = Stop("client_understanding", "clarification")
    BY <1>4 DEF NextDecision
  <2>2. "client_understanding" \in Stages
    BY <1>4 DEF NeedsClarification, TypeOK, Settled
  <2> QED BY <2>1, <2>2, StopIsSound
<1>5. CASE ~ GateShut /\ PendingTarget = None /\ ~ NeedsClarification /\ Actionable # {}
  <2>1. NextDecision = StageDecision(c)
    BY <1>5 DEF NextDecision
  <2>2. First(c)
    BY <1>5, ScanFindsFirst
  <2> HIDE DEF c
  <2>3. c \in Stages
    BY <2>2 DEF First, Unsettled
  <2>4. CASE Skippable(c)
    <3>1. NextDecision = Decide("SKIP", c)
      BY <2>1, <2>4 DEF StageDecision
    <3> QED BY <1>5, <2>2, <2>3, <2>4, <3>1 DEF Sound, Decide, Decision
  <2>5. CASE ~ Skippable(c) /\ InputsMissing(c)
    <3>1. NextDecision = Stop(c, "missing")
      BY <2>1, <2>5 DEF StageDecision
    <3> QED BY <2>3, <3>1, StopIsSound
  <2>6. CASE ~ Skippable(c) /\ ~ InputsMissing(c) /\ progress.attempts[c] >= MaxStageAttempts
    <3>1. NextDecision = Stop(c, "retry_limit")
      BY <2>1, <2>6 DEF StageDecision
    <3> QED BY <2>3, <3>1, StopIsSound
  <2>7. CASE /\ ~ Skippable(c) /\ ~ InputsMissing(c)
             /\ ~ (progress.attempts[c] >= MaxStageAttempts)
    <3>1. NextDecision = Decide(IF progress.attempts[c] = 0 THEN "CONTINUE" ELSE "RETRY", c)
      BY <2>1, <2>7 DEF StageDecision
    <3>2. NextDecision = Decide("CONTINUE", c) \/ NextDecision = Decide("RETRY", c)
      BY <3>1
    <3>3. progress.attempts[c] < MaxStageAttempts
      BY <2>3, <2>7, BoundAssumption DEF TypeOK
    <3> QED BY <1>5, <2>2, <2>3, <2>7, <3>2, <3>3 DEF Sound, Decide, Decision
  <2> QED BY <2>4, <2>5, <2>6, <2>7
<1>6. CASE ~ GateShut /\ PendingTarget = None /\ ~ NeedsClarification /\ Actionable = {}
  <2>1. NextDecision = CompletionDecision
    BY <1>6 DEF NextDecision
  <2>2. Settled = Stages
    BY <1>6, ScanFindsNothing
  <2>3. CASE ~ Approved
    <3>1. NextDecision = Stop(None, "unapproved")
      BY <2>1, <2>2, <2>3 DEF CompletionDecision
    <3> QED BY <3>1, StopIsSound
  <2>4. CASE Approved
    <3>1. NextDecision = Stop(None, "complete")
      BY <2>1, <2>2, <2>4 DEF CompletionDecision
    <3> QED BY <1>6, <2>2, <2>4, <3>1 DEF Sound, Stop, Decision
  <2> QED BY <2>3, <2>4
<1> QED BY <1>2, <1>3, <1>4, <1>5, <1>6

----------------------------------------------------------------------------
(* Steps in general. *)

\* The type of the state, with the attempts named.
LEMMA TypeOfState ==
    TypeOK <=>
    /\ progress \in [current: Stages \cup {None}, completed: SUBSET Stages,
                     skipped: SUBSET Stages, invalidated: SUBSET Stages,
                     attempts: [Stages -> Nat]]
    /\ section \in [Sections \ {HistorySection} -> Values]
    /\ history \in Seq(Revision)
    /\ latest \subseteq Executors
    /\ exec \in [Executors -> Attempt]
    /\ edits \in 0..MaxEdits
    /\ stale \subseteq Stages
BY DEF TypeOK, Attempt

LEMMA SoundFrame ==
    ASSUME NEW d, UNCHANGED <<progress, section, history>>, Sound(d)
    PROVE  Sound(d)'
BY DEF Sound, Approved, Settled, PendingTarget, First, Unsettled, Skippable,
       OutputsPresent, Present

\* What an executor knows depends on no other executor.
LEMMA InformedFrame ==
    ASSUME NEW q, UNCHANGED <<progress, section, history, edits, stale>>, Informed(q)
    PROVE  Informed(q)'
<1> DEFINE s == q.decision.stage
<1>1. q.pc = "recording" => Sound(q.decision)'
  BY SoundFrame DEF Informed
<1>2. PendingTarget' = PendingTarget /\ Unsettled' = Unsettled /\ (First(s)' <=> First(s))
  BY DEF PendingTarget, Unsettled, Settled, First
<1>3. Handling(q, s)' <=> Handling(q, s)
  BY DEF Handling, PendingTarget, Unsettled, Settled, RequestsBy, OutputsPresent, Present
<1>4. Writing(q, s)' <=> Writing(q, s)
  BY DEF Writing, Written, Present
<1>5. Completing(s)' <=> Completing(s)
  BY DEF Completing, PendingTarget
<1> QED BY <1>1, <1>2, <1>3, <1>4, <1>5 DEF Informed

LEMMA InformedCarry ==
    ASSUME NEW e, NEW q, exec'[e] = q, Informed(q)'
    PROVE  Informed(exec[e])'
BY DEF Informed, Sound, Handling, Writing, Completing, First, RequestsBy, Skippable,
       OutputsPresent, Written, Present

LEMMA AskedCarry ==
    ASSUME NEW e, NEW q, exec'[e] = q, Asked(q)
    PROVE  Asked(exec[e])'
BY DEF Asked

SharedState == <<progress, section, history, edits, stale>>

\* A step of executor e that changes nothing but where e is, and which at most adds
\* e to the executors that hold the latest version.
LEMMA LocalStep ==
    ASSUME Inv, NEW e \in Executors, NEW q \in Attempt,
           exec' = [exec EXCEPT ![e] = q], UNCHANGED SharedState,
           latest' \subseteq latest \cup {e},
           Asked(q), e \in latest' => Informed(q),
           q.pc = "complete" => Settled = Stages /\ PendingTarget = None /\ Approved
    PROVE  Inv'
<1>1. exec \in [Executors -> Attempt] /\ latest \subseteq Executors
  BY TypeOK, TypeOfState DEF Inv
<1>2. TypeOK'
  BY <1>1, TypeOfState DEF Inv, SharedState, TypeOK, Attempt
<1>3. Ordered' /\ Judged' /\ Fresh'
  BY DEF Inv, SharedState, Ordered, Judged, Fresh, OneOpenRevision, RevisionBudget, RequestsBy,
         Settled, Unsettled, PendingTarget, Untouched, Present, OutputsPresent, InOrder, Written
<1>4. exec'[e] = q /\ \A f \in Executors : f # e => exec'[f] = exec[f]
  BY <1>1
<1>5. CertifiedCompletion'
  <2>1. CASE \E f \in Executors : exec[f].pc = "complete"
    BY <2>1 DEF Inv, SharedState, CertifiedCompletion, Settled, PendingTarget
  <2>2. CASE q.pc = "complete"
    <3>1. \A r \in Reviewers : section[Verdict(r)] = "PASS"
      BY <2>2, PlanAssumption DEF Inv, Judged
    <3>2. \A r \in Reviewers : section[Policy[r].outputs[1]] = "PASS"
      BY <3>1 DEF Verdict
    <3> QED BY <2>2, <3>2 DEF Approved, SharedState, CertifiedCompletion, Settled, PendingTarget
  <2> QED BY <1>4, <2>1, <2>2 DEF CertifiedCompletion
<1>6. ASSUME NEW f \in Executors
      PROVE  Asked(exec[f])' /\ (f \in latest' => Informed(exec[f])')
  <2>1. CASE f = e
    <3>1. Asked(exec[e])'
      BY <1>4, AskedCarry
    <3>2. e \in latest' => Informed(q)'
      BY InformedFrame DEF SharedState
    <3>3. e \in latest' => Informed(exec[e])'
      BY <1>4, <3>2, InformedCarry
    <3> QED BY <2>1, <3>1, <3>3
  <2>2. CASE f # e
    <3>1. PICK p : p = exec[f]
      OBVIOUS
    <3>2. exec'[f] = p
      BY <1>4, <2>2, <3>1
    <3>3. Asked(p) /\ (f \in latest => Informed(p))
      BY <3>1 DEF Inv
    <3>4. f \in latest' => f \in latest
      BY <2>2
    <3>5. f \in latest' => Informed(p)'
      BY <3>3, <3>4, InformedFrame DEF SharedState
    <3>6. Asked(exec[f])'
      BY <3>2, <3>3, AskedCarry
    <3>7. f \in latest' => Informed(exec[f])'
      BY <3>2, <3>5, InformedCarry
    <3> QED BY <3>6, <3>7
  <2> QED BY <2>1, <2>2
<1> QED BY <1>2, <1>3, <1>5, <1>6 DEF Inv

\* A write of executor e: from now on e alone holds the latest version.
LEMMA WriteStep ==
    ASSUME Inv, NEW e \in Executors, NEW q \in Attempt,
           exec' = [exec EXCEPT ![e] = q], latest' = {e},
           TypeOK', Ordered', Judged', Fresh',
           \A f \in Executors : exec[f].pc # "complete",
           Asked(q), Informed(q)', q.pc # "complete"
    PROVE  Inv'
<1>1. exec \in [Executors -> Attempt]
  BY TypeOfState DEF Inv
<1>2. exec'[e] = q /\ \A f \in Executors : f # e => exec'[f] = exec[f]
  BY <1>1
<1>3. CertifiedCompletion'
  BY <1>2 DEF CertifiedCompletion
<1>4. ASSUME NEW f \in Executors
      PROVE  Asked(exec[f])' /\ (f \in latest' => Informed(exec[f])')
  <2>1. CASE f = e
    <3>1. Asked(exec[e])' /\ Informed(exec[e])'
      BY <1>2, AskedCarry, InformedCarry
    <3> QED BY <2>1, <3>1
  <2>2. CASE f # e
    <3>1. PICK p : p = exec[f]
      OBVIOUS
    <3>2. exec'[f] = p /\ Asked(p)
      BY <1>2, <2>2, <3>1 DEF Inv
    <3> QED BY <2>2, <3>2, AskedCarry
  <2> QED BY <2>1, <2>2
<1> QED BY <1>3, <1>4 DEF Inv

LEMMA AttemptOf ==
    ASSUME TypeOK, NEW e \in Executors
    PROVE  exec[e] \in Attempt /\ exec \in [Executors -> Attempt]
BY TypeOfState

\* An attempt that ends, in any way but completion, disturbs nobody.
LEMMA EndStep ==
    ASSUME Inv, NEW e \in Executors, NEW how \in Ended \ {"complete"}, exec' = End(e, how),
           UNCHANGED SharedState, latest' \subseteq latest \cup {e}
    PROVE  Inv'
<1> DEFINE q == [IdleExecutor EXCEPT !.pc = how, !.decision = exec[e].decision]
<1>1. exec[e] \in Attempt
  BY AttemptOf DEF Inv
<1>2. q \in Attempt
  <2>1. /\ exec[e].decision \in Decision /\ how \in {"idle"} \cup Active \cup Ended
        /\ 0 \in 0 .. MaxDecisions
    BY <1>1, BoundAssumption DEF Attempt
  <2>2. NoDecision \in Decision
    BY DEF NoDecision, Decision
  <2>3. IdleExecutor \in Attempt
    BY <2>1, <2>2 DEF IdleExecutor, Attempt, Values
  <2> QED BY <2>1, <2>3 DEF Attempt
<1>3. q.pc = how /\ how \notin Working \cup {"recording", "complete"}
  BY DEF IdleExecutor, Ended, Working
<1>4. exec' = [exec EXCEPT ![e] = q]
  BY DEF End
<1> HIDE DEF q
<1>5. Asked(q) /\ Informed(q)
  BY <1>3 DEF Asked, Informed, Working
<1> QED BY <1>2, <1>3, <1>4, <1>5, LocalStep

\* An attempt that goes back to the top of its loop disturbs nobody.
LEMMA LoadingStep ==
    ASSUME Inv, NEW e \in Executors, NEW q \in Attempt, q.pc = "loading",
           exec' = [exec EXCEPT ![e] = q],
           UNCHANGED SharedState, latest' \subseteq latest \cup {e}
    PROVE  Inv'
<1>1. Asked(q) /\ Informed(q)
  BY DEF Asked, Informed, Working
<1> QED BY <1>1, LocalStep

LEMMA StartStep == ASSUME Inv, NEW e \in Executors, Start(e) PROVE Inv'
<1> DEFINE q == [exec[e] EXCEPT !.pc = "loading"]
<1>1. exec[e] \in Attempt /\ exec \in [Executors -> Attempt]
  BY AttemptOf DEF Inv
<1>2. q \in Attempt /\ q.pc = "loading"
  BY <1>1 DEF Attempt, Active
<1>3. exec' = [exec EXCEPT ![e] = q]
  BY <1>1 DEF Start
<1> HIDE DEF q
<1> QED BY <1>2, <1>3, LoadingStep DEF Start, SharedState

LEMMA LoadStep == ASSUME Inv, NEW e \in Executors, Load(e) PROVE Inv'
<1> DEFINE q == [exec[e] EXCEPT !.pc = "recording", !.decisions = exec[e].decisions + 1,
                                !.decision = NextDecision]
<1>1. exec[e] \in Attempt /\ exec \in [Executors -> Attempt]
  BY AttemptOf DEF Inv
<1>2. Sound(NextDecision)
  BY NextDecisionIsSound DEF Inv
<1>3. NextDecision \in Decision /\ exec[e].decisions + 1 \in 0 .. MaxDecisions
  BY <1>1, <1>2, BoundAssumption DEF Sound, Attempt, Load
<1>4. q \in Attempt /\ q.pc = "recording" /\ q.decision = NextDecision
  BY <1>1, <1>3 DEF Attempt, Active
<1>5. exec' = [exec EXCEPT ![e] = q]
  BY <1>1 DEF Load
<1> HIDE DEF q
<1>6. Asked(q) /\ Informed(q)
  BY <1>2, <1>4 DEF Asked, Informed, Working
<1> QED BY <1>4, <1>5, <1>6, LocalStep DEF Load, SharedState

LEMMA DecisionLimitStep == ASSUME Inv, NEW e \in Executors, DecisionLimit(e) PROVE Inv'
BY EndStep DEF DecisionLimit, SharedState, Ended

LEMMA HandlerRaisesStep ==
    ASSUME Inv, NEW e \in Executors, NEW how, HandlerRaises(e, how) PROVE Inv'
BY EndStep DEF HandlerRaises, SharedState, Ended

LEMMA CrashStep == ASSUME Inv, NEW e \in Executors, Crash(e) PROVE Inv'
BY EndStep DEF Crash, SharedState, Ended

LEMMA ResultsType ==
    ASSUME NEW s, NEW v \in Results(s)
    PROVE  /\ v \in Values /\ v # "empty"
           /\ s \in Reviewers => v \in {"PASS", "REVISE"}
           /\ v = "REVISE" => s \in Reviewers
<1>1. CASE s \in Reviewers
  <2>1. Results(s) = {"PASS", "REVISE"}
    BY <1>1 DEF Results
  <2> QED BY <1>1, <2>1 DEF Values
<1>2. CASE s \notin Reviewers
  <2>1. v \in {"PASS", "BLOCKED", "set", "unclear"}
    BY <1>2 DEF Results
  <2> QED BY <1>2, <2>1 DEF Values
<1> QED BY <1>1, <1>2

LEMMA TargetIsStage ==
    ASSUME NEW r \in Reviewers, NEW t \in Targets[r]
    PROVE  /\ r \in Stages /\ t \in Stages /\ t \notin Reviewers
           /\ \A s \in Stages : Position[s] >= Position[r] => s \in Downstream[t]
BY PlanAssumption

\* The outputs of a stage, as PlanAssumption gives them.
LEMMA OutputsOf ==
    ASSUME NEW s \in Stages
    PROVE  /\ Len(Policy[s].outputs) \in Nat \ {0}
           /\ DOMAIN Policy[s].outputs = 1 .. Len(Policy[s].outputs)
           /\ \A i, j \in DOMAIN Policy[s].outputs :
                Policy[s].outputs[i] = Policy[s].outputs[j] => i = j
BY PlanAssumption

LEMMA VerdictOf ==
    ASSUME NEW r \in Reviewers
    PROVE  /\ r \in Stages /\ Len(Policy[r].outputs) = 2
           /\ DOMAIN Policy[r].outputs = 1 .. 2
           /\ Policy[r].outputs[2] = HistorySection
           /\ Verdict(r) # HistorySection /\ Verdict(r) \in OutputSet(r)
           /\ Verdict(r) \notin EmptySections
<1>1. /\ r \in Stages /\ Len(Policy[r].outputs) = 2 /\ Policy[r].outputs[2] = HistorySection
      /\ Policy[r].outputs[1] \notin EmptySections
  BY PlanAssumption
<1>2. DOMAIN Policy[r].outputs = 1 .. 2 /\ 1 \in 1 .. 2 /\ 2 \in 1 .. 2
  BY <1>1, OutputsOf
<1>3. Policy[r].outputs[1] # Policy[r].outputs[2]
  BY <1>1, <1>2, OutputsOf
<1>4. Policy[r].outputs[1] \in OutputSet(r)
  BY <1>2 DEF OutputSet
<1> QED BY <1>1, <1>2, <1>3, <1>4 DEF Verdict

LEMMA HandlerReturnsStep == ASSUME Inv, NEW e \in Executors, HandlerReturns(e) PROVE Inv'
<1> DEFINE s == StageOf(e)
<1>1. PICK value \in Results(s) :
        \E target \in (IF value = "REVISE" THEN Targets[s] ELSE {None}) :
          /\ value = "REVISE" => ~OverBudget(e) /\ Len(history) < MaxHistory
          /\ exec' = [exec EXCEPT ![e].pc = "writing", ![e].next = 1,
                                  ![e].value = value, ![e].target = target]
  BY DEF HandlerReturns
<1>2. PICK target \in (IF value = "REVISE" THEN Targets[s] ELSE {None}) :
          /\ value = "REVISE" => ~OverBudget(e) /\ Len(history) < MaxHistory
          /\ exec' = [exec EXCEPT ![e].pc = "writing", ![e].next = 1,
                                  ![e].value = value, ![e].target = target]
  BY <1>1
<1> DEFINE q == [exec[e] EXCEPT !.pc = "writing", !.next = 1, !.value = value,
                                !.target = target]
<1>3. exec[e] \in Attempt /\ exec \in [Executors -> Attempt]
  BY AttemptOf DEF Inv
<1>4. exec[e].pc = "running" /\ UNCHANGED SharedState /\ latest' = latest
  BY DEF HandlerReturns, SharedState
<1>5. s = exec[e].decision.stage /\ s \in Stages
  BY <1>4 DEF Inv, Asked, Working, StageOf
<1>6. value \in Values /\ (value = "REVISE" => s \in Reviewers)
  BY ResultsType
<1>7. target \in Stages \cup {None} /\ (value = "REVISE" => target \in Targets[s])
  BY <1>6, TargetIsStage
<1>8. q \in Attempt
  BY <1>3, <1>6, <1>7 DEF Attempt, Active
<1>9. /\ q.pc = "writing" /\ q.next = 1 /\ q.value = value /\ q.target = target
      /\ q.decision = exec[e].decision /\ q.asked = exec[e].asked
  BY <1>3 DEF Attempt
<1>10. exec' = [exec EXCEPT ![e] = q]
  BY <1>2, <1>3
<1>11. exec[e].asked \in Nat
  BY <1>3 DEF Attempt
<1>12. value = "REVISE" /\ s \in Budgeted => exec[e].asked < MaxRevisions
  BY <1>2, <1>11, BoundAssumption DEF OverBudget
<1>13. 1 \in DOMAIN Policy[s].outputs
  BY <1>5, OutputsOf
<1> HIDE DEF q
<1>14. Asked(q)
  BY <1>5, <1>6, <1>7, <1>9, <1>12, <1>13 DEF Asked
<1>15. Informed(exec[e]) => Informed(q)
  <2> SUFFICES ASSUME Informed(exec[e]) PROVE Informed(q)
    OBVIOUS
  <2>1. First(s) /\ Handling(exec[e], s)
    BY <1>4, <1>5 DEF Informed, Working
  <2>2. Handling(q, s)
    BY <1>9, <2>1 DEF Handling
  <2>3. Writing(q, s)
    BY <1>9 DEF Writing
  <2> QED BY <1>5, <1>9, <2>1, <2>2, <2>3 DEF Informed
<1>16. e \in latest' => Informed(q)
  BY <1>4, <1>15 DEF Inv
<1> QED BY <1>4, <1>8, <1>9, <1>10, <1>14, <1>16, LocalStep

\* Once an attempt has completed, no stage is left to do.
LEMMA NobodyComplete ==
    ASSUME Inv, NEW s \in Unsettled
    PROVE  \A f \in Executors : exec[f].pc # "complete"
BY DEF Inv, CertifiedCompletion, Unsettled

\* Progress with stages A settled in addition.
LEMMA SettleMore ==
    ASSUME Inv, TypeOK', UNCHANGED <<section, history, edits, stale>>,
           NEW s, First(s), Settled' = Settled \cup {s},
           progress'.invalidated \in {progress.invalidated, progress.invalidated \ {s}},
           history # <<>> /\ PendingTarget = None
             => Unsettled \ {s} \subseteq progress'.invalidated,
           s \in Reviewers =>
             /\ section[Verdict(s)] = "REVISE"
                  => PendingTarget # None /\ s \in Downstream[PendingTarget]
             /\ section[Verdict(s)] \in {"PASS", "REVISE"},
           edits = 0 => s \notin stale
    PROVE  Ordered' /\ Judged' /\ Fresh'
<1>1. PendingTarget' = PendingTarget /\ Unsettled' = Unsettled \ {s}
  BY DEF PendingTarget, Unsettled
<1>2. Policy[s].dependencies \subseteq Settled
  BY FirstDependencies DEF Inv
<1>3. Ordered'
  BY <1>1, <1>2 DEF Inv, Ordered
<1>4. Judged'
  BY <1>1 DEF Inv, Judged, OneOpenRevision, RevisionBudget, RequestsBy
<1>5. Fresh'
  <2>1. \A u : /\ Untouched(u)' <=> Untouched(u)
               /\ OutputsPresent(u)' <=> OutputsPresent(u)
               /\ InOrder(u)' <=> InOrder(u)
    BY DEF Untouched, OutputsPresent, InOrder, Written, Present
  <2>2. SUFFICES ASSUME edits = 0
        PROVE  /\ Settled' \cap stale = {}
               /\ history = <<>> =>
                    /\ \A u, v \in Unsettled' : Position[v] < Position[u] => Untouched(u)
                    /\ \A u \in Unsettled' \cap stale : ~ OutputsPresent(u)
                    /\ \A u \in Unsettled' : InOrder(u)
    BY <2>1 DEF Fresh
  <2> QED BY <1>1, <2>2 DEF Inv, Fresh
<1> QED BY <1>3, <1>4, <1>5

\* Progress with no stage settled in addition, and everything unsettled invalidated.
LEMMA SettleFewer ==
    ASSUME Inv, TypeOK', UNCHANGED <<section, history, edits, stale>>, history # <<>>,
           Settled' \subseteq Settled, Unsettled' \subseteq progress'.invalidated,
           PendingTarget # None => Unsettled' \subseteq Downstream[PendingTarget],
           \A s \in Settled' : Policy[s].dependencies \subseteq Settled'
    PROVE  Ordered' /\ Judged' /\ Fresh'
<1>1. PendingTarget' = PendingTarget
  BY DEF PendingTarget
<1>2. Ordered'
  BY <1>1 DEF Inv, Ordered
<1>3. Judged'
  BY <1>1 DEF Inv, Judged, OneOpenRevision, RevisionBudget, RequestsBy
<1>4. Fresh'
  BY DEF Inv, Fresh
<1> QED BY <1>2, <1>3, <1>4

LEMMA StartedType ==
    ASSUME TypeOK, NEW p, NEW s \in Stages,
           p \in [current: Stages \cup {None}, completed: SUBSET Stages,
                  skipped: SUBSET Stages, invalidated: SUBSET Stages,
                  attempts: [Stages -> Nat]]
    PROVE  /\ Started(p, s) \in [current: Stages \cup {None}, completed: SUBSET Stages,
                                 skipped: SUBSET Stages, invalidated: SUBSET Stages,
                                 attempts: [Stages -> Nat]]
           /\ Started(p, s).completed = p.completed /\ Started(p, s).skipped = p.skipped
           /\ Started(p, s).invalidated = p.invalidated
<1> DEFINE a == [p.attempts EXCEPT ![s] = p.attempts[s] + 1]
<1>1. p.attempts \in [Stages -> Nat]
  OBVIOUS
<1>2. a \in [Stages -> Nat]
  BY <1>1
<1>3. Started(p, s) = [p EXCEPT !.current = s, !.attempts = a]
  BY DEF Started
<1> HIDE DEF a
<1> QED BY <1>2, <1>3

LEMMA InvalidatedType ==
    ASSUME TypeOK, NEW s \in Stages
    PROVE  /\ Invalidated(progress, s) \in
                [current: Stages \cup {None}, completed: SUBSET Stages, skipped: SUBSET Stages,
                 invalidated: SUBSET Stages, attempts: [Stages -> Nat]]
           /\ Invalidated(progress, s).completed = progress.completed \ Downstream[s]
           /\ Invalidated(progress, s).skipped = progress.skipped \ Downstream[s]
           /\ Invalidated(progress, s).invalidated = Downstream[s]
<1>1. Downstream[s] \subseteq Stages
  BY DownstreamClosed
<1> QED BY <1>1 DEF Invalidated, TypeOK

LEMMA RecordDecisionStep == ASSUME Inv, NEW e \in Executors, RecordDecision(e) PROVE Inv'
<1>0. PICK s : s = exec[e].decision.stage
  OBVIOUS
<1> DEFINE d == exec[e].decision
           load == [exec[e] EXCEPT !.pc = "loading"]
           run == [exec[e] EXCEPT !.pc = "running", !.asked = RequestsBy(s)]
<1>1. TypeOK /\ Ordered /\ Judged /\ Fresh
  BY DEF Inv
<1>2. exec[e] \in Attempt /\ exec \in [Executors -> Attempt] /\ exec[e].pc = "recording"
  BY <1>1, AttemptOf DEF RecordDecision
<1>3. load \in Attempt /\ load.pc = "loading"
      /\ [exec EXCEPT ![e].pc = "loading"] = [exec EXCEPT ![e] = load]
  BY <1>2 DEF Attempt, Active
<1>4. CASE Conflict(e) /\ exec' = [exec EXCEPT ![e].pc = "loading"]
  <2> HIDE DEF load
  <2> QED BY <1>3, <1>4, LoadingStep DEF Conflict, SharedState
<1>5. CASE /\ Write(e)
           /\ progress' = Recorded(progress, d)
           /\ exec' = CASE d.action = "SKIP" -> [exec EXCEPT ![e].pc = "loading"]
                        [] d.action = "STOP" ->
                             End(e, IF d.reason = "complete" THEN "complete" ELSE "fatal")
                        [] OTHER -> [exec EXCEPT ![e].pc = "running",
                                                 ![e].asked = RequestsBy(d.stage)]
           /\ UNCHANGED <<section, history, edits, stale>>
  <2>1. e \in latest /\ latest' = {e} /\ UNCHANGED <<section, history, edits, stale>>
    BY <1>5 DEF Write
  <2>2. Informed(exec[e])
    BY <2>1 DEF Inv
  <2>3. Sound(d) /\ d \in Decision
    BY <1>2, <2>2 DEF Informed, Sound
  <2>4. progress \in [current: Stages \cup {None}, completed: SUBSET Stages,
                      skipped: SUBSET Stages, invalidated: SUBSET Stages,
                      attempts: [Stages -> Nat]]
    BY <1>1, TypeOfState
  <2>5. CASE d.action = "STOP"
    <3> DEFINE how == IF d.reason = "complete" THEN "complete" ELSE "fatal"
               q == [IdleExecutor EXCEPT !.pc = how, !.decision = exec[e].decision]
    <3>1. exec' = End(e, how) /\ progress' = progress
      BY <1>5, <2>5 DEF Recorded
    <3>2. UNCHANGED SharedState
      BY <2>1, <3>1 DEF SharedState
    <3>3. CASE how = "fatal"
      <4>1. exec' = End(e, "fatal") /\ "fatal" \in Ended \ {"complete"}
        BY <3>1, <3>3 DEF Ended
      <4> HIDE DEF how
      <4> QED BY <2>1, <3>2, <4>1, EndStep
    <3>4. CASE how = "complete"
      <4>1. Settled = Stages /\ PendingTarget = None /\ Approved
        BY <2>3, <2>5, <3>4 DEF Sound
      <4> DEFINE c == [IdleExecutor EXCEPT !.pc = "complete", !.decision = exec[e].decision]
      <4>2. exec' = [exec EXCEPT ![e] = c]
        BY <3>1, <3>4 DEF End
      <4>3. NoDecision \in Decision /\ 0 \in 0 .. MaxDecisions
        BY BoundAssumption DEF NoDecision, Decision
      <4>4. IdleExecutor \in Attempt
        BY <4>3 DEF IdleExecutor, Attempt, Values
      <4>5. c \in Attempt /\ c.pc = "complete"
        BY <2>3, <4>4 DEF Attempt, Ended
      <4> HIDE DEF c
      <4>6. Asked(c) /\ Informed(c)
        BY <4>5 DEF Asked, Informed, Working
      <4> QED BY <2>1, <3>2, <4>1, <4>2, <4>5, <4>6, LocalStep
    <3> QED BY <3>3, <3>4
  <2>6. CASE d.action = "SKIP"
    <3>1. PendingTarget = None /\ First(s) /\ Skippable(s)
      BY <1>0, <2>3, <2>6 DEF Sound
    <3>2. s \in Stages /\ s \in Unsettled
      BY <3>1 DEF First, Unsettled
    <3>3. exec' = [exec EXCEPT ![e] = load]
      BY <1>3, <1>5, <2>6
    <3>31. PICK q : q = load
      OBVIOUS
    <3> HIDE DEF load
    <3>4. progress' = [progress EXCEPT !.skipped = @ \cup {s}, !.current = None]
      BY <1>0, <1>5, <2>6 DEF Recorded
    <3>5. /\ progress' \in [current: Stages \cup {None}, completed: SUBSET Stages,
                            skipped: SUBSET Stages, invalidated: SUBSET Stages,
                            attempts: [Stages -> Nat]]
          /\ progress'.completed = progress.completed
          /\ progress'.skipped = progress.skipped \cup {s}
          /\ progress'.invalidated = progress.invalidated
      BY <2>4, <3>2, <3>4
    <3>6. TypeOK'
      BY <1>1, <1>2, <1>3, <2>1, <3>3, <3>5 DEF TypeOK, Attempt
    <3>7. Settled' = Settled \cup {s}
      BY <3>5 DEF Settled
    <3>8. history = <<>>
      BY <1>1, <3>1, <3>2 DEF Ordered, Skippable
    <3>9. s \notin Reviewers
      <4> SUFFICES ASSUME s \in Reviewers PROVE FALSE
        OBVIOUS
      <4>1. HistorySection \in OutputSet(s)
        BY VerdictOf DEF OutputSet
      <4> QED BY <3>1, <3>8, <4>1 DEF Skippable, OutputsPresent, Present
    <3>10. edits = 0 => s \notin stale
      BY <1>1, <3>1, <3>8, <3>2 DEF Fresh, Skippable
    <3>11. Ordered' /\ Judged' /\ Fresh'
      BY <2>1, <3>1, <3>8, <3>5, <3>6, <3>7, <3>9, <3>10, SettleMore
    <3>12. q.pc = "loading"
      BY <1>3, <3>31
    <3>13. Asked(q) /\ Informed(q)'
      BY <3>12 DEF Asked, Informed, Working
    <3>14. \A f \in Executors : exec[f].pc # "complete"
      BY <3>2, NobodyComplete
    <3> QED BY <1>3, <2>1, <3>3, <3>31, <3>6, <3>11, <3>12, <3>13, <3>14, WriteStep
  <2>7. ASSUME d.action \in {"REVISE", "CONTINUE", "RETRY"}
        PROVE  /\ exec' = [exec EXCEPT ![e] = run] /\ RequestsBy(s) \in Nat
               /\ run \in Attempt /\ run.pc = "running" /\ run.asked = RequestsBy(s)
               /\ run.decision = exec[e].decision
    <3>1. exec' = [exec EXCEPT ![e].pc = "running", ![e].asked = RequestsBy(s)]
      BY <1>0, <1>5, <2>7
    <3>2. RequestsBy(s) \in Nat
      <4> DEFINE X == {i \in DOMAIN history : history[i].by = s}
      <4>1. history \in Seq(Revision) /\ Len(history) \in Nat /\ DOMAIN history = 1 .. Len(history)
        BY <1>1 DEF TypeOK
      <4>2. IsFiniteSet(1 .. Len(history)) /\ X \subseteq 1 .. Len(history)
        BY <4>1, FS_Interval
      <4>3. Cardinality(X) \in Nat
        BY <4>2, FS_Subset, FS_CardinalityType
      <4> QED BY <4>3 DEF RequestsBy
    <3>3. run \in Attempt /\ run.pc = "running" /\ run.asked = RequestsBy(s)
          /\ run.decision = exec[e].decision
      BY <1>2, <3>2 DEF Attempt, Active
    <3> QED BY <1>2, <3>1, <3>2, <3>3
  <2>8. CASE d.action = "REVISE"
    <3>1. PendingTarget # None /\ s = PendingTarget /\ s \in Stages
      BY <1>0, <1>1, <2>3, <2>8, PendingType DEF Sound
    <3>2. history # <<>>
      BY <1>1, <3>1, PendingType
    <3>3. progress' = Started(Invalidated(progress, s), s)
      BY <1>0, <1>5, <2>8 DEF Recorded
    <3>4. /\ progress' \in [current: Stages \cup {None}, completed: SUBSET Stages,
                            skipped: SUBSET Stages, invalidated: SUBSET Stages,
                            attempts: [Stages -> Nat]]
          /\ progress'.completed = progress.completed \ Downstream[s]
          /\ progress'.skipped = progress.skipped \ Downstream[s]
          /\ progress'.invalidated = Downstream[s]
      BY <1>1, <3>1, <3>3, StartedType, InvalidatedType
    <3>5. TypeOK'
      <4>1. run \in Attempt /\ exec' = [exec EXCEPT ![e] = run]
        BY <2>7, <2>8
      <4> HIDE DEF run
      <4>2. exec' \in [Executors -> Attempt]
        BY <1>2, <4>1
      <4> QED BY <1>1, <2>1, <3>4, <4>2 DEF TypeOK, Attempt
    <3>6. Downstream[s] \subseteq Stages /\ s \in Downstream[s]
          /\ \A v \in Stages : Policy[v].dependencies \cap Downstream[s] # {}
                                 => v \in Downstream[s]
      BY <3>1, DownstreamClosed
    <3>7. Settled' = Settled \ Downstream[s] /\ Settled \subseteq Stages
      BY <1>1, <3>4 DEF Settled, TypeOK
    <3>8. Unsettled' = Downstream[s]
      <4>1. Unsettled \subseteq Downstream[s]
        BY <1>1, <3>1 DEF Ordered
      <4> QED BY <3>6, <3>7, <4>1 DEF Unsettled
    <3>9. \A v \in Settled' : Policy[v].dependencies \subseteq Settled'
      BY <1>1, <3>6, <3>7 DEF Ordered
    <3>10. Ordered' /\ Judged' /\ Fresh'
      BY <2>1, <3>1, <3>8, <3>2, <3>4, <3>5, <3>7, <3>9, SettleFewer
    <3>11. First(s)'
      BY <3>6, <3>1, <3>8, DownstreamLater DEF First
    <3>12. PendingTarget' = PendingTarget /\ RequestsBy(s)' = RequestsBy(s)
      BY <2>1 DEF PendingTarget, RequestsBy
    <3>13. run.pc = "running" /\ run.asked = RequestsBy(s) /\ run.decision.stage = s
      BY <1>0, <2>7, <2>8
    <3>14. exec' = [exec EXCEPT ![e] = run] /\ run \in Attempt
      BY <2>7, <2>8
    <3>15. \A f \in Executors : exec[f].pc # "complete"
      BY <3>1 DEF Inv, CertifiedCompletion
    <3>16. PICK q : q = run
      OBVIOUS
    <3> HIDE DEF run
    <3>18. Handling(q, s)'
      <4>1. q.asked = RequestsBy(s)
        BY <3>13, <3>16
      <4>2. q.asked = RequestsBy(s)'
        BY <3>12, <4>1
      <4> QED BY <2>1, <3>1, <3>8, <3>2, <3>4, <3>12, <4>2 DEF Handling
    <3>20. q.pc = "running" /\ q.decision.stage = s
      BY <3>13, <3>16
    <3>21. Asked(q) /\ Informed(q)'
      BY <3>1, <3>11, <3>18, <3>20 DEF Asked, Informed, Working
    <3> QED BY <2>1, <3>5, <3>10, <3>14, <3>15, <3>16, <3>20, <3>21, WriteStep
  <2>9. CASE d.action \in {"CONTINUE", "RETRY"}
    <3>1. PendingTarget = None /\ First(s) /\ ~ Skippable(s)
      BY <1>0, <2>3, <2>9 DEF Sound
    <3>2. s \in Stages /\ s \in Unsettled
      BY <3>1 DEF First, Unsettled
    <3>3. progress' = Started(progress, s)
      BY <1>0, <1>5, <2>9 DEF Recorded
    <3>4. /\ progress' \in [current: Stages \cup {None}, completed: SUBSET Stages,
                            skipped: SUBSET Stages, invalidated: SUBSET Stages,
                            attempts: [Stages -> Nat]]
          /\ progress'.completed = progress.completed
          /\ progress'.skipped = progress.skipped
          /\ progress'.invalidated = progress.invalidated
      BY <1>1, <2>4, <3>2, <3>3, StartedType
    <3>5. exec' = [exec EXCEPT ![e] = run] /\ run \in Attempt
      BY <2>7, <2>9
    <3>6. run.pc = "running" /\ run.asked = RequestsBy(s) /\ run.decision.stage = s
      BY <1>0, <2>7, <2>9
    <3>7. PICK q : q = run
      OBVIOUS
    <3> HIDE DEF run
    <3>9. TypeOK'
      <4>1. exec' \in [Executors -> Attempt]
        BY <1>2, <3>5
      <4> QED BY <1>1, <2>1, <3>4, <4>1 DEF TypeOK, Attempt
    <3>10. Settled' = Settled /\ Unsettled' = Unsettled /\ PendingTarget' = PendingTarget
      BY <2>1, <3>4 DEF Settled, Unsettled, PendingTarget
    <3>11. Ordered'
      BY <1>1, <2>1, <3>4, <3>10 DEF Ordered
    <3>12. Judged'
      BY <1>1, <2>1, <3>10 DEF Judged, OneOpenRevision, RevisionBudget, RequestsBy
    <3>13. Fresh'
      BY <1>1, <2>1, <3>10 DEF Fresh, Untouched, OutputsPresent, InOrder, Written, Present
    <3>14. First(s)'
      BY <3>1, <3>10 DEF First
    <3>15. edits = 0 /\ history = <<>> => ~ OutputsPresent(s)
      BY <1>1, <3>1 DEF Ordered, Skippable
    <3>16. Handling(q, s)'
      <4>1. q.asked = RequestsBy(s)'
        BY <2>1, <3>6, <3>7 DEF RequestsBy
      <4>2. edits' = 0 /\ history' = <<>> => ~ OutputsPresent(s)'
        BY <2>1, <3>15 DEF OutputsPresent, Present
      <4> QED BY <3>1, <3>10, <4>1, <4>2 DEF Handling
    <3>17. q.pc = "running" /\ q.decision.stage = s
      BY <3>6, <3>7
    <3>18. Asked(q) /\ Informed(q)'
      BY <3>2, <3>14, <3>16, <3>17 DEF Asked, Informed, Working
    <3>19. \A f \in Executors : exec[f].pc # "complete"
      BY <3>2, NobodyComplete
    <3> QED BY <2>1, <3>5, <3>7, <3>9, <3>11, <3>12, <3>13, <3>17, <3>18, <3>19, WriteStep
  <2> QED BY <2>3, <2>5, <2>6, <2>8, <2>9 DEF Decision
<1> QED BY <1>4, <1>5 DEF RecordDecision

LEMMA CompleteStageStep == ASSUME Inv, NEW e \in Executors, CompleteStage(e) PROVE Inv'
<1>1. PICK s : s = exec[e].decision.stage
  OBVIOUS
<1>2. PICK q : q = [exec[e] EXCEPT !.pc = "loading", !.value = "empty", !.target = None,
                                   !.next = 1, !.asked = 0]
  OBVIOUS
<1>3. TypeOK /\ Ordered /\ Judged /\ Fresh
  BY DEF Inv
<1>4. exec[e] \in Attempt /\ exec \in [Executors -> Attempt] /\ exec[e].pc = "completing"
  BY <1>3, AttemptOf DEF CompleteStage
<1>5. q \in Attempt /\ q.pc = "loading"
  BY <1>2, <1>4 DEF Attempt, Active, Values
<1>6. exec' = [exec EXCEPT ![e] = q]
  BY <1>2, <1>4 DEF CompleteStage
<1>7. CASE Conflict(e)
  BY <1>5, <1>6, <1>7, LoadingStep DEF Conflict, SharedState
<1>8. CASE /\ Write(e) /\ progress' = StageCompleted(progress, s)
           /\ UNCHANGED <<section, history, edits, stale>>
  <2>1. e \in latest /\ latest' = {e} /\ UNCHANGED <<section, history, edits, stale>>
    BY <1>8 DEF Write
  <2>2. First(s) /\ Completing(s) /\ (edits = 0 => s \notin stale)
    BY <1>1, <1>4, <2>1 DEF Inv, Informed, Working
  <2>3. s \in Stages /\ s \in Unsettled
    BY <2>2 DEF First, Unsettled
  <2>4. /\ progress' \in [current: Stages \cup {None}, completed: SUBSET Stages,
                          skipped: SUBSET Stages, invalidated: SUBSET Stages,
                          attempts: [Stages -> Nat]]
        /\ progress'.completed = progress.completed \cup {s}
        /\ progress'.skipped = progress.skipped
        /\ progress'.invalidated = progress.invalidated \ {s}
    <3>1. progress \in [current: Stages \cup {None}, completed: SUBSET Stages,
                        skipped: SUBSET Stages, invalidated: SUBSET Stages,
                        attempts: [Stages -> Nat]]
      BY <1>3, TypeOfState
    <3> QED BY <1>8, <2>3, <3>1 DEF StageCompleted
  <2>5. TypeOK'
    <3>1. exec' \in [Executors -> Attempt]
      BY <1>4, <1>5, <1>6
    <3> QED BY <1>3, <2>1, <2>4, <3>1 DEF TypeOK, Attempt
  <2>6. Settled' = Settled \cup {s}
    BY <2>4 DEF Settled
  <2>7. history # <<>> /\ PendingTarget = None => Unsettled \ {s} \subseteq progress'.invalidated
    BY <1>3, <2>4 DEF Ordered
  <2>8. Ordered' /\ Judged' /\ Fresh'
    BY <2>1, <2>2, <2>4, <2>5, <2>6, <2>7, SettleMore DEF Completing
  <2>9. Asked(q) /\ Informed(q)'
    BY <1>5 DEF Asked, Informed, Working
  <2>10. \A f \in Executors : exec[f].pc # "complete"
    BY <2>3, NobodyComplete
  <2> QED BY <1>5, <1>6, <2>1, <2>5, <2>8, <2>9, <2>10, WriteStep
<1> QED BY <1>1, <1>7, <1>8 DEF CompleteStage, StageOf

\* Marking the last request completed changes none of the others.
LEMMA CloseHistory ==
    ASSUME TypeOK, PendingTarget # None,
           history' = [history EXCEPT ![Len(history)].status = "completed"]
    PROVE  /\ history' \in Seq(Revision) /\ history' # <<>>
           /\ DOMAIN history' = DOMAIN history /\ Len(history') = Len(history)
           /\ Len(history) \in DOMAIN history
           /\ history'[Len(history)].status = "completed"
           /\ \A i \in DOMAIN history : /\ history'[i].by = history[i].by
                                        /\ history'[i].target = history[i].target
           /\ \A i \in DOMAIN history \ {Len(history)} : history'[i] = history[i]
<1>1. history \in Seq(Revision) /\ history # <<>> /\ Len(history) \in DOMAIN history
  BY PendingType DEF TypeOK
<1> DEFINE n == Len(history)
           last == [history[n] EXCEPT !.status = "completed"]
<1>2. history[n] \in Revision
  BY <1>1
<1>3. last \in Revision /\ last.status = "completed" /\ last.by = history[n].by
      /\ last.target = history[n].target
  BY <1>2 DEF Revision
<1>4. history' = [history EXCEPT ![n] = last]
  OBVIOUS
<1> HIDE DEF last
<1>5. history' \in Seq(Revision) /\ Len(history') = n /\ DOMAIN history' = DOMAIN history
  BY <1>1, <1>3, <1>4
<1>6. history'[n] = last /\ \A i \in DOMAIN history \ {n} : history'[i] = history[i]
  BY <1>1, <1>4
<1> QED BY <1>1, <1>3, <1>5, <1>6

LEMMA CloseRevisionStep == ASSUME Inv, NEW e \in Executors, CloseRevision(e) PROVE Inv'
<1>1. PICK s : s = exec[e].decision.stage
  OBVIOUS
<1>2. PICK q : q = [exec[e] EXCEPT !.pc = "completing"]
  OBVIOUS
<1>3. TypeOK /\ Ordered /\ Judged /\ Fresh
  BY DEF Inv
<1>4. exec[e] \in Attempt /\ exec \in [Executors -> Attempt] /\ exec[e].pc = "closing"
  BY <1>3, AttemptOf DEF CloseRevision
<1>5. CASE Conflict(e) /\ exec' = End(e, "error")
  BY <1>5, EndStep DEF Conflict, SharedState, Ended
<1>6. CASE /\ Write(e)
           /\ history' = [history EXCEPT ![Len(history)].status = "completed"]
           /\ exec' = [exec EXCEPT ![e].pc = "completing"]
           /\ UNCHANGED <<progress, section, edits, stale>>
  <2>1. e \in latest /\ latest' = {e} /\ UNCHANGED <<progress, section, edits, stale>>
    BY <1>6 DEF Write
  <2>2. /\ First(s) /\ s = PendingTarget /\ Unsettled \subseteq progress.invalidated
        /\ edits = 0 => s \notin stale
    BY <1>1, <1>4, <2>1 DEF Inv, Informed, Working
  <2>3. s \in Stages /\ s \in Unsettled /\ PendingTarget # None
    BY <2>2, BoundAssumption DEF First, Unsettled
  <2>4. /\ history' \in Seq(Revision) /\ history' # <<>>
        /\ DOMAIN history' = DOMAIN history /\ Len(history') = Len(history)
        /\ Len(history) \in DOMAIN history
        /\ history'[Len(history)].status = "completed"
        /\ \A i \in DOMAIN history : /\ history'[i].by = history[i].by
                                     /\ history'[i].target = history[i].target
        /\ \A i \in DOMAIN history \ {Len(history)} : history'[i] = history[i]
    BY <1>3, <1>6, <2>3, CloseHistory
  <2>5. q \in Attempt /\ q.pc = "completing" /\ q.decision.stage = s
    BY <1>1, <1>2, <1>4 DEF Attempt, Active
  <2>6. exec' = [exec EXCEPT ![e] = q]
    BY <1>2, <1>4, <1>6
  <2>7. TypeOK'
    <3>1. exec' \in [Executors -> Attempt]
      BY <1>4, <2>5, <2>6
    <3> QED BY <1>3, <2>1, <2>4, <3>1 DEF TypeOK, Attempt
  <2>8. Unsettled' = Unsettled /\ Settled' = Settled /\ PendingTarget' = None
    BY <2>1, <2>4 DEF Unsettled, Settled, PendingTarget
  <2>9. \A r : RequestsBy(r)' = RequestsBy(r)
    <3> TAKE r
    <3>1. {i \in DOMAIN history' : history'[i].by = r} = {i \in DOMAIN history : history[i].by = r}
      BY <2>4
    <3> QED BY <3>1 DEF RequestsBy
  <2>10. Ordered'
    BY <1>3, <2>1, <2>2, <2>4, <2>8 DEF Ordered
  <2>11. s \notin Reviewers
    <3>1. PendingTarget = history[Len(history)].target /\ Len(history) \in DOMAIN history
      BY <1>3, <2>3, PendingType
    <3>2. history[Len(history)] \in Revision
      BY <1>3, <3>1 DEF TypeOK
    <3>3. history[Len(history)].by \in Reviewers
      BY <3>2 DEF Revision
    <3> QED BY <1>3, <2>2, <3>1, <3>3, TargetIsStage DEF Judged
  <2>12. Judged'
    <3>1. OneOpenRevision'
      BY <1>3, <2>4 DEF Judged, OneOpenRevision
    <3>2. RevisionBudget'
      BY <1>3, <2>9 DEF Judged, RevisionBudget
    <3>3. \A i \in DOMAIN history' : history'[i].target \in Targets[history'[i].by]
      BY <1>3, <2>4 DEF Judged
    <3>4. ASSUME NEW r \in Reviewers \cap Settled
          PROVE  section[Verdict(r)] # "REVISE" /\ section[Verdict(r)] \in {"PASS", "REVISE"}
      <4>1. Downstream[s] \subseteq Unsettled
        BY <1>3, <2>3, UnsettledClosed
      <4>2. r \notin Downstream[s]
        BY <4>1 DEF Unsettled
      <4> QED BY <1>3, <2>2, <4>2 DEF Judged
    <3> QED BY <2>1, <2>8, <3>1, <3>2, <3>3, <3>4 DEF Judged
  <2>13. Fresh'
    BY <1>3, <2>1, <2>4, <2>8 DEF Fresh
  <2>14. First(s)' /\ Completing(s)' /\ (edits' = 0 => s \notin stale')
    BY <2>1, <2>2, <2>8, <2>11 DEF First, Completing
  <2>15. Asked(q) /\ Informed(q)'
    BY <2>3, <2>5, <2>14 DEF Asked, Informed, Working
  <2>16. \A f \in Executors : exec[f].pc # "complete"
    BY <2>3, NobodyComplete
  <2> QED BY <2>1, <2>5, <2>6, <2>7, <2>10, <2>12, <2>13, <2>15, <2>16, WriteStep
<1> QED BY <1>5, <1>6 DEF CloseRevision

LEMMA EditStep ==
    ASSUME Inv, VerdictsUntouched, NEW x \in Editable, Edit(x) PROVE Inv'
<1>1. TypeOK /\ Ordered /\ Judged /\ CertifiedCompletion
  BY DEF Inv
<1>2. /\ latest' = {} /\ edits' = edits + 1 /\ UNCHANGED <<progress, history, exec>>
      /\ section' = [section EXCEPT ![x] = "set"]
      /\ edits < MaxEdits
      /\ stale' = stale \cup Consumers(x)
  BY DEF Edit
<1>3. section \in [Sections \ {HistorySection} -> Values] /\ edits \in 0 .. MaxEdits
      /\ stale \subseteq Stages
  BY <1>1, TypeOfState
<1>4. section' \in [Sections \ {HistorySection} -> Values]
  BY <1>2, <1>3 DEF Values
<1>5. edits' \in 0 .. MaxEdits /\ edits' # 0
  BY <1>2, <1>3, BoundAssumption
<1>6. TypeOK'
  BY <1>1, <1>2, <1>3, <1>4, <1>5 DEF TypeOK, Consumers
<1>7. \A r \in Reviewers : x # Verdict(r)
  BY DEF VerdictsUntouched
<1>8. \A y : y # x => section'[y] = section[y]
  BY <1>2, <1>3
<1>9. section'["verification"] = section["verification"]
      /\ \A r \in Reviewers : section'[Verdict(r)] = section[Verdict(r)]
  BY <1>7, <1>8 DEF VerdictsUntouched
<1>10. Settled' = Settled /\ PendingTarget' = PendingTarget /\ Unsettled' = Unsettled
  BY <1>2 DEF Settled, PendingTarget, Unsettled
<1>11. Ordered'
  BY <1>1, <1>2, <1>10 DEF Ordered
<1>12. Judged'
  BY <1>1, <1>2, <1>9, <1>10 DEF Judged, OneOpenRevision, RevisionBudget, RequestsBy
<1>13. Fresh'
  BY <1>5 DEF Fresh
<1>14. CertifiedCompletion'
  BY <1>1, <1>2, <1>9, <1>10 DEF CertifiedCompletion, Verdict
<1>15. \A e \in Executors : Asked(exec[e])'
  BY <1>2 DEF Inv, Asked
<1> QED BY <1>2, <1>6, <1>11, <1>12, <1>13, <1>14, <1>15 DEF Inv

LEMMA OutputIsSection ==
    ASSUME NEW u \in Stages PROVE OutputSet(u) \subseteq Sections
<1> DEFINE Of(s) == Policy[s].required \cup OutputSet(s)
           All == UNION {Of(s) : s \in Stages}
<1>1. OutputSet(u) \subseteq Of(u)
  OBVIOUS
<1>2. All \subseteq Sections
  BY DEF Sections
<1> HIDE DEF Of
<1>3. Of(u) \subseteq All
  OBVIOUS
<1> QED BY <1>1, <1>2, <1>3

LEMMA InitInv == Init => Inv
<1> SUFFICES ASSUME Init PROVE Inv
  OBVIOUS
<1>1. /\ progress = [current |-> None, completed |-> {}, skipped |-> {}, invalidated |-> {},
                     attempts |-> [s \in Stages |-> 0]]
      /\ section = [x \in Sections \ {HistorySection} |->
                      IF x \in Provided THEN "set" ELSE "empty"]
      /\ history = <<>> /\ latest = {} /\ edits = 0 /\ stale = {}
      /\ exec = [e \in Executors |-> IdleExecutor]
  BY DEF Init
<1>2. NoDecision \in Decision /\ 0 \in 0 .. MaxDecisions /\ 0 \in 0 .. MaxEdits
  BY BoundAssumption DEF NoDecision, Decision
<1>3. IdleExecutor \in Attempt
  BY <1>2 DEF IdleExecutor, Attempt, Values
<1>4. TypeOK
  BY <1>1, <1>2, <1>3, TypeOfState DEF Values
<1>5. Settled = {} /\ Unsettled = Stages /\ PendingTarget = None
  BY <1>1 DEF Settled, Unsettled, PendingTarget
<1>6. Ordered
  BY <1>1, <1>5 DEF Ordered
<1>7. Judged
  <2>1. \A r : RequestsBy(r) = 0
    BY <1>1, FS_EmptySet DEF RequestsBy
  <2> QED BY <1>1, <1>5, <2>1, BoundAssumption DEF Judged, OneOpenRevision, RevisionBudget
<1>8. \A u \in Stages : \A y \in OutputSet(u) : ~ Present(y)
  <2> SUFFICES ASSUME NEW u \in Stages, NEW y \in OutputSet(u), y # HistorySection
               PROVE  ~ Present(y)
    BY <1>1 DEF Present
  <2>1. y \notin Provided
    BY PlanAssumption
  <2>2. y \in Sections
    BY OutputIsSection
  <2> QED BY <1>1, <2>1, <2>2 DEF Present
<1>9. Fresh
  <2>1. \A u \in Stages : Untouched(u) /\ InOrder(u)
    <3> SUFFICES ASSUME NEW u \in Stages PROVE Untouched(u) /\ InOrder(u)
      OBVIOUS
    <3>1. \A i \in DOMAIN Policy[u].outputs : ~ Present(Policy[u].outputs[i])
      BY <1>8 DEF OutputSet
    <3> QED BY <1>8, <3>1 DEF Untouched, InOrder
  <2> QED BY <1>1, <1>5, <2>1 DEF Fresh
<1>10. \A e \in Executors : exec[e].pc = "idle"
  BY <1>1 DEF IdleExecutor
<1>11. CertifiedCompletion
  BY <1>10 DEF CertifiedCompletion
<1>12. \A e \in Executors : Asked(exec[e])
  BY <1>10 DEF Asked, Working
<1> QED BY <1>1, <1>4, <1>6, <1>7, <1>9, <1>11, <1>12 DEF Inv

----------------------------------------------------------------------------
(* Writing an output section. *)

\* Only stages further down, none of them done, read what stage s writes.
LEMMA ConsumersUnsettled ==
    ASSUME Ordered, NEW s \in Unsettled, NEW x \in OutputSet(s)
    PROVE  Consumers(x) \subseteq Unsettled \ {s}
<1>1. s \in Stages
  BY DEF Unsettled
<1> SUFFICES ASSUME NEW c \in Consumers(x) PROVE c \in Unsettled \ {s}
  OBVIOUS
<1>2. c \in Stages /\ x \in Policy[c].required
  BY DEF Consumers
<1>3. x # HistorySection
  BY <1>2, PlanAssumption
<1>4. (OutputSet(s) \ {HistorySection}) \cap Policy[c].required # {}
  BY <1>2, <1>3
<1>5. c \in Downstream[s] \ {s}
  BY <1>1, <1>2, <1>4, PlanAssumption
<1> QED BY <1>5, UnsettledClosed

\* The stages behind the first unsettled one.
LEMMA BehindFirst ==
    ASSUME NEW s, First(s), NEW u \in Unsettled, u # s
    PROVE  Position[s] < Position[u]
<1>1. s \in Stages /\ u \in Stages /\ Position[s] <= Position[u]
  BY DEF First, Unsettled
<1>2. Position[s] # Position[u]
  BY <1>1, PositionInjective
<1> QED BY <1>1, <1>2, PositionType

\* Apart from the history, a section has one writer.
LEMMA OneWriter ==
    ASSUME NEW s \in Stages, NEW u \in Stages, u # s,
           NEW x \in OutputSet(s), x # HistorySection
    PROVE  x \notin OutputSet(u)
BY PlanAssumption

\* A stage that has written its last missing output had written all of them.
LEMMA WriteInOrder ==
    ASSUME NEW s \in Stages, NEW i \in DOMAIN Policy[s].outputs,
           i # Len(Policy[s].outputs), ~ OutputsPresent(s), InOrder(s),
           NEW x, x = Policy[s].outputs[i], x # HistorySection, history = <<>>,
           UNCHANGED history,
           \A y \in OutputSet(s) \ {x} : section'[y] = section[y],
           x \in EmptySections => section'[x] = "empty"
    PROVE  ~ OutputsPresent(s)'
<1> DEFINE outputs == Policy[s].outputs
           n == Len(outputs)
<1>1. n \in Nat \ {0} /\ DOMAIN outputs = 1 .. n /\ n \in DOMAIN outputs /\ i < n
      /\ \A k, j \in DOMAIN outputs : outputs[k] = outputs[j] => k = j
  BY OutputsOf
<1>2. \A y \in OutputSet(s) \ {x} : Present(y)' => Present(y)
  BY DEF Present
<1>3. SUFFICES ASSUME \A y \in OutputSet(s) : Present(y)' PROVE FALSE
  BY DEF OutputsPresent
<1>4. outputs[n] \in OutputSet(s) /\ x \in OutputSet(s) /\ outputs[n] # x
  BY <1>1 DEF OutputSet
<1>5. Present(outputs[n])
  BY <1>2, <1>3, <1>4
<1>6. Written(x)
  BY <1>1, <1>5 DEF InOrder
<1>7. x \notin EmptySections
  BY <1>3, <1>4 DEF Present
<1>8. Present(x)
  BY <1>6, <1>7 DEF Written
<1> QED BY <1>2, <1>3, <1>8 DEF OutputsPresent

\* Freshness survives executor e writing output i of stage s.
LEMMA WriteKeepsFresh ==
    ASSUME Inv, NEW s, First(s), NEW i \in DOMAIN Policy[s].outputs,
           NEW x, x = Policy[s].outputs[i],
           UNCHANGED <<progress, edits>>,
           stale' = IF i = Len(Policy[s].outputs)
                    THEN (stale \cup Consumers(x)) \ {s} ELSE stale \cup Consumers(x) \cup {s},
           edits = 0 /\ history = <<>> => ~ OutputsPresent(s),
           \A k \in 1 .. i - 1 : Written(Policy[s].outputs[k]),
           x = HistorySection => section' = section /\ history' \in {history} \cup {h \in Seq(Revision) : h # <<>>},
           x # HistorySection =>
             /\ history' = history /\ \A y : y # x => section'[y] = section[y]
             /\ x \in EmptySections <=> section'[x] = "empty"
    PROVE  Fresh' /\ (edits' = 0 /\ history' = <<>> /\ i # Len(Policy[s].outputs)
                        => ~ OutputsPresent(s)')
<1>1. s \in Stages /\ s \in Unsettled /\ Ordered /\ TypeOK /\ Fresh
  BY DEF First, Unsettled, Inv
<1>2. x \in OutputSet(s)
  BY DEF OutputSet
<1>3. Consumers(x) \subseteq Unsettled \ {s}
  BY <1>1, <1>2, ConsumersUnsettled
<1>4. Settled' = Settled /\ Unsettled' = Unsettled /\ Unsettled = Stages \ Settled
  BY DEF Settled, Unsettled
<1>5. SUFFICES ASSUME edits = 0
      PROVE  /\ Settled \cap stale' = {}
             /\ history' = <<>> =>
                  /\ \A u, v \in Unsettled : Position[v] < Position[u] => Untouched(u)'
                  /\ \A u \in Unsettled \cap stale' : ~ OutputsPresent(u)'
                  /\ \A u \in Unsettled : InOrder(u)'
                  /\ i # Len(Policy[s].outputs) => ~ OutputsPresent(s)'
  BY <1>4 DEF Fresh
<1>6. Settled \cap stale' = {}
  BY <1>1, <1>3, <1>4, <1>5 DEF Fresh
<1>7. SUFFICES ASSUME history' = <<>>
      PROVE  /\ \A u, v \in Unsettled : Position[v] < Position[u] => Untouched(u)'
             /\ \A u \in Unsettled \cap stale' : ~ OutputsPresent(u)'
             /\ \A u \in Unsettled : InOrder(u)'
             /\ i # Len(Policy[s].outputs) => ~ OutputsPresent(s)'
  BY <1>6
<1>8. history = <<>> /\ (x = HistorySection => section' = section)
  BY <1>7
<1>9. ~ OutputsPresent(s) /\ (\A u \in Unsettled : InOrder(u))
      /\ \A u, v \in Unsettled : Position[v] < Position[u] => Untouched(u)
  BY <1>1, <1>5, <1>8 DEF Fresh
<1>10. \A y : y # x => Present(y)' = Present(y)
  BY <1>7, <1>8 DEF Present
<1>11. ASSUME NEW u \in Unsettled, u # s
       PROVE  \A y \in OutputSet(u) : Present(y)' = Present(y)
  <2> SUFFICES ASSUME NEW y \in OutputSet(u), y = x PROVE Present(y)' = Present(y)
    BY <1>10
  <2>1. x = HistorySection
    BY <1>1, <1>2, <1>4, <1>11, OneWriter
  <2> QED BY <1>7, <1>8, <2>1 DEF Present
<1>12. ASSUME NEW u \in Unsettled, u # s
       PROVE  Untouched(u)' /\ InOrder(u)' /\ ~ OutputsPresent(u)'
  <2>1. Position[s] < Position[u]
    BY <1>12, BehindFirst
  <2>2. Untouched(u)
    BY <1>1, <1>9, <2>1
  <2>3. Untouched(u)'
    BY <1>11, <1>12, <2>2 DEF Untouched
  <2>4. \A j \in DOMAIN Policy[u].outputs : ~ Present(Policy[u].outputs[j])'
    BY <2>3 DEF Untouched, OutputSet
  <2>5. InOrder(u)'
    BY <2>4 DEF InOrder
  <2>6. Len(Policy[u].outputs) \in DOMAIN Policy[u].outputs
    BY <1>4, OutputsOf
  <2>7. ~ OutputsPresent(u)'
    BY <2>4, <2>6 DEF OutputsPresent, OutputSet
  <2> QED BY <2>3, <2>5, <2>7
<1>13. ASSUME i # Len(Policy[s].outputs) PROVE ~ OutputsPresent(s)'
  <2>1. CASE x = HistorySection
    BY <1>2, <1>7, <2>1 DEF OutputsPresent, Present
  <2>2. CASE x # HistorySection
    BY <1>1, <1>7, <1>8, <1>9, <1>13, <2>2, WriteInOrder
  <2> QED BY <2>1, <2>2
<1>14. InOrder(s)'
  <2> DEFINE outputs == Policy[s].outputs
  <2>1. DOMAIN outputs = 1 .. Len(outputs) /\ Len(outputs) \in Nat
        /\ \A k, j \in DOMAIN outputs : outputs[k] = outputs[j] => k = j
    BY <1>1, OutputsOf
  <2> SUFFICES ASSUME NEW k \in DOMAIN outputs, NEW j \in DOMAIN outputs, k < j,
                      Present(outputs[j])'
               PROVE  Written(outputs[k])'
    BY DEF InOrder
  <2>2. CASE outputs[k] = HistorySection
    BY <2>2 DEF Written
  <2>3. CASE outputs[k] # HistorySection /\ k = i
    BY <2>3 DEF Written, Present
  <2>4. CASE outputs[k] # HistorySection /\ k # i
    <3>1. outputs[k] # x
      BY <2>1, <2>4
    <3>2. Written(outputs[k])
      <4>1. CASE j = i
        <5>1. k \in 1 .. i - 1
          BY <2>1, <4>1
        <5> QED BY <5>1
      <4>2. CASE j # i
        <5>1. outputs[j] # x
          BY <2>1, <4>2
        <5>2. Present(outputs[j])
          BY <1>10, <5>1
        <5> QED BY <1>1, <1>9, <5>2 DEF InOrder
      <4> QED BY <4>1, <4>2
    <3> QED BY <1>10, <3>1, <3>2 DEF Written
  <2> QED BY <2>2, <2>3, <2>4
<1>15. \A u \in Unsettled \cap stale' : ~ OutputsPresent(u)'
  <2> SUFFICES ASSUME NEW u \in Unsettled \cap stale' PROVE ~ OutputsPresent(u)'
    OBVIOUS
  <2>1. CASE u = s
    <3>1. i # Len(Policy[s].outputs)
      BY <2>1
    <3> QED BY <1>13, <2>1, <3>1 DEF OutputsPresent, OutputSet
  <2>2. CASE u # s
    BY <1>12, <2>2
  <2> QED BY <2>1, <2>2
<1>16. \A u \in Unsettled : InOrder(u)'
  <2> TAKE u \in Unsettled
  <2>1. CASE u = s
    BY <1>14, <2>1 DEF InOrder, Written, Present
  <2>2. CASE u # s
    BY <1>12, <2>2
  <2> QED BY <2>1, <2>2
<1>17. \A u, v \in Unsettled : Position[v] < Position[u] => Untouched(u)'
  <2> TAKE u, v \in Unsettled
  <2>1. CASE u = s
    BY <1>4, <2>1, PositionType DEF First
  <2>2. CASE u # s
    BY <1>12, <2>2
  <2> QED BY <2>1, <2>2
<1> QED BY <1>13, <1>15, <1>16, <1>17

\* One more request of reviewer s, and of nobody else.
LEMMA RequestsAfter ==
    ASSUME TypeOK, NEW s, NEW d, d.by = s, history' = Append(history, d), d \in Revision
    PROVE  \A r : RequestsBy(r)' = RequestsBy(r) + (IF r = s THEN 1 ELSE 0)
                  /\ RequestsBy(r) \in Nat
<1> TAKE r
<1> DEFINE n == Len(history)
           X == {i \in DOMAIN history : history[i].by = r}
           Y == {i \in DOMAIN history' : history'[i].by = r}
<1>1. history \in Seq(Revision) /\ n \in Nat /\ DOMAIN history = 1 .. n
  BY DEF TypeOK
<1>2. /\ DOMAIN history' = 1 .. n + 1 /\ history'[n + 1] = d
      /\ \A i \in 1 .. n : history'[i] = history[i]
  BY <1>1
<1>3. IsFiniteSet(X)
  <2>1. IsFiniteSet(1 .. n) /\ X \subseteq 1 .. n
    BY <1>1, FS_Interval
  <2> QED BY <2>1, FS_Subset
<1>4. n + 1 \notin X
  BY <1>1
<1>5. Y = IF r = s THEN X \cup {n + 1} ELSE X
  <2>1. \A i \in 1 .. n + 1 : i \in 1 .. n \/ i = n + 1
    BY <1>1
  <2>2. \A i : i \in Y <=> i \in X \/ (i = n + 1 /\ r = s)
    BY <1>1, <1>2, <2>1
  <2> QED BY <2>2
<1> HIDE DEF X, Y
<1>6. Cardinality(X) \in Nat
  BY <1>3, FS_CardinalityType
<1>7. Cardinality(X \cup {n + 1}) = Cardinality(X) + 1
  BY <1>3, <1>4, FS_AddElement
<1>8. Cardinality(Y) = Cardinality(X) + (IF r = s THEN 1 ELSE 0)
  BY <1>5, <1>6, <1>7
<1> QED BY <1>6, <1>8 DEF X, Y, RequestsBy

LEMMA OutputValueType ==
    ASSUME NEW e, NEW x, NEW s, s = StageOf(e), exec[e].value \in Results(s)
    PROVE  /\ OutputValue(e, x) \in Values
           /\ x \in EmptySections <=> OutputValue(e, x) = "empty"
           /\ x = Policy[s].outputs[1] /\ x \notin EmptySections
                => OutputValue(e, x) = exec[e].value
<1>1. exec[e].value \in Values /\ exec[e].value # "empty"
  BY ResultsType
<1> QED BY <1>1 DEF OutputValue, Values

\* A write that requests nothing leaves every verdict in force alone.
LEMMA WriteQuietly ==
    ASSUME Inv, NEW s, First(s), NEW x \in OutputSet(s), UNCHANGED <<progress, history>>,
           x # HistorySection => \A y : y # x => section'[y] = section[y],
           x = HistorySection => section' = section
    PROVE  /\ Ordered' /\ Judged' /\ PendingTarget' = PendingTarget
           /\ Unsettled' = Unsettled /\ \A r : RequestsBy(r)' = RequestsBy(r)
<1>1. /\ Settled' = Settled /\ Unsettled' = Unsettled /\ PendingTarget' = PendingTarget
      /\ \A r : RequestsBy(r)' = RequestsBy(r)
  BY DEF Settled, Unsettled, PendingTarget, RequestsBy
<1>2. Ordered'
  BY <1>1 DEF Inv, Ordered
<1>3. ASSUME NEW r \in Reviewers \cap Settled
      PROVE  section'[Verdict(r)] = section[Verdict(r)]
  <2>1. r \in Stages /\ Verdict(r) \in OutputSet(r) /\ Verdict(r) # HistorySection
    BY VerdictOf
  <2>2. r # s /\ s \in Stages
    BY DEF First, Unsettled
  <2>3. Verdict(r) # x
    BY <2>1, <2>2, OneWriter
  <2> QED BY <2>3
<1>4. Judged'
  BY <1>1, <1>3 DEF Inv, Judged, OneOpenRevision, RevisionBudget
<1> QED BY <1>1, <1>2, <1>4

\* A reviewer's request is open, within its budget, and sends back every stage from the
\* reviewer on, which is all that is unsettled.
LEMMA WriteRequest ==
    ASSUME Inv, NEW s \in Reviewers, First(s), NEW t \in Targets[s],
           s \in Budgeted => RequestsBy(s) < MaxRevisions,
           PendingTarget = None, UNCHANGED <<progress, section>>,
           history' = Append(history, [target |-> t, by |-> s, status |-> "pending"])
    PROVE  /\ Ordered' /\ Judged' /\ PendingTarget' = t /\ t # s /\ t # None
           /\ s \in Downstream[t]
           /\ history' \in Seq(Revision) /\ history' # <<>>
<1> DEFINE d == [target |-> t, by |-> s, status |-> "pending"]
           n == Len(history)
<1>1. /\ s \in Stages /\ t \in Stages /\ t \notin Reviewers /\ t # None
      /\ \A u \in Stages : Position[u] >= Position[s] => u \in Downstream[t]
  BY TargetIsStage, BoundAssumption
<1>2. history \in Seq(Revision) /\ n \in Nat /\ DOMAIN history = 1 .. n
  BY DEF Inv, TypeOK
<1>3. d \in Revision /\ d.target = t /\ d.by = s /\ d.status = "pending"
  BY <1>1 DEF Revision
<1> HIDE DEF d
<1>4. history' = Append(history, d)
  BY DEF d
<1>5. /\ history' \in Seq(Revision) /\ history' # <<>> /\ Len(history') = n + 1
      /\ DOMAIN history' = 1 .. n + 1 /\ history'[n + 1] = d
      /\ \A i \in 1 .. n : history'[i] = history[i]
  BY <1>2, <1>3, <1>4
<1>6. PendingTarget' = t
  BY <1>3, <1>5 DEF PendingTarget
<1>7. Settled' = Settled /\ Unsettled' = Unsettled
  BY DEF Settled, Unsettled
<1>8. s \in Downstream[t] /\ Unsettled \subseteq Downstream[t]
  <2> SUFFICES ASSUME NEW u \in Unsettled \cup {s} PROVE u \in Downstream[t]
    OBVIOUS
  <2>1. u \in Stages /\ Position[s] <= Position[u]
    BY <1>1, PositionType DEF First, Unsettled
  <2> QED BY <1>1, <2>1, PositionType
<1>9. Ordered'
  BY <1>1, <1>5, <1>6, <1>7, <1>8 DEF Inv, Ordered
<1>10. \A i \in 1 .. n : history[i].status # "pending"
  <2> SUFFICES ASSUME NEW i \in 1 .. n, history[i].status = "pending" PROVE FALSE
    OBVIOUS
  <2>0. i = n
    BY <1>2 DEF Inv, Judged, OneOpenRevision
  <2>1. i = n /\ history # <<>>
    BY <1>2, <2>0
  <2>2. PendingTarget = history[n].target /\ history[n] \in Revision
    BY <1>2, <2>1 DEF PendingTarget
  <2> QED BY <2>2, BoundAssumption DEF Revision
<1>11. OneOpenRevision'
  <2> SUFFICES ASSUME NEW i \in 1 .. n + 1, history'[i].status = "pending" PROVE i = n + 1
    BY <1>5 DEF OneOpenRevision
  <2>1. i \in 1 .. n \/ i = n + 1
    BY <1>2
  <2> QED BY <1>5, <1>10, <2>1
<1>12. RevisionBudget'
  <2> SUFFICES ASSUME NEW r \in Budgeted PROVE RequestsBy(r)' <= MaxRevisions
    BY DEF RevisionBudget
  <2>1. RequestsBy(r)' = RequestsBy(r) + (IF r = s THEN 1 ELSE 0) /\ RequestsBy(r) \in Nat
    BY <1>3, <1>4, RequestsAfter DEF Inv
  <2>2. RequestsBy(r) <= MaxRevisions
    BY DEF Inv, Judged, RevisionBudget
  <2> QED BY <2>1, <2>2, BoundAssumption
<1>13. \A i \in DOMAIN history' : history'[i].target \in Targets[history'[i].by]
  <2> SUFFICES ASSUME NEW i \in 1 .. n + 1
               PROVE  history'[i].target \in Targets[history'[i].by]
    BY <1>5
  <2>1. i \in 1 .. n \/ i = n + 1
    BY <1>2
  <2> QED BY <1>2, <1>3, <1>5, <2>1 DEF Inv, Judged
<1>14. Judged'
  BY <1>7, <1>11, <1>12, <1>13 DEF Inv, Judged
<1> QED BY <1>1, <1>5, <1>6, <1>8, <1>9, <1>14

LEMMA WriteOutputStep == ASSUME Inv, NEW e \in Executors, WriteOutput(e) PROVE Inv'
<1>1. PICK s : s = exec[e].decision.stage
  OBVIOUS
<1>2. PICK i : i = exec[e].next
  OBVIOUS
<1>3. PICK x : x = Policy[s].outputs[i]
  OBVIOUS
<1> DEFINE last == i = Len(Policy[s].outputs)
<1>4. TypeOK /\ Ordered /\ Judged /\ Fresh
  BY DEF Inv
<1>5. exec[e] \in Attempt /\ exec \in [Executors -> Attempt] /\ exec[e].pc = "writing"
  BY <1>4, AttemptOf DEF WriteOutput
<1>6. /\ s \in Stages /\ i \in DOMAIN Policy[s].outputs /\ exec[e].value \in Results(s)
      /\ exec[e].value = "REVISE" =>
           /\ s \in Reviewers /\ exec[e].target \in Targets[s]
           /\ s \in Budgeted => exec[e].asked < MaxRevisions
  BY <1>1, <1>2, <1>5 DEF Inv, Asked, Working
<1>7. CASE Conflict(e) /\ exec' = End(e, "error")
  BY <1>7, EndStep DEF Conflict, SharedState, Ended
<1>8. CASE /\ Write(e)
           /\ IF x = HistorySection
              THEN history' = Requested(e) /\ UNCHANGED section
              ELSE section' = [section EXCEPT ![x] = OutputValue(e, x)] /\ UNCHANGED history
           /\ stale' = LET read == stale \cup Consumers(x) IN
                       IF last THEN read \ {s} ELSE read \cup {s}
           /\ exec' = IF ~last THEN [exec EXCEPT ![e].next = @ + 1]
                      ELSE [exec EXCEPT ![e].pc =
                              IF PendingTarget' = s THEN "closing" ELSE "completing"]
           /\ UNCHANGED <<progress, edits>>
  <2>1. e \in latest /\ latest' = {e} /\ UNCHANGED <<progress, edits>>
    BY <1>8 DEF Write
  <2>2. First(s) /\ Handling(exec[e], s) /\ Writing(exec[e], s)
    BY <1>1, <1>5, <2>1 DEF Inv, Informed, Working
  <2>3. s \in Unsettled /\ s # None /\ x \in OutputSet(s)
    BY <1>3, <1>6, <2>2, BoundAssumption DEF First, OutputSet
  <2>4. /\ Len(Policy[s].outputs) \in Nat \ {0}
        /\ DOMAIN Policy[s].outputs = 1 .. Len(Policy[s].outputs)
        /\ i \in Nat /\ 1 <= i /\ i <= Len(Policy[s].outputs)
    BY <1>6, OutputsOf
  \* Where e is after the write.
  <2>5. PICK q : q = IF ~last THEN [exec[e] EXCEPT !.next = i + 1]
                     ELSE [exec[e] EXCEPT !.pc =
                             IF PendingTarget' = s THEN "closing" ELSE "completing"]
    OBVIOUS
  <2>6. exec' = [exec EXCEPT ![e] = q]
    BY <1>2, <1>5, <1>8, <2>5
  <2>7. q \in Attempt
    <3>1. CASE ~last
      <4>1. q = [exec[e] EXCEPT !.next = i + 1]
        BY <2>5, <3>1
      <4> QED BY <1>5, <2>4, <4>1 DEF Attempt
    <3>2. CASE last
      <4>1. PICK pc \in {"closing", "completing"} : q = [exec[e] EXCEPT !.pc = pc]
        BY <2>5, <3>2
      <4> QED BY <1>5, <4>1 DEF Attempt, Active
    <3> QED BY <3>1, <3>2
  <2>8. /\ q.decision.stage = s /\ q.value = exec[e].value /\ q.target = exec[e].target
        /\ q.asked = exec[e].asked
        /\ ~last => q.pc = "writing" /\ q.next = i + 1
        /\ last => q.pc = IF PendingTarget' = s THEN "closing" ELSE "completing"
    BY <1>1, <1>5, <2>5 DEF Attempt
  <2>9. exec' \in [Executors -> Attempt]
    BY <1>5, <2>6, <2>7
  <2>10. \A f \in Executors : exec[f].pc # "complete"
    BY <2>3, NobodyComplete
  <2>11. Asked(q)
    <3>1. ~last => i + 1 \in DOMAIN Policy[s].outputs
      BY <2>4
    <3>2. last => q.pc # "writing"
      BY <2>8
    <3> QED BY <1>6, <2>8, <3>1, <3>2 DEF Asked
  \* What the write changes.
  <2>12. /\ section' \in [Sections \ {HistorySection} -> Values]
         /\ x # HistorySection =>
              /\ history' = history /\ \A y : y # x => section'[y] = section[y]
              /\ section'[x] = OutputValue(e, x)
         /\ x = HistorySection => section' = section
    <3>1. section \in [Sections \ {HistorySection} -> Values]
      BY <1>4, TypeOfState
    <3>2. OutputValue(e, x) \in Values
      BY <1>1, <1>6, OutputValueType DEF StageOf
    <3>3. x \in Sections
      BY <1>6, <2>3, OutputIsSection
    <3>4. CASE x = HistorySection
      BY <1>8, <3>1, <3>4
    <3>5. CASE x # HistorySection
      <4>1. section' = [section EXCEPT ![x] = OutputValue(e, x)] /\ history' = history
        BY <1>8, <3>5
      <4> QED BY <3>1, <3>2, <3>3, <3>5, <4>1
    <3> QED BY <3>4, <3>5
  <2>13. /\ x \in EmptySections <=> OutputValue(e, x) = "empty"
         /\ x = Policy[s].outputs[1] /\ x \notin EmptySections
              => OutputValue(e, x) = exec[e].value
    BY <1>1, <1>6, OutputValueType DEF StageOf
  <2>14. stale' = (IF last THEN (stale \cup Consumers(x)) \ {s}
                   ELSE stale \cup Consumers(x) \cup {s})
         /\ stale' \subseteq Stages
    <3>1. stale' = (IF last THEN (stale \cup Consumers(x)) \ {s}
                    ELSE stale \cup Consumers(x) \cup {s})
      BY <1>8
    <3>2. stale \subseteq Stages /\ Consumers(x) \subseteq Stages
      BY <1>4 DEF TypeOK, Consumers
    <3> QED BY <1>6, <3>1, <3>2
  <2>15. s \in Reviewers => /\ i \in 1 .. 2 /\ (last <=> i = 2)
                            /\ i = 1 => x = Verdict(s) /\ x # HistorySection
                            /\ i = 2 => x = HistorySection
    BY <1>3, <1>6, VerdictOf DEF Verdict
  \* Three kinds of write: with a request, without one, and of another section.
  <2>16. CASE x = HistorySection /\ exec[e].value = "REVISE"
    <3>1. /\ s \in Reviewers /\ exec[e].target \in Targets[s] /\ i = 2 /\ last
          /\ s \in Budgeted => RequestsBy(s) < MaxRevisions
      BY <1>6, <2>2, <2>15, <2>16 DEF Handling
    <3>2. PICK t : t = exec[e].target
      OBVIOUS
    <3>3. PendingTarget = None
      <4> SUFFICES ASSUME PendingTarget # None PROVE FALSE
        OBVIOUS
      <4>1. s = history[Len(history)].target /\ Len(history) \in DOMAIN history
        BY <1>4, <2>2, PendingType DEF Handling
      <4>2. history[Len(history)].by \in Reviewers
        <5>1. history[Len(history)] \in Revision
          BY <1>4, <4>1 DEF TypeOK
        <5> QED BY <5>1 DEF Revision
      <4> QED BY <1>4, <3>1, <4>1, <4>2, TargetIsStage DEF Judged
    <3>4. history' = Append(history, [target |-> t, by |-> s, status |-> "pending"])
      BY <1>1, <1>8, <2>16, <3>2 DEF Requested, StageOf
    <3>5. UNCHANGED section
      BY <2>12, <2>16
    <3>6. /\ Ordered' /\ Judged' /\ PendingTarget' = t /\ t # s /\ t # None
          /\ s \in Downstream[t]
          /\ history' \in Seq(Revision) /\ history' # <<>>
      BY <2>1, <2>2, <3>1, <3>2, <3>3, <3>4, <3>5, WriteRequest
    <3>7. TypeOK'
      BY <1>4, <2>1, <2>9, <2>12, <2>14, <3>6 DEF TypeOK, Attempt
    <3>8. Fresh'
      <4>1. Settled' = Settled /\ Consumers(x) \subseteq Unsettled
        BY <1>4, <2>1, <2>3, ConsumersUnsettled DEF Settled
      <4> QED BY <1>4, <2>1, <2>14, <3>1, <3>6, <4>1 DEF Fresh, Unsettled
    <3>9. q.pc = "completing"
      BY <2>8, <3>1, <3>6
    <3>10. First(s)' /\ Completing(s)' /\ s \notin stale'
      <4>1. section[Verdict(s)] = "REVISE"
        BY <1>2, <2>2, <2>16, <3>1 DEF Writing
      <4>2. Unsettled' = Unsettled
        BY <2>1 DEF Unsettled, Settled
      <4> QED BY <2>2, <2>14, <3>1, <3>5, <3>6, <4>1, <4>2 DEF First, Completing
    <3>11. Informed(q)'
      BY <2>8, <3>9, <3>10 DEF Informed, Working
    <3> QED BY <2>1, <2>6, <2>7, <2>10, <2>11, <3>6, <3>7, <3>8, <3>9, <3>11, WriteStep
  <2>17. CASE x # HistorySection \/ exec[e].value # "REVISE"
    <3>1. UNCHANGED history /\ history \in Seq(Revision)
      BY <1>4, <1>8, <2>12, <2>17 DEF Requested, TypeOK
    <3>2. TypeOK'
      BY <1>4, <2>1, <2>9, <2>12, <2>14, <3>1 DEF TypeOK, Attempt
    <3>3. /\ Ordered' /\ Judged' /\ PendingTarget' = PendingTarget
          /\ Unsettled' = Unsettled /\ \A r : RequestsBy(r)' = RequestsBy(r)
      BY <2>1, <2>2, <2>3, <2>12, <3>1, WriteQuietly
    <3>4. x # HistorySection => (x \in EmptySections <=> section'[x] = "empty")
      BY <2>12, <2>13
    <3>5. /\ edits = 0 /\ history = <<>> => ~ OutputsPresent(s)
          /\ \A k \in 1 .. i - 1 : Written(Policy[s].outputs[k])
      BY <1>2, <2>2 DEF Handling, Writing
    <3>6. Fresh' /\ (edits' = 0 /\ history' = <<>> /\ i # Len(Policy[s].outputs)
                        => ~ OutputsPresent(s)')
      BY <1>3, <1>6, <2>1, <2>2, <2>12, <2>14, <3>1, <3>4, <3>5, WriteKeepsFresh
    <3>7. First(s)'
      BY <2>2, <3>3 DEF First
    <3>8. PendingTarget # None => s = PendingTarget /\ Unsettled \subseteq progress.invalidated
      BY <2>2 DEF Handling
    <3>9. CASE ~ last
      <4>1. Handling(q, s)'
        <5>1. q.asked = RequestsBy(s)'
          BY <2>2, <2>8, <3>3 DEF Handling
        <5> QED BY <2>1, <3>3, <3>6, <3>8, <3>9, <5>1 DEF Handling
      <4>2. Writing(q, s)'
        <5>1. ASSUME NEW k \in 1 .. i PROVE Written(Policy[s].outputs[k])'
          <6>1. CASE Policy[s].outputs[k] = x
            BY <2>12, <3>4, <6>1 DEF Written, Present
          <6>2. CASE Policy[s].outputs[k] # x
            <7>1. k # i /\ k \in 1 .. i - 1
              BY <1>3, <2>4, <6>2
            <7>2. Written(Policy[s].outputs[k])
              BY <3>5, <7>1
            <7> QED BY <2>12, <3>1, <6>2, <7>2 DEF Written, Present
          <6> QED BY <6>1, <6>2
        <5>2. q.next = 2 /\ s \in Reviewers => section'[Verdict(s)] = q.value
          <6> SUFFICES ASSUME q.next = 2, s \in Reviewers PROVE section'[Verdict(s)] = q.value
            OBVIOUS
          <6>1. i = 1 /\ x = Verdict(s) /\ x # HistorySection
            BY <2>4, <2>8, <2>15, <3>9
          <6>2. x \notin EmptySections /\ x = Policy[s].outputs[1]
            BY <6>1, VerdictOf DEF Verdict
          <6> QED BY <2>8, <2>12, <2>13, <6>1, <6>2
        <5>3. 1 .. q.next - 1 = 1 .. i
          BY <2>4, <2>8, <3>9
        <5> QED BY <5>1, <5>2, <5>3 DEF Writing
      <4>3. Informed(q)'
        BY <2>8, <3>7, <3>9, <4>1, <4>2 DEF Informed, Working
      <4>4. q.pc = "writing"
        BY <2>8, <3>9
      <4> QED BY <2>1, <2>6, <2>7, <2>10, <2>11, <3>2, <3>3, <3>6, <4>3, <4>4, WriteStep
    <3>10. CASE last
      <4>1. s \notin stale'
        BY <2>14, <3>10
      <4>2. CASE PendingTarget' = s
        <5>1. q.pc = "closing"
          BY <2>8, <3>10, <4>2
        <5>2. Unsettled' \subseteq progress'.invalidated
          BY <2>1, <2>3, <3>3, <3>8, <4>2
        <5>3. Informed(q)'
          BY <2>8, <3>7, <4>1, <4>2, <5>1, <5>2 DEF Informed, Working
        <5> QED BY <2>1, <2>6, <2>7, <2>10, <2>11, <3>2, <3>3, <3>6, <5>1, <5>3, WriteStep
      <4>3. CASE PendingTarget' # s
        <5>1. q.pc = "completing"
          BY <2>8, <3>10, <4>3
        <5>2. PendingTarget' = None
          BY <3>3, <3>8, <4>3
        <5>3. s \in Reviewers => section'[Verdict(s)] = "PASS"
          <6> SUFFICES ASSUME s \in Reviewers PROVE section'[Verdict(s)] = "PASS"
            OBVIOUS
          <6>1. i = 2 /\ x = HistorySection
            BY <2>15, <3>10
          <6>2. section[Verdict(s)] = exec[e].value
            BY <1>2, <2>2, <6>1 DEF Writing
          <6>3. exec[e].value \in {"PASS", "REVISE"} /\ exec[e].value # "REVISE"
            BY <1>6, <2>17, <6>1, ResultsType
          <6> QED BY <2>12, <6>1, <6>2, <6>3
        <5>4. Completing(s)'
          BY <5>2, <5>3 DEF Completing
        <5>5. Informed(q)'
          BY <2>8, <3>7, <4>1, <5>1, <5>4 DEF Informed, Working
        <5> QED BY <2>1, <2>6, <2>7, <2>10, <2>11, <3>2, <3>3, <3>6, <5>1, <5>5, WriteStep
      <4> QED BY <4>2, <4>3
    <3> QED BY <3>9, <3>10
  <2> QED BY <2>16, <2>17
<1> QED
  <2>1. StageOf(e) = s /\ Policy[StageOf(e)].outputs[exec[e].next] = x
        /\ (exec[e].next = Len(Policy[StageOf(e)].outputs) <=> last)
    BY <1>1, <1>2, <1>3 DEF StageOf
  <2> QED BY <1>7, <1>8, <2>1 DEF WriteOutput

----------------------------------------------------------------------------
\* Every step keeps the invariant.
LEMMA NextInv == ASSUME Inv, VerdictsUntouched, [Next]_vars PROVE Inv'
<1>1. ASSUME NEW e \in Executors, Start(e) PROVE Inv'
  BY <1>1, StartStep
<1>2. ASSUME NEW e \in Executors, Step(e) PROVE Inv'
  BY <1>2, LoadStep, DecisionLimitStep, RecordDecisionStep, HandlerReturnsStep,
     HandlerRaisesStep, WriteOutputStep, CloseRevisionStep, CompleteStageStep DEF Step
<1>3. ASSUME NEW e \in Executors, Crash(e) PROVE Inv'
  BY <1>3, CrashStep
<1>4. ASSUME NEW x \in Editable, Edit(x) PROVE Inv'
  BY <1>4, EditStep
<1>5. ASSUME UNCHANGED vars PROVE Inv'
  <2>1. UNCHANGED SharedState /\ UNCHANGED vars
    BY <1>5 DEF vars, SharedState
  <2>2. TypeOK' /\ Ordered' /\ Judged' /\ Fresh' /\ CertifiedCompletion'
    BY <2>1 DEF vars, Inv, TypeOK, Ordered, Judged, Fresh, OneOpenRevision, RevisionBudget,
       RequestsBy, Settled, Unsettled, PendingTarget, Untouched, Present, OutputsPresent,
       InOrder, Written, CertifiedCompletion
  <2>3. ASSUME NEW e \in Executors
        PROVE  Asked(exec[e])' /\ (e \in latest' => Informed(exec[e])')
    <3>1. PICK q : q = exec[e]
      OBVIOUS
    <3>2. exec'[e] = q /\ Asked(q) /\ (e \in latest' => Informed(q))
      BY <2>1, <3>1 DEF Inv, vars
    <3>3. e \in latest' => Informed(q)'
      BY <2>1, <3>2, InformedFrame DEF SharedState
    <3> QED BY <3>2, <3>3, AskedCarry, InformedCarry
  <2> QED BY <2>2, <2>3 DEF Inv
<1> QED BY <1>1, <1>2, <1>3, <1>4, <1>5 DEF Next

\* The invariant holds of every run in which no client patches a verdict.
LEMMA Invariance == ASSUME VerdictsUntouched PROVE Spec => []Inv
<1>1. Inv /\ [Next]_vars => Inv'
  BY NextInv
<1> QED BY <1>1, InitInv, PTL DEF Spec

\* However attempts overlap, crash, lose writes or are patched around, for every plan:
\* what decide counts as done is fresh, no request of a reviewer is lost, hidden or
\* beyond its budget, and a job completes only on passed verdicts.
THEOREM ProgressConsistent == ASSUME VerdictsUntouched PROVE Spec => []ProgressIsConsistent
<1>1. Inv => ProgressIsConsistent
  <2> SUFFICES ASSUME Inv PROVE ProgressIsConsistent
    OBVIOUS
  <2>1. SettledAreFresh
    BY DEF Inv, Fresh, SettledAreFresh
  <2>2. RevisionsHonoured
    BY DEF Inv, Judged, RevisionsHonoured, Verdict
  <2> QED BY <2>1, <2>2 DEF Inv, Judged, ProgressIsConsistent
<1> QED BY <1>1, Invariance, PTL

\* An executor about to write the post is running a stage that is not done.
LEMMA WriterIsUnsettled ==
    ASSUME Inv, NEW e \in latest, exec[e].pc \in Working
    PROVE  \A f \in Executors : exec[f].pc # "complete"
<1>1. PICK q : q = exec[e]
  OBVIOUS
<1>2. First(q.decision.stage)
  BY <1>1 DEF Inv, Informed, TypeOK
<1> QED BY <1>2, NobodyComplete DEF First

\* Once an attempt has returned, the post it returned is not changed by an attempt
\* that overlaps with it; only a client's patch changes it.
THEOREM PublishedStays == ASSUME VerdictsUntouched PROVE Spec => PublishedIsStable
<1> DEFINE Published == (\E e \in Executors : exec[e].pc = "complete") /\ edits' = edits
                          => section' = section /\ history' = history
<1>1. Inv /\ [Next]_vars => Published
  <2> SUFFICES ASSUME Inv, [Next]_vars, edits' = edits,
                      ~ UNCHANGED <<section, history>>
               PROVE  \A f \in Executors : exec[f].pc # "complete"
    OBVIOUS
  <2>1. ~ \E x \in Editable : Edit(x)
    <3> SUFFICES ASSUME NEW x \in Editable, Edit(x) PROVE FALSE
      OBVIOUS
    <3>1. edits \in Nat /\ edits' = edits + 1
      BY BoundAssumption DEF Edit, Inv, TypeOK
    <3> QED BY <3>1
  <2>2. PICK e \in Executors : Start(e) \/ Step(e) \/ Crash(e)
    BY <2>1 DEF Next, vars
  <2>3. WriteOutput(e) \/ CloseRevision(e)
    BY <2>2 DEF Start, Step, Crash, Load, DecisionLimit, RecordDecision, HandlerReturns,
       HandlerRaises, CompleteStage, Conflict
  <2>4. e \in latest /\ exec[e].pc \in {"writing", "closing"}
    BY <2>3 DEF WriteOutput, CloseRevision, Conflict, Write
  <2> QED BY <2>4, WriterIsUnsettled DEF Working
<1> QED BY <1>1, Invariance, PTL DEF Spec, PublishedIsStable

----------------------------------------------------------------------------
(* Every input arrives. *)

\* Each input of a stage is provided with the request or written by some stage, and
\* not by one that returns an empty section.
InputsProduced ==
    \A s \in Stages : \A x \in Policy[s].required :
        /\ x \notin EmptySections
        /\ x \in Provided \/ \E t \in Stages : x \in OutputSet(t)

WrittenBy(s) == \A x \in OutputSet(s) : Written(x)
InputsWritten(s) == \A x \in Policy[s].required : Written(x)

Supplied ==
    /\ \A s \in Settled : WrittenBy(s)
    /\ \A x \in Provided \cap Sections : Written(x)
    /\ \A i \in DOMAIN history : InputsWritten(history[i].target)
    /\ \A e \in Executors :
         /\ exec[e].decision.reason # "missing"
         /\ e \in latest /\ exec[e].pc \in {"closing", "completing"} =>
              \A x \in OutputSet(exec[e].decision.stage) : Written(x)

LEMMA InputIsSection ==
    ASSUME NEW u \in Stages PROVE Policy[u].required \subseteq Sections
<1> DEFINE Of(s) == Policy[s].required \cup OutputSet(s)
           All == UNION {Of(s) : s \in Stages}
<1>1. Policy[u].required \subseteq Of(u)
  OBVIOUS
<1>2. All \subseteq Sections
  BY DEF Sections
<1> HIDE DEF Of
<1>3. Of(u) \subseteq All
  OBVIOUS
<1> QED BY <1>1, <1>2, <1>3

\* When everything before stage s is settled, its inputs are there.
LEMMA InputsThere ==
    ASSUME Supplied, InputsProduced, NEW s \in Stages,
           \A t \in Stages : Position[t] < Position[s] => t \in Settled
    PROVE  InputsWritten(s)
<1> SUFFICES ASSUME NEW x \in Policy[s].required PROVE Written(x)
  BY DEF InputsWritten
<1>1. CASE x \in Provided
  BY <1>1, InputIsSection DEF Supplied
<1>2. ASSUME NEW t \in Stages, x \in OutputSet(t) PROVE Written(x)
  <2>1. x # HistorySection
    BY PlanAssumption
  <2>2. (OutputSet(t) \ {HistorySection}) \cap Policy[s].required # {}
    BY <1>2, <2>1
  <2>3. s \in Downstream[t] \ {t}
    BY <1>2, <2>2, PlanAssumption
  <2>4. Position[t] <= Position[s] /\ Position[t] # Position[s]
    BY <1>2, <2>3, DownstreamLater, PositionInjective
  <2>5. t \in Settled
    BY <1>2, <2>4, PositionType
  <2> QED BY <1>2, <2>5 DEF Supplied, WrittenBy
<1> QED BY <1>1, <1>2 DEF InputsProduced

LEMMA NotMissing ==
    ASSUME InputsProduced, NEW s \in Stages, InputsWritten(s)
    PROVE  ~ InputsMissing(s)
<1> SUFFICES ASSUME NEW x \in Policy[s].required PROVE Present(x)
  BY DEF InputsMissing
<1>1. x # HistorySection
  BY PlanAssumption
<1>2. x \notin EmptySections
  BY DEF InputsProduced
<1> QED BY <1>1, <1>2 DEF InputsWritten, Written

LEMMA BeforeFirst ==
    ASSUME NEW s, First(s)
    PROVE  \A t \in Stages : Position[t] < Position[s] => t \in Settled
<1> SUFFICES ASSUME NEW t \in Stages, Position[t] < Position[s], t \in Unsettled PROVE FALSE
  BY DEF Unsettled
<1>1. s \in Stages /\ Position[s] <= Position[t]
  BY DEF First, Unsettled
<1> QED BY <1>1, PositionType

\* decide never stops for a missing input.
LEMMA NeverMissing ==
    ASSUME Inv, Supplied, InputsProduced
    PROVE  NextDecision.reason # "missing"
<1> DEFINE c == CHOOSE s \in Actionable : \A t \in Actionable : Position[s] <= Position[t]
<1>1. TypeOK /\ Ordered
  BY DEF Inv
<1>2. ASSUME PendingTarget # None PROVE RevisionDecision(PendingTarget).reason # "missing"
  <2>1. PendingTarget \in Stages /\ InputsWritten(PendingTarget)
    BY <1>1, <1>2, PendingType DEF Supplied
  <2>2. ~ InputsMissing(PendingTarget)
    BY <2>1, NotMissing
  <2> QED BY <2>2 DEF RevisionDecision, Stop, Decide
<1>3. ASSUME Actionable # {} PROVE StageDecision(c).reason # "missing"
  <2>1. First(c)
    BY <1>1, <1>3, ScanFindsFirst
  <2> HIDE DEF c
  <2>2. c \in Stages
    BY <2>1 DEF First, Unsettled
  <2>3. InputsWritten(c)
    BY <2>1, <2>2, BeforeFirst, InputsThere
  <2>4. ~ InputsMissing(c)
    BY <2>2, <2>3, NotMissing
  <2> QED BY <2>4 DEF StageDecision, Stop, Decide
<1>4. CompletionDecision.reason # "missing"
  BY DEF CompletionDecision, Stop
<1>5. CASE GateShut
  BY <1>5 DEF NextDecision, Stop
<1>6. CASE ~ GateShut /\ PendingTarget # None
  BY <1>2, <1>6 DEF NextDecision
<1>7. CASE ~ GateShut /\ PendingTarget = None /\ NeedsClarification
  BY <1>7 DEF NextDecision, Stop
<1>8. CASE ~ GateShut /\ PendingTarget = None /\ ~ NeedsClarification /\ Actionable # {}
  BY <1>3, <1>8 DEF NextDecision
<1>9. CASE ~ GateShut /\ PendingTarget = None /\ ~ NeedsClarification /\ Actionable = {}
  BY <1>4, <1>9 DEF NextDecision
<1> QED BY <1>5, <1>6, <1>7, <1>8, <1>9

\* A section that is written stays written.
LEMMA WrittenStays ==
    ASSUME Inv, [Next]_vars, NEW x \in Sections, Written(x)
    PROVE  Written(x)'
<1>1. SUFFICES ASSUME x # HistorySection, x \notin EmptySections, section[x] # "empty"
      PROVE  section'[x] # "empty"
  BY DEF Written, Present
<1>2. section \in [Sections \ {HistorySection} -> Values]
  BY TypeOfState DEF Inv
<1>3. CASE section' = section
  BY <1>1, <1>3
<1>4. ASSUME NEW y \in Editable, Edit(y) PROVE section'[x] # "empty"
  BY <1>1, <1>2, <1>4 DEF Edit
<1>5. ASSUME NEW e \in Executors, WriteOutput(e), section' # section
      PROVE  section'[x] # "empty"
  <2> DEFINE s == StageOf(e)
             y == Policy[s].outputs[exec[e].next]
  <2>1. exec[e].pc = "writing" /\ section' = [section EXCEPT ![y] = OutputValue(e, y)]
    BY <1>5 DEF WriteOutput, Conflict
  <2>2. exec[e].value \in Results(s)
    BY <2>1 DEF Inv, Asked, StageOf
  <2>3. y \notin EmptySections => OutputValue(e, y) # "empty"
    BY <2>2, OutputValueType
  <2> HIDE DEF y
  <2> QED BY <1>1, <1>2, <2>1, <2>3
<1>6. ASSUME NEW e \in Executors, Start(e) \/ Step(e) \/ Crash(e), ~ WriteOutput(e)
      PROVE  section' = section
  BY <1>6 DEF Start, Step, Crash, Load, DecisionLimit, RecordDecision, HandlerReturns,
     HandlerRaises, CloseRevision, CompleteStage, Conflict
<1>7. ASSUME UNCHANGED vars PROVE section' = section
  BY <1>7 DEF vars
<1> QED BY <1>3, <1>4, <1>5, <1>6, <1>7 DEF Next

\* What a step of executor e has to show.
LEMMA SuppliedStep ==
    ASSUME Inv, [Next]_vars, Supplied, NEW e \in Executors, NEW q \in Attempt,
           exec' = [exec EXCEPT ![e] = q], latest' \subseteq latest \cup {e},
           \A s \in Settled' \ Settled : WrittenBy(s)',
           \A i \in DOMAIN history' : \/ i \in DOMAIN history
                                          /\ history'[i].target = history[i].target
                                      \/ \E t \in Stages : t = history'[i].target /\ InputsWritten(t)',
           q.decision.reason # "missing",
           q.pc \in {"closing", "completing"} /\ e \in latest' =>
             \A x \in OutputSet(q.decision.stage) : Written(x)'
    PROVE  Supplied'
<1>1. TypeOK /\ Settled \subseteq Stages /\ exec \in [Executors -> Attempt]
  BY TypeOfState DEF Inv, TypeOK, Settled
<1>2. \A x \in Sections : Written(x) => Written(x)'
  BY WrittenStays
<1>3. \A s \in Stages : (WrittenBy(s) => WrittenBy(s)') /\ (InputsWritten(s) => InputsWritten(s)')
  BY <1>2, OutputIsSection, InputIsSection DEF WrittenBy, InputsWritten
<1>4. \A s \in Settled' : WrittenBy(s)'
  BY <1>1, <1>3 DEF Supplied
<1>5. \A x \in Provided \cap Sections : Written(x)'
  BY <1>2 DEF Supplied
<1>6. ASSUME NEW i \in DOMAIN history' PROVE InputsWritten(history[i].target)'
  <2>1. PICK t : t = history'[i].target
    OBVIOUS
  <2>2. InputsWritten(t)'
    <3>1. CASE i \in DOMAIN history /\ history'[i].target = history[i].target
      <4>1. history[i] \in Revision
        BY <1>1, <3>1 DEF TypeOK
      <4>2. t \in Stages /\ InputsWritten(t)
        BY <2>1, <3>1, <4>1 DEF Supplied, Revision
      <4> QED BY <1>3, <4>2
    <3>2. CASE \E u \in Stages : u = history'[i].target /\ InputsWritten(u)'
      BY <2>1, <3>2
    <3> QED BY <3>1, <3>2
  <2> QED BY <2>1, <2>2 DEF InputsWritten
<1>7. ASSUME NEW f \in Executors
      PROVE  /\ exec'[f].decision.reason # "missing"
             /\ f \in latest' /\ exec'[f].pc \in {"closing", "completing"} =>
                  \A x \in OutputSet(exec'[f].decision.stage) : Written(x)'
  <2>1. CASE f = e
    BY <1>1, <2>1
  <2>2. CASE f # e
    <3>1. exec'[f] = exec[f] /\ (f \in latest' => f \in latest)
      BY <1>1, <2>2
    <3>2. PICK s : s = exec[f].decision.stage
      OBVIOUS
    <3>3. exec[f].decision.reason # "missing"
      BY DEF Supplied
    <3>4. f \in latest' /\ exec'[f].pc \in {"closing", "completing"} => s \in Stages /\ WrittenBy(s)
      <4>1. exec[f].pc \in Working => s \in Stages
        BY <3>2 DEF Inv, Asked
      <4> QED BY <3>1, <3>2, <4>1 DEF Supplied, WrittenBy, Working
    <3> QED BY <1>3, <3>1, <3>2, <3>3, <3>4 DEF WrittenBy
  <2> QED BY <2>1, <2>2
<1> QED BY <1>4, <1>5, <1>6, <1>7 DEF Supplied

\* A step that settles no stage, requests nothing and finishes no writing.
LEMMA SuppliedQuietStep ==
    ASSUME Inv, [Next]_vars, Supplied, NEW e \in Executors, NEW q \in Attempt,
           exec' = [exec EXCEPT ![e] = q], latest' \subseteq latest \cup {e},
           Settled' \subseteq Settled, history' = history,
           q.decision.reason # "missing", q.pc \notin {"closing", "completing"}
    PROVE  Supplied'
<1>1. \A i \in DOMAIN history' : i \in DOMAIN history /\ history'[i].target = history[i].target
  OBVIOUS
<1>2. \A s \in Settled' \ Settled : WrittenBy(s)'
  OBVIOUS
<1> QED BY <1>1, <1>2, SuppliedStep

\* An executor ends, or goes on, with the decision it has.
LEMMA SuppliedSameDecision ==
    ASSUME Inv, [Next]_vars, Supplied, NEW e \in Executors,
           latest' \subseteq latest \cup {e}, Settled' \subseteq Settled, history' = history,
           \/ \E how \in Ended : exec' = End(e, how)
           \/ \E q \in Attempt : /\ exec' = [exec EXCEPT ![e] = q]
                                 /\ q.decision = exec[e].decision
                                 /\ q.pc \notin {"closing", "completing"}
    PROVE  Supplied'
<1>1. exec[e] \in Attempt /\ exec[e].decision.reason # "missing"
  BY AttemptOf DEF Inv, Supplied
<1>2. ASSUME NEW how \in Ended, exec' = End(e, how) PROVE Supplied'
  <2> DEFINE q == [IdleExecutor EXCEPT !.pc = how, !.decision = exec[e].decision]
  <2>1. exec[e].decision \in Decision /\ 0 \in 0 .. MaxDecisions
    BY <1>1, BoundAssumption DEF Attempt
  <2>2. NoDecision \in Decision
    BY DEF NoDecision, Decision
  <2>3. IdleExecutor \in Attempt
    BY <2>1, <2>2 DEF IdleExecutor, Attempt, Values
  <2>4. q \in Attempt /\ q.pc = how /\ q.decision = exec[e].decision
    BY <2>1, <2>3 DEF Attempt
  <2>5. exec' = [exec EXCEPT ![e] = q]
    BY <1>2 DEF End
  <2>6. how \notin {"closing", "completing"}
    BY DEF Ended
  <2> HIDE DEF q
  <2> QED BY <1>1, <2>4, <2>5, <2>6, SuppliedQuietStep
<1>3. ASSUME NEW q \in Attempt, exec' = [exec EXCEPT ![e] = q],
             q.decision = exec[e].decision, q.pc \notin {"closing", "completing"}
      PROVE  Supplied'
  BY <1>1, <1>3, SuppliedQuietStep
<1> QED BY <1>2, <1>3

LEMMA SuppliedRecordDecision ==
    ASSUME Inv, Supplied, [Next]_vars, NEW e \in Executors, RecordDecision(e)
    PROVE  Supplied'
<1> DEFINE d == exec[e].decision
           load == [exec[e] EXCEPT !.pc = "loading"]
           run == [exec[e] EXCEPT !.pc = "running", !.asked = RequestsBy(d.stage)]
<1>1. TypeOK /\ exec \in [Executors -> Attempt] /\ exec[e].pc = "recording"
  BY TypeOfState DEF Inv, RecordDecision
<1>2. history' = history /\ latest' \subseteq latest \cup {e}
  BY DEF RecordDecision, Conflict, Write
<1>3. load \in Attempt /\ load.pc = "loading" /\ load.decision = d
      /\ [exec EXCEPT ![e].pc = "loading"] = [exec EXCEPT ![e] = load]
  BY <1>1 DEF Attempt, Active
<1>4. RequestsBy(d.stage) \in Nat
  <2> DEFINE X == {i \in DOMAIN history : history[i].by = d.stage}
  <2>1. history \in Seq(Revision) /\ Len(history) \in Nat /\ DOMAIN history = 1 .. Len(history)
    BY <1>1 DEF TypeOK
  <2>2. IsFiniteSet(1 .. Len(history)) /\ X \subseteq 1 .. Len(history)
    BY <2>1, FS_Interval
  <2>3. Cardinality(X) \in Nat
    BY <2>2, FS_Subset, FS_CardinalityType
  <2> QED BY <2>3 DEF RequestsBy
<1>5. run \in Attempt /\ run.pc = "running" /\ run.decision = d
      /\ [exec EXCEPT ![e].pc = "running", ![e].asked = RequestsBy(d.stage)]
           = [exec EXCEPT ![e] = run]
  BY <1>1, <1>4 DEF Attempt, Active
<1>6. CASE Conflict(e) /\ exec' = [exec EXCEPT ![e].pc = "loading"]
  <2>1. Settled' = Settled
    BY <1>6 DEF Conflict, Settled
  <2>2. \E q \in Attempt : /\ exec' = [exec EXCEPT ![e] = q] /\ q.decision = d
                           /\ q.pc \notin {"closing", "completing"}
    BY <1>3, <1>6
  <2> QED BY <1>2, <2>1, <2>2, SuppliedSameDecision
<1>7. CASE Write(e) /\ progress' = Recorded(progress, d)
           /\ exec' = CASE d.action = "SKIP" -> [exec EXCEPT ![e].pc = "loading"]
                        [] d.action = "STOP" ->
                             End(e, IF d.reason = "complete" THEN "complete" ELSE "fatal")
                        [] OTHER -> [exec EXCEPT ![e].pc = "running",
                                                 ![e].asked = RequestsBy(d.stage)]
  <2>1. Sound(d) /\ d.reason # "missing" /\ d \in Decision
    BY <1>1, <1>7 DEF Write, Inv, Informed, Supplied, Sound
  <2>2. CASE d.action = "STOP"
    <3>1. Settled' = Settled
      BY <1>7, <2>2 DEF Recorded, Settled
    <3>2. \E how \in Ended : exec' = End(e, how)
      BY <1>7, <2>2 DEF Ended
    <3> QED BY <1>2, <3>1, <3>2, SuppliedSameDecision
  <2>3. CASE d.action = "SKIP"
    <3>1. Settled' = Settled \cup {d.stage}
      <4>1. progress' = [progress EXCEPT !.skipped = @ \cup {d.stage}, !.current = None]
        BY <1>7, <2>3 DEF Recorded
      <4> QED BY <1>1, <4>1 DEF TypeOK, Settled
    <3>2. PICK s : s = d.stage
      OBVIOUS
    <3>3. s \in Stages /\ OutputsPresent(s)
      BY <2>1, <2>3, <3>2 DEF Sound, First, Unsettled, Skippable
    <3>4. WrittenBy(s)'
      <4>1. \A x \in OutputSet(s) : Written(x)
        BY <3>3 DEF OutputsPresent, Written
      <4> QED BY <3>3, <4>1, WrittenStays, OutputIsSection DEF WrittenBy
    <3>5. \A u \in Settled' \ Settled : WrittenBy(u)'
      <4> SUFFICES ASSUME NEW u \in Settled' \ Settled PROVE WrittenBy(u)'
        OBVIOUS
      <4>1. u = s
        BY <3>1, <3>2
      <4> QED BY <3>4, <4>1 DEF WrittenBy
    <3>6. exec' = [exec EXCEPT ![e] = load]
      BY <1>3, <1>7, <2>3
    <3>7. \A i \in DOMAIN history' : i \in DOMAIN history /\ history'[i].target = history[i].target
      BY <1>2
    <3> HIDE DEF load
    <3> QED BY <1>2, <1>3, <2>1, <3>5, <3>6, <3>7, SuppliedStep
  <2>4. CASE d.action \in {"REVISE", "CONTINUE", "RETRY"}
    <3>1. Settled' \subseteq Settled
      <4>1. CASE d.action = "REVISE"
        <5>1. d.stage \in Stages
          BY <1>1, <2>1, <4>1, PendingType DEF Sound
        <5>2. progress' = Started(Invalidated(progress, d.stage), d.stage)
          BY <1>7, <4>1 DEF Recorded
        <5>3. /\ progress'.completed = progress.completed \ Downstream[d.stage]
              /\ progress'.skipped = progress.skipped \ Downstream[d.stage]
          BY <1>1, <5>1, <5>2, StartedType, InvalidatedType
        <5> QED BY <5>3 DEF Settled
      <4>2. CASE d.action \in {"CONTINUE", "RETRY"}
        <5>1. d.stage \in Stages
          BY <2>1, <4>2 DEF Sound, First, Unsettled
        <5>2. progress' = Started(progress, d.stage)
          BY <1>7, <4>2 DEF Recorded
        <5>3. progress'.completed = progress.completed /\ progress'.skipped = progress.skipped
          BY <1>1, <5>1, <5>2, StartedType, TypeOfState
        <5> QED BY <5>3 DEF Settled
      <4> QED BY <2>4, <4>1, <4>2
    <3>2. \E q \in Attempt : /\ exec' = [exec EXCEPT ![e] = q] /\ q.decision = d
                             /\ q.pc \notin {"closing", "completing"}
      <4>1. exec' = [exec EXCEPT ![e] = run]
        BY <1>5, <1>7, <2>4
      <4> HIDE DEF run
      <4> QED BY <1>5, <4>1
    <3> QED BY <1>2, <3>1, <3>2, SuppliedSameDecision
  <2> QED BY <2>1, <2>2, <2>3, <2>4 DEF Decision
<1> QED BY <1>6, <1>7 DEF RecordDecision

\* The target of a request comes before its reviewer, so its inputs are there.
LEMMA SuppliedTarget ==
    ASSUME Supplied, InputsProduced, NEW s \in Reviewers, First(s), NEW t \in Targets[s]
    PROVE  t \in Stages /\ InputsWritten(t)
<1>1. t \in Stages /\ s \in Stages /\ Position[t] < Position[s]
  BY PlanAssumption
<1>2. \A u \in Stages : Position[u] < Position[t] => u \in Settled
  BY <1>1, BeforeFirst, PositionType
<1> QED BY <1>1, <1>2, InputsThere

LEMMA SuppliedWriteOutput ==
    ASSUME Inv, Supplied, InputsProduced, [Next]_vars, NEW e \in Executors, WriteOutput(e)
    PROVE  Supplied'
<1>1. PICK s : s = exec[e].decision.stage
  OBVIOUS
<1>2. PICK i : i = exec[e].next
  OBVIOUS
<1>3. PICK x : x = Policy[s].outputs[i]
  OBVIOUS
<1>4. TypeOK /\ exec \in [Executors -> Attempt] /\ exec[e].pc = "writing" /\ StageOf(e) = s
      /\ exec[e].decision.reason # "missing"
  BY <1>1, TypeOfState DEF Inv, WriteOutput, StageOf, Supplied
<1>5. Settled' = Settled /\ latest' \subseteq latest \cup {e}
  BY DEF WriteOutput, Conflict, Write, Settled
<1>6. /\ s \in Stages /\ i \in DOMAIN Policy[s].outputs /\ exec[e].value \in Results(s)
      /\ exec[e].value = "REVISE" => s \in Reviewers /\ exec[e].target \in Targets[s]
  BY <1>1, <1>2, <1>4 DEF Inv, Asked, Working
<1>7. CASE Conflict(e) /\ exec' = End(e, "error")
  BY <1>5, <1>7, SuppliedSameDecision DEF Conflict, Ended
<1>8. CASE e \in latest
  <2>1. First(s) /\ \A k \in 1 .. i - 1 : Written(Policy[s].outputs[k])
    BY <1>1, <1>2, <1>4, <1>8 DEF Inv, Informed, Working, Writing
  <2>2. PICK q : q = IF i # Len(Policy[s].outputs) THEN [exec[e] EXCEPT !.next = i + 1]
                     ELSE [exec[e] EXCEPT !.pc =
                             IF PendingTarget' = s THEN "closing" ELSE "completing"]
    OBVIOUS
  <2>3. exec' = [exec EXCEPT ![e] = q]
    BY <1>1, <1>2, <1>4, <1>8, <2>2 DEF WriteOutput, Conflict
  <2>4. /\ Len(Policy[s].outputs) \in Nat \ {0}
        /\ DOMAIN Policy[s].outputs = 1 .. Len(Policy[s].outputs)
    BY <1>6, OutputsOf
  <2>5. q \in Attempt /\ q.decision = exec[e].decision
        /\ (q.pc \in {"closing", "completing"} => i = Len(Policy[s].outputs))
    <3>1. CASE i # Len(Policy[s].outputs)
      <4>1. q = [exec[e] EXCEPT !.next = i + 1]
        BY <2>2, <3>1
      <4>2. i + 1 \in Nat
        BY <1>6, <2>4
      <4> QED BY <1>4, <4>1, <4>2 DEF Attempt
    <3>2. CASE i = Len(Policy[s].outputs)
      <4>1. PICK pc \in {"closing", "completing"} : q = [exec[e] EXCEPT !.pc = pc]
        BY <2>2, <3>2
      <4> QED BY <1>4, <3>2, <4>1 DEF Attempt, Active
    <3> QED BY <3>1, <3>2
  <2>6. Written(x)'
    <3>1. CASE x = HistorySection \/ x \in EmptySections
      BY <3>1 DEF Written
    <3>2. CASE x # HistorySection /\ x \notin EmptySections
      <4>1. section' = [section EXCEPT ![x] = OutputValue(e, x)]
        BY <1>2, <1>3, <1>4, <1>8, <3>2 DEF WriteOutput, Conflict
      <4>2. OutputValue(e, x) # "empty"
        BY <1>4, <1>6, <3>2, OutputValueType
      <4>3. x \in DOMAIN section
        <5>1. x \in Sections
          BY <1>3, <1>6, OutputIsSection DEF OutputSet
        <5>2. section \in [Sections \ {HistorySection} -> Values]
          BY <1>4, TypeOfState
        <5> QED BY <3>2, <5>1, <5>2
      <4> QED BY <3>2, <4>1, <4>2, <4>3 DEF Written, Present
    <3> QED BY <3>1, <3>2
  <2>7. ASSUME i = Len(Policy[s].outputs), NEW y \in OutputSet(s) PROVE Written(y)'
    <3>1. PICK k \in DOMAIN Policy[s].outputs : y = Policy[s].outputs[k]
      BY DEF OutputSet
    <3>2. CASE k = i
      BY <1>3, <2>6, <3>1, <3>2 DEF Written, Present
    <3>3. CASE k # i
      <4>1. k \in 1 .. i - 1 /\ y \in Sections
        BY <1>6, <2>4, <2>7, <3>1, <3>3, OutputIsSection
      <4> QED BY <2>1, <3>1, <4>1, WrittenStays
    <3> QED BY <3>2, <3>3
  <2>8. \A j \in DOMAIN history' : \/ j \in DOMAIN history
                                       /\ history'[j].target = history[j].target
                                   \/ \E t \in Stages : t = history'[j].target /\ InputsWritten(t)'
    <3>1. CASE history' = history
      BY <3>1
    <3>2. CASE history' # history
      <4>1. history' = Requested(e) /\ exec[e].value = "REVISE"
        BY <1>8, <3>2 DEF WriteOutput, Conflict, Requested
      <4>2. PICK t : t = exec[e].target
        OBVIOUS
      <4>3. t \in Stages /\ InputsWritten(t)
        BY <1>6, <2>1, <4>1, <4>2, SuppliedTarget
      <4>4. InputsWritten(t)'
        BY <4>3, WrittenStays, InputIsSection DEF InputsWritten
      <4> DEFINE r == [target |-> t, by |-> s, status |-> "pending"]
      <4>5. history' = Append(history, r) /\ r.target = t
        BY <1>4, <4>1, <4>2 DEF Requested
      <4> HIDE DEF r
      <4>6. history \in Seq(Revision)
        BY <1>4 DEF TypeOK
      <4>7. \A j \in DOMAIN history' : \/ j \in DOMAIN history /\ history'[j] = history[j]
                                       \/ history'[j] = r
        BY <4>5, <4>6
      <4> QED BY <4>3, <4>4, <4>5, <4>7
    <3> QED BY <3>1, <3>2
  <2> QED BY <1>1, <1>4, <1>5, <2>3, <2>5, <2>7, <2>8, SuppliedStep
<1> QED BY <1>7, <1>8 DEF WriteOutput, Write

LEMMA SuppliedCloseRevision ==
    ASSUME Inv, Supplied, [Next]_vars, NEW e \in Executors, CloseRevision(e)
    PROVE  Supplied'
<1>1. PICK s : s = exec[e].decision.stage
  OBVIOUS
<1>2. TypeOK /\ exec \in [Executors -> Attempt] /\ exec[e].pc = "closing"
      /\ exec[e].decision.reason # "missing"
  BY TypeOfState DEF Inv, CloseRevision, Supplied
<1>3. Settled' = Settled /\ latest' \subseteq latest \cup {e}
  BY DEF CloseRevision, Conflict, Write, Settled
<1>4. CASE Conflict(e) /\ exec' = End(e, "error")
  BY <1>3, <1>4, SuppliedSameDecision DEF Conflict, Ended
<1>5. CASE /\ Write(e)
           /\ history' = [history EXCEPT ![Len(history)].status = "completed"]
           /\ exec' = [exec EXCEPT ![e].pc = "completing"]
  <2> DEFINE q == [exec[e] EXCEPT !.pc = "completing"]
  <2>1. q \in Attempt /\ q.decision = exec[e].decision
    BY <1>2 DEF Attempt, Active
  <2>2. exec' = [exec EXCEPT ![e] = q]
    BY <1>2, <1>5
  <2> HIDE DEF q
  <2>3. First(s) /\ s = PendingTarget /\ s \in Stages /\ PendingTarget # None
    BY <1>1, <1>2, <1>5, BoundAssumption DEF Write, Inv, Informed, Working, First, Unsettled
  <2>4. /\ DOMAIN history' = DOMAIN history
        /\ \A i \in DOMAIN history : history'[i].target = history[i].target
    BY <1>2, <1>5, <2>3, CloseHistory
  <2>5. WrittenBy(s)
    BY <1>1, <1>2, <1>5 DEF Write, Supplied, WrittenBy
  <2>6. \A x \in OutputSet(s) : Written(x)'
    BY <2>3, <2>5, WrittenStays, OutputIsSection DEF WrittenBy
  <2>7. \A u \in Settled' \ Settled : WrittenBy(u)'
    BY <1>3
  <2> QED BY <1>1, <1>2, <1>3, <2>1, <2>2, <2>4, <2>6, <2>7, SuppliedStep
<1> QED BY <1>4, <1>5 DEF CloseRevision

LEMMA SuppliedCompleteStage ==
    ASSUME Inv, Supplied, [Next]_vars, NEW e \in Executors, CompleteStage(e)
    PROVE  Supplied'
<1>1. PICK s : s = exec[e].decision.stage
  OBVIOUS
<1> DEFINE q == [exec[e] EXCEPT !.pc = "loading", !.value = "empty", !.target = None,
                                !.next = 1, !.asked = 0]
<1>2. TypeOK /\ exec \in [Executors -> Attempt] /\ exec[e].pc = "completing"
      /\ exec[e].decision.reason # "missing"
  BY TypeOfState DEF Inv, CompleteStage, Supplied
<1>3. q \in Attempt /\ q.decision = exec[e].decision /\ q.pc = "loading"
  BY <1>2 DEF Attempt, Active, Values
<1>4. exec' = [exec EXCEPT ![e] = q] /\ history' = history /\ latest' \subseteq latest \cup {e}
  BY <1>2 DEF CompleteStage, Conflict, Write
<1> HIDE DEF q
<1>5. CASE Conflict(e)
  <2>1. Settled' = Settled
    BY <1>5 DEF Conflict, Settled
  <2> QED BY <1>3, <1>4, <2>1, SuppliedSameDecision
<1>6. CASE Write(e) /\ progress' = StageCompleted(progress, s)
  <2>1. Settled' = Settled \cup {s}
    BY <1>2, <1>6 DEF StageCompleted, Settled, TypeOK
  <2>2. s \in Stages /\ WrittenBy(s)
    BY <1>1, <1>2, <1>6 DEF Write, Supplied, WrittenBy, Inv, Asked, Working
  <2>3. WrittenBy(s)'
    BY <2>2, WrittenStays, OutputIsSection DEF WrittenBy
  <2>4. \A u \in Settled' \ Settled : WrittenBy(u)'
    <3> SUFFICES ASSUME NEW u \in Settled' \ Settled PROVE WrittenBy(u)'
      OBVIOUS
    <3>1. u = s
      BY <2>1
    <3> QED BY <2>3, <3>1 DEF WrittenBy
  <2>5. \A i \in DOMAIN history' : i \in DOMAIN history /\ history'[i].target = history[i].target
    BY <1>4
  <2> QED BY <1>2, <1>3, <1>4, <2>4, <2>5, SuppliedStep
<1> QED BY <1>1, <1>5, <1>6 DEF CompleteStage, StageOf

LEMMA SuppliedNext ==
    ASSUME Inv, Supplied, InputsProduced, [Next]_vars
    PROVE  Supplied'
<1>1. TypeOK /\ exec \in [Executors -> Attempt]
  BY TypeOfState DEF Inv
<1>2. ASSUME NEW e \in Executors, Start(e) PROVE Supplied'
  <2> DEFINE q == [exec[e] EXCEPT !.pc = "loading"]
  <2>1. q \in Attempt /\ q.decision = exec[e].decision /\ q.pc = "loading"
    BY <1>1 DEF Attempt, Active
  <2>2. exec' = [exec EXCEPT ![e] = q]
    BY <1>1, <1>2 DEF Start
  <2>3. latest' = latest /\ Settled' = Settled /\ history' = history
    BY <1>2 DEF Start, Settled
  <2> HIDE DEF q
  <2> QED BY <2>1, <2>2, <2>3, SuppliedSameDecision
<1>3. ASSUME NEW e \in Executors, Load(e) PROVE Supplied'
  <2> DEFINE q == [exec[e] EXCEPT !.pc = "recording", !.decisions = exec[e].decisions + 1,
                                  !.decision = NextDecision]
  <2>1. NextDecision \in Decision /\ exec[e].decisions + 1 \in 0 .. MaxDecisions
    BY <1>1, <1>3, NextDecisionIsSound, BoundAssumption DEF Inv, Sound, Attempt, Load
  <2>2. q \in Attempt /\ q.pc = "recording" /\ q.decision = NextDecision
    BY <1>1, <2>1 DEF Attempt, Active
  <2>3. exec' = [exec EXCEPT ![e] = q] /\ latest' = latest \cup {e} /\ history' = history
        /\ Settled' = Settled
    BY <1>1, <1>3 DEF Load, Settled
  <2>4. NextDecision.reason # "missing"
    BY NeverMissing
  <2> HIDE DEF q
  <2> QED BY <2>2, <2>3, <2>4, SuppliedQuietStep
<1>4. ASSUME NEW e \in Executors,
             DecisionLimit(e) \/ Crash(e) \/ HandlerRaises(e, "error") \/ HandlerRaises(e, "fatal")
      PROVE  Supplied'
  <2>1. latest' = latest /\ Settled' = Settled /\ history' = history
    BY <1>4 DEF DecisionLimit, Crash, HandlerRaises, Settled
  <2>2. \E how \in Ended : exec' = End(e, how)
    BY <1>4 DEF DecisionLimit, Crash, HandlerRaises, Ended
  <2> QED BY <2>1, <2>2, SuppliedSameDecision
<1>5. ASSUME NEW e \in Executors, HandlerReturns(e) PROVE Supplied'
  <2>1. PICK value \in Results(StageOf(e)) :
          \E target \in (IF value = "REVISE" THEN Targets[StageOf(e)] ELSE {None}) :
            exec' = [exec EXCEPT ![e].pc = "writing", ![e].next = 1,
                                 ![e].value = value, ![e].target = target]
    BY <1>5 DEF HandlerReturns
  <2>2. PICK target \in (IF value = "REVISE" THEN Targets[StageOf(e)] ELSE {None}) :
            exec' = [exec EXCEPT ![e].pc = "writing", ![e].next = 1,
                                 ![e].value = value, ![e].target = target]
    BY <2>1
  <2> DEFINE q == [exec[e] EXCEPT !.pc = "writing", !.next = 1, !.value = value,
                                  !.target = target]
  <2>3. value \in Values /\ target \in Stages \cup {None}
    BY ResultsType, TargetIsStage
  <2>4. q \in Attempt /\ q.decision = exec[e].decision /\ q.pc = "writing"
    BY <1>1, <2>3 DEF Attempt, Active
  <2>5. exec' = [exec EXCEPT ![e] = q]
    BY <1>1, <2>2
  <2>6. latest' = latest /\ Settled' = Settled /\ history' = history
    BY <1>5 DEF HandlerReturns, Settled
  <2> HIDE DEF q
  <2> QED BY <2>4, <2>5, <2>6, SuppliedSameDecision
<1>6. ASSUME NEW e \in Executors, RecordDecision(e) PROVE Supplied'
  BY <1>6, SuppliedRecordDecision
<1>7. ASSUME NEW e \in Executors, WriteOutput(e) PROVE Supplied'
  BY <1>7, SuppliedWriteOutput
<1>8. ASSUME NEW e \in Executors, CloseRevision(e) PROVE Supplied'
  BY <1>8, SuppliedCloseRevision
<1>9. ASSUME NEW e \in Executors, CompleteStage(e) PROVE Supplied'
  BY <1>9, SuppliedCompleteStage
<1>10. ASSUME UNCHANGED vars \/ \E x \in Editable : Edit(x) PROVE Supplied'
  <2>1. /\ exec' = exec /\ history' = history /\ Settled' = Settled /\ latest' \subseteq latest
    BY <1>10 DEF vars, Edit, Settled
  <2>2. \A x \in Sections : Written(x) => Written(x)'
    BY WrittenStays
  <2>3. \A s \in Stages : (WrittenBy(s) => WrittenBy(s)') /\ (InputsWritten(s) => InputsWritten(s)')
    BY <2>2, OutputIsSection, InputIsSection DEF WrittenBy, InputsWritten
  <2>4. Settled \subseteq Stages /\ \A i \in DOMAIN history : history[i].target \in Stages
    <3>1. \A i \in DOMAIN history : history[i] \in Revision
      BY <1>1 DEF TypeOK
    <3> QED BY <1>1, <3>1 DEF TypeOK, Settled, Revision
  <2>5. ASSUME NEW i \in DOMAIN history PROVE InputsWritten(history[i].target)'
    <3>1. PICK t : t = history[i].target
      OBVIOUS
    <3>2. InputsWritten(t)'
      BY <2>3, <2>4, <3>1 DEF Supplied
    <3> QED BY <2>1, <3>1, <3>2 DEF InputsWritten
  <2>6. ASSUME NEW f \in latest, exec[f].pc \in {"closing", "completing"}
        PROVE  \A x \in OutputSet(exec[f].decision.stage) : Written(x)'
    <3>1. f \in Executors /\ exec[f].decision.stage \in Stages
      BY <1>1, <2>6 DEF Inv, Asked, TypeOK, Working
    <3>2. WrittenBy(exec[f].decision.stage)
      BY <2>6, <3>1 DEF Supplied, WrittenBy
    <3> QED BY <2>2, <3>1, <3>2, OutputIsSection DEF WrittenBy
  <2> QED BY <2>1, <2>2, <2>3, <2>4, <2>5, <2>6 DEF Supplied
<1> QED BY <1>2, <1>3, <1>4, <1>5, <1>6, <1>7, <1>8, <1>9, <1>10 DEF Next, Step

LEMMA SuppliedInit == ASSUME Init PROVE Supplied
<1>1. Settled = {} /\ history = <<>> /\ exec = [e \in Executors |-> IdleExecutor]
  BY DEF Init, Settled
<1>2. \A e \in Executors : exec[e].pc = "idle" /\ exec[e].decision.reason = "run"
  BY <1>1 DEF IdleExecutor, NoDecision
<1>3. \A x \in Provided \cap Sections : Written(x)
  BY DEF Init, Written, Present
<1> QED BY <1>1, <1>2, <1>3 DEF Supplied

\* A generation is never stopped for a missing input, whatever is revised, crashes or
\* overlaps, as long as the plan's inputs are each provided or some stage's output.
THEOREM InputsAlwaysArrive ==
    ASSUME VerdictsUntouched, InputsProduced PROVE Spec => []InputsArrive
<1>1. Inv /\ Supplied /\ [Next]_vars => Supplied'
  BY SuppliedNext
<1>2. Supplied => InputsArrive
  BY DEF Supplied, InputsArrive
<1> QED BY <1>1, <1>2, SuppliedInit, Invariance, PTL DEF Spec

----------------------------------------------------------------------------
(* The decisions of an attempt.  Each one that does not end it uses up a piece *)
(* of work that no later one can use again, unless a client's patch outdated   *)
(* it; so an attempt ends before its limit when there is less work than that.  *)

\* The requests of r that have been handled, or are by an executor q.
Handles(q) == q.pc \in {"running", "writing", "closing"}
Taken(q, r) ==
    IF PendingTarget # None /\ history[Len(history)].by = r /\ ~ Handles(q)
    THEN RequestsBy(r) - 1 ELSE RequestsBy(r)
Spent(q) ==
    {t \in Work :
        \/ t[1] = "skip" /\ (t[2] \in progress.skipped \/ history # <<>>)
        \/ t[1] = "run" /\ t[3] <= progress.attempts[t[2]]
        \/ t[1] = "revise" /\ t[3] <= Taken(q, t[2])}

\* What q decided is covered by the work it has spent and the patches.
Tally(q, e) ==
    /\ q.pc # "exhausted" /\ (q.pc = "idle" => q.decisions = 0)
    /\ q.pc \in Active =>
         \/ q.decisions <= Cardinality(Spent(q)) + edits
         \/ /\ q.pc = "recording" /\ e \in latest
            /\ q.decisions = Cardinality(Spent(q)) + edits + 1
    /\ q.pc \in {"running", "writing"} /\ q.decision.stage \in Reviewers =>
         RequestsBy(q.decision.stage) < progress.attempts[q.decision.stage]

\* A run of a reviewer makes at most one request, and a reviewer is never sent back.
Reviewed ==
    \A r \in Reviewers : RequestsBy(r) <= progress.attempts[r] /\ progress.attempts[r] <= MaxStageAttempts
Alone == \A e, f \in Executors : exec[e].pc \in Active /\ exec[f].pc \in Active => e = f
Counted == Alone /\ Reviewed /\ \A e \in Executors : Tally(exec[e], e)

LEMMA WorkIsFinite == IsFiniteSet(Work) /\ Cardinality(Work) \in Nat
<1>1. IsFiniteSet(1 .. Len(Plan)) /\ DOMAIN Plan = 1 .. Len(Plan)
  BY PlanAssumption, FS_Interval
<1> DEFINE f == [i \in DOMAIN Plan |-> Plan[i].stage]
<1>2. f \in Surjection(DOMAIN Plan, Stages)
  BY DEF Surjection, Stages
<1>3. IsFiniteSet(Stages)
  BY <1>1, <1>2, FS_Surjection
<1>4. IsFiniteSet({"skip", "run", "revise"})
  <2>1. IsFiniteSet({}) /\ {"skip"} = {} \cup {"skip"} /\ {"skip", "run"} = {"skip"} \cup {"run"}
        /\ {"skip", "run", "revise"} = {"skip", "run"} \cup {"revise"}
    BY FS_EmptySet
  <2>2. IsFiniteSet({"skip"})
    BY <2>1, FS_AddElement
  <2>3. IsFiniteSet({"skip", "run"})
    BY <2>1, <2>2, FS_AddElement
  <2> QED BY <2>1, <2>3, FS_AddElement
<1>5. IsFiniteSet(0 .. MaxStageAttempts + MaxRevisions)
  BY BoundAssumption, FS_Interval
<1> DEFINE A == {"skip", "run", "revise"}
           N == 0 .. MaxStageAttempts + MaxRevisions
           P == {<<a, s, n>> : a \in A, s \in Stages, n \in N}
<1> DEFINE g == [p \in (A \X Stages) \X N |-> <<p[1][1], p[1][2], p[2]>>]
<1>6. IsFiniteSet((A \X Stages) \X N)
  BY <1>3, <1>4, <1>5, FS_Product
<1>7. g \in Surjection((A \X Stages) \X N, A \X Stages \X N)
  <2>1. g \in [(A \X Stages) \X N -> A \X Stages \X N]
    OBVIOUS
  <2>2. ASSUME NEW t \in A \X Stages \X N PROVE \E p \in (A \X Stages) \X N : g[p] = t
    <3>1. PICK p : p = <<<<t[1], t[2]>>, t[3]>>
      OBVIOUS
    <3>2. p \in (A \X Stages) \X N /\ g[p] = t
      BY <3>1
    <3> QED BY <3>2
  <2> HIDE DEF g
  <2> QED BY <2>1, <2>2 DEF Surjection
<1>8. IsFiniteSet(A \X Stages \X N)
  <2> HIDE DEF A, N, g
  <2> QED BY <1>6, <1>7, FS_Surjection
<1>9. Work \in SUBSET (A \X Stages \X N)
  BY DEF Work
<1> HIDE DEF A, N
<1> QED BY <1>8, <1>9, FS_Subset, FS_CardinalityType

LEMMA Counting ==
    ASSUME NEW A, NEW B, A \subseteq B, B \subseteq Work
    PROVE  /\ Cardinality(A) \in Nat /\ Cardinality(B) \in Nat /\ Cardinality(A) <= Cardinality(B)
           /\ Cardinality(B) <= Cardinality(Work)
           /\ \A t \in B \ A : Cardinality(A) + 1 <= Cardinality(B)
<1>1. IsFiniteSet(B) /\ IsFiniteSet(A) /\ Cardinality(B) <= Cardinality(Work)
      /\ Cardinality(A) <= Cardinality(B)
  BY WorkIsFinite, FS_Subset
<1>2. Cardinality(A) \in Nat /\ Cardinality(B) \in Nat
  BY <1>1, FS_CardinalityType
<1>3. ASSUME NEW t \in B \ A PROVE Cardinality(A) + 1 <= Cardinality(B)
  <2>1. A \cup {t} \subseteq B /\ Cardinality(A \cup {t}) = Cardinality(A) + 1
    BY <1>1, FS_AddElement
  <2> QED BY <1>1, <2>1, FS_Subset
<1> QED BY <1>1, <1>2, <1>3

LEMMA CountType ==
    ASSUME NEW h \in Seq(Revision), NEW r
    PROVE  Cardinality({i \in DOMAIN h : h[i].by = r}) \in Nat
<1>1. PICK X : X = {i \in DOMAIN h : h[i].by = r}
  OBVIOUS
<1>2. Len(h) \in Nat /\ DOMAIN h = 1 .. Len(h)
  OBVIOUS
<1>3. IsFiniteSet(1 .. Len(h)) /\ X \in SUBSET (1 .. Len(h))
  BY <1>1, <1>2, FS_Interval
<1>4. Cardinality(X) \in Nat
  BY <1>3, FS_Subset, FS_CardinalityType
<1> QED BY <1>1, <1>4

LEMMA RequestsType == ASSUME NEW r PROVE (TypeOK => RequestsBy(r) \in Nat) /\ (TypeOK' => RequestsBy(r)' \in Nat)
BY CountType DEF RequestsBy, TypeOK

LEMMA TakenType ==
    ASSUME NEW q, NEW r
    PROVE  /\ TypeOK => Taken(q, r) \in Int /\ Taken(q, r) <= RequestsBy(r)
           /\ TypeOK' => Taken(q, r)' \in Int
<1>1. (TypeOK => RequestsBy(r) \in Nat) /\ (TypeOK' => RequestsBy(r)' \in Nat)
  BY RequestsType
<1> QED BY <1>1 DEF Taken

\* Spent work stays spent.
LEMMA SpentGrows ==
    ASSUME NEW p, NEW q, TypeOK, TypeOK',
           progress.skipped \subseteq progress'.skipped \/ history' # <<>>,
           history # <<>> => history' # <<>>,
           \A s \in Stages : progress.attempts[s] <= progress'.attempts[s],
           \A r \in Reviewers : Taken(p, r) <= Taken(q, r)'
    PROVE  Spent(p) \subseteq Spent(q)' /\ Spent(q)' \subseteq Work
<1>1. Spent(q)' \subseteq Work
  BY DEF Spent
<1>2. ASSUME NEW t \in Spent(p) PROVE t \in Spent(q)'
  <2>1. t \in Work /\ t[2] \in Stages /\ t[3] \in Nat
    BY DEF Spent, Work
  <2>2. CASE t[1] = "skip"
    BY <2>1, <2>2 DEF Spent
  <2>3. CASE t[1] = "run"
    <3>1. t[3] <= progress.attempts[t[2]] /\ progress.attempts[t[2]] \in Nat /\ progress'.attempts[t[2]] \in Nat
      BY <2>1, <2>3 DEF Spent, TypeOK
    <3>2. t[3] <= progress'.attempts[t[2]]
      BY <2>1, <3>1
    <3> QED BY <2>1, <2>3, <3>2 DEF Spent
  <2>4. CASE t[1] = "revise"
    <3>1. t[3] <= Taken(p, t[2]) /\ t[2] \in Reviewers
      BY <2>1, <2>4 DEF Spent, Work
    <3>2. Taken(p, t[2]) \in Int /\ Taken(q, t[2])' \in Int
      BY TakenType
    <3>3. t[3] <= Taken(q, t[2])'
      BY <2>1, <3>1, <3>2
    <3> QED BY <2>1, <2>4, <3>3 DEF Spent
  <2> QED BY <2>1, <2>2, <2>3, <2>4 DEF Work
<1> QED BY <1>1, <1>2

\* Nothing is spent or returned by a step that leaves progress and requests alone
\* and does not change whether a request is being handled.
LEMMA SpentStays ==
    ASSUME NEW p, NEW q, TypeOK, TypeOK', UNCHANGED <<progress, history>>,
           PendingTarget = None \/ (Handles(p) <=> Handles(q))
    PROVE  Spent(p) \subseteq Spent(q)' /\ Spent(q)' \subseteq Work
<1>1. \A r : RequestsBy(r)' = RequestsBy(r) /\ PendingTarget' = PendingTarget
  BY DEF RequestsBy, PendingTarget
<1>2. \A r : Taken(q, r)' = Taken(p, r)
  BY <1>1 DEF Taken
<1>3. \A r : Taken(p, r) \in Int
  BY TakenType
<1>4. \A r \in Reviewers : Taken(p, r) <= Taken(q, r)'
  BY <1>2, <1>3
<1>5. \A s \in Stages : progress.attempts[s] <= progress'.attempts[s]
  BY DEF TypeOK
<1> QED BY <1>4, <1>5, SpentGrows

\* A step of one attempt; the others are at rest.
LEMMA OneMoves ==
    ASSUME Inv, Counted, NEW e \in Executors, NEW q \in Attempt, exec' = [exec EXCEPT ![e] = q],
           exec[e].pc \in Active \/ \A f \in Executors : exec[f].pc \notin Active,
           Reviewed', Tally(q, e)'
    PROVE  Counted'
<1>1. exec \in [Executors -> Attempt]
  BY TypeOfState DEF Inv
<1>2. exec'[e] = q /\ \A f \in Executors \ {e} : exec'[f] = exec[f] /\ exec[f].pc \notin Active
  BY <1>1 DEF Counted, Alone
<1>3. Alone'
  BY <1>2 DEF Alone
<1>4. ASSUME NEW f \in Executors PROVE Tally(exec[f], f)'
  <2>1. CASE f = e
    BY <1>2, <2>1 DEF Tally, Spent, Taken, Handles
  <2>2. CASE f # e
    <3>1. PICK p : p = exec[f]
      OBVIOUS
    <3>2. exec'[f] = p /\ p.pc \notin Active \cup {"exhausted"} /\ (p.pc = "idle" => p.decisions = 0)
      BY <1>2, <2>2, <3>1 DEF Counted, Tally
    <3> QED BY <3>2 DEF Tally, Active
  <2> QED BY <2>1, <2>2
<1> QED BY <1>3, <1>4 DEF Counted

LEMMA ReviewedStays ==
    ASSUME Counted, UNCHANGED <<progress, history>> PROVE Reviewed'
BY DEF Counted, Reviewed, RequestsBy

\* An attempt that ends needs no cover.
LEMMA CountedEnd ==
    ASSUME Inv, Counted, NEW e \in Executors, NEW how \in Ended \ {"exhausted"}, exec' = End(e, how),
           exec[e].pc \in Active, UNCHANGED <<progress, history>>
    PROVE  Counted'
<1>1. PICK q : q = [IdleExecutor EXCEPT !.pc = how, !.decision = exec[e].decision]
  OBVIOUS
<1>2. exec[e] \in Attempt
  BY AttemptOf DEF Inv
<1>3. IdleExecutor \in Attempt
  <2>1. NoDecision \in Decision /\ 0 \in 0 .. MaxDecisions
    BY BoundAssumption DEF NoDecision, Decision
  <2> QED BY <2>1 DEF IdleExecutor, Attempt, Values
<1>4. q \in Attempt /\ q.pc = how
  BY <1>1, <1>2, <1>3 DEF Attempt
<1>5. exec' = [exec EXCEPT ![e] = q]
  BY <1>1 DEF End
<1>6. Tally(q, e)'
  BY <1>4 DEF Tally, Ended, Active
<1> QED BY <1>4, <1>5, <1>6, ReviewedStays, OneMoves

\* A step inside an attempt that decides nothing and returns no work.
LEMMA CountedGrow ==
    ASSUME Inv, Counted, NEW e \in Executors, NEW q \in Attempt, exec' = [exec EXCEPT ![e] = q],
           edits' = edits, exec[e].pc \in Active, q.pc \in Active,
           q.decisions = exec[e].decisions, exec[e].pc = "recording" => e \notin latest,
           Spent(exec[e]) \subseteq Spent(q)', Spent(q)' \subseteq Work, Reviewed',
           q.pc \in {"running", "writing"} /\ q.decision.stage \in Reviewers =>
              RequestsBy(q.decision.stage)' < progress'.attempts[q.decision.stage]
    PROVE  Counted'
<1>1. PICK p : p = exec[e]
  OBVIOUS
<1>2. PICK A : A = Spent(p)
  OBVIOUS
<1>3. PICK B : B = Spent(q)'
  OBVIOUS
<1>4. A \subseteq B /\ B \subseteq Work
  BY <1>1, <1>2, <1>3
<1>5. Cardinality(A) \in Nat /\ Cardinality(B) \in Nat /\ Cardinality(A) <= Cardinality(B)
  BY <1>4, Counting
<1>6. edits \in Nat /\ edits' = edits /\ p.decisions \in Nat
  <2>1. p \in Attempt
    BY <1>1, AttemptOf DEF Inv
  <2> QED BY <2>1, BoundAssumption DEF Inv, TypeOK, Attempt
<1>7. p.decisions <= Cardinality(A) + edits
  BY <1>1, <1>2 DEF Counted, Tally
<1>8. q.decisions <= Cardinality(B) + edits'
  BY <1>1, <1>5, <1>6, <1>7
<1>9. q.pc \notin {"idle", "exhausted"}
  BY DEF Active
<1>10. Tally(q, e)'
  BY <1>3, <1>8, <1>9 DEF Tally
<1> QED BY <1>10, OneMoves

\* One that leaves progress and requests alone.
LEMMA CountedQuietly ==
    ASSUME Inv, Inv', Counted, NEW e \in Executors, NEW q \in Attempt, exec' = [exec EXCEPT ![e] = q],
           UNCHANGED <<progress, history, edits>>, exec[e].pc \in Active, q.pc \in Active,
           q.decisions = exec[e].decisions, exec[e].pc = "recording" => e \notin latest,
           PendingTarget = None \/ (Handles(exec[e]) <=> Handles(q)),
           q.pc \in {"running", "writing"} =>
              exec[e].pc \in {"running", "writing"} /\ q.decision = exec[e].decision
    PROVE  Counted'
<1>1. PICK p : p = exec[e]
  OBVIOUS
<1>2. Spent(p) \subseteq Spent(q)' /\ Spent(q)' \subseteq Work
  BY <1>1, SpentStays DEF Inv
<1>3. \A r : RequestsBy(r)' = RequestsBy(r)
  BY DEF RequestsBy
<1>4. q.pc \in {"running", "writing"} /\ q.decision.stage \in Reviewers =>
         RequestsBy(q.decision.stage)' < progress'.attempts[q.decision.stage]
  BY <1>1, <1>3 DEF Counted, Tally
<1>5. Reviewed'
  BY ReviewedStays
<1> QED BY <1>1, <1>2, <1>4, <1>5, CountedGrow

LEMMA CountedStart ==
    ASSUME Inv, Inv', Counted, ~ Overlap, NEW e \in Executors, Start(e) PROVE Counted'
<1>1. PICK q : q = [exec[e] EXCEPT !.pc = "loading"]
  OBVIOUS
<1>2. exec[e] \in Attempt /\ exec \in [Executors -> Attempt] /\ exec[e].pc = "idle"
  BY AttemptOf DEF Inv, Start
<1>3. q \in Attempt /\ q.pc = "loading" /\ q.decisions = exec[e].decisions
  BY <1>1, <1>2 DEF Attempt, Active
<1>4. exec' = [exec EXCEPT ![e] = q] /\ UNCHANGED <<progress, history, edits>>
  BY <1>1, <1>2 DEF Start
<1>5. \A f \in Executors : exec[f].pc \notin Active
  BY DEF Start, Running
<1>6. q.decisions = 0
  BY <1>2, <1>3 DEF Counted, Tally
<1>7. PICK B : B = Spent(q)'
  OBVIOUS
<1>8. B \subseteq Work
  BY <1>7 DEF Spent
<1>9. Cardinality(B) \in Nat
  BY <1>8, Counting
<1>10. edits \in Nat /\ edits' = edits
  BY <1>4, BoundAssumption DEF Inv, TypeOK
<1>11. q.decisions <= Cardinality(B) + edits'
  BY <1>6, <1>9, <1>10
<1>12. Tally(q, e)'
  BY <1>3, <1>7, <1>11 DEF Tally
<1> QED BY <1>3, <1>4, <1>5, <1>12, ReviewedStays, OneMoves

LEMMA CountedLoad == ASSUME Inv, Inv', Counted, NEW e \in Executors, Load(e) PROVE Counted'
<1>1. PICK p : p = exec[e]
  OBVIOUS
<1>2. PICK q : q = [p EXCEPT !.pc = "recording", !.decisions = p.decisions + 1, !.decision = NextDecision]
  OBVIOUS
<1>3. p \in Attempt /\ exec \in [Executors -> Attempt] /\ p.pc = "loading" /\ p.decisions < MaxDecisions
  BY <1>1, AttemptOf DEF Inv, Load
<1>4. NextDecision \in Decision
  BY NextDecisionIsSound DEF Inv, Sound
<1>5. p.decisions \in Nat /\ p.decisions + 1 \in 0 .. MaxDecisions
  BY <1>3, BoundAssumption DEF Attempt
<1>6. q \in Attempt /\ q.pc = "recording" /\ q.decisions = p.decisions + 1
  BY <1>2, <1>3, <1>4, <1>5 DEF Attempt, Active
<1>7. exec' = [exec EXCEPT ![e] = q] /\ UNCHANGED <<progress, history, edits>> /\ e \in latest'
  BY <1>1, <1>2, <1>3 DEF Load
<1>8. PICK A : A = Spent(p)
  OBVIOUS
<1>9. PICK B : B = Spent(q)'
  OBVIOUS
<1>10. A \subseteq B /\ B \subseteq Work
  BY <1>3, <1>6, <1>7, <1>8, <1>9, SpentStays DEF Inv, Handles
<1>11. Cardinality(A) \in Nat /\ Cardinality(B) \in Nat /\ Cardinality(A) <= Cardinality(B)
  BY <1>10, Counting
<1>12. edits \in Nat /\ edits' = edits
  BY <1>7, BoundAssumption DEF Inv, TypeOK
<1>13. p.decisions <= Cardinality(A) + edits
  BY <1>1, <1>3, <1>8 DEF Counted, Tally, Active
<1>14. q.decisions <= Cardinality(B) + edits' \/ q.decisions = Cardinality(B) + edits' + 1
  BY <1>5, <1>6, <1>11, <1>12, <1>13
<1>15. Tally(q, e)'
  BY <1>6, <1>7, <1>9, <1>14 DEF Tally
<1>16. exec[e].pc \in Active
  BY <1>1, <1>3 DEF Active
<1> QED BY <1>6, <1>7, <1>15, <1>16, ReviewedStays, OneMoves

LEMMA CountedHandlerReturns ==
    ASSUME Inv, Inv', Counted, NEW e \in Executors, HandlerReturns(e) PROVE Counted'
<1>1. PICK value \in Results(StageOf(e)) :
        \E target \in (IF value = "REVISE" THEN Targets[StageOf(e)] ELSE {None}) :
          exec' = [exec EXCEPT ![e].pc = "writing", ![e].next = 1,
                               ![e].value = value, ![e].target = target]
  BY DEF HandlerReturns
<1>2. PICK target \in (IF value = "REVISE" THEN Targets[StageOf(e)] ELSE {None}) :
          exec' = [exec EXCEPT ![e].pc = "writing", ![e].next = 1,
                               ![e].value = value, ![e].target = target]
  BY <1>1
<1>3. value \in Values /\ target \in Stages \cup {None}
  BY ResultsType, TargetIsStage
<1>4. PICK q : q = [exec[e] EXCEPT !.pc = "writing", !.next = 1, !.value = value, !.target = target]
  OBVIOUS
<1>5. exec[e] \in Attempt /\ exec \in [Executors -> Attempt] /\ exec[e].pc = "running"
  BY AttemptOf DEF Inv, HandlerReturns
<1>6. q \in Attempt /\ q.pc = "writing" /\ q.decisions = exec[e].decisions /\ q.decision = exec[e].decision
  BY <1>3, <1>4, <1>5 DEF Attempt, Active
<1>7. exec' = [exec EXCEPT ![e] = q]
  BY <1>2, <1>4, <1>5
<1>8. UNCHANGED <<progress, history, edits>>
  BY DEF HandlerReturns
<1> QED BY <1>5, <1>6, <1>7, <1>8, CountedQuietly DEF Handles, Active

LEMMA CountedCompleteStage ==
    ASSUME Inv, Inv', Counted, NEW e \in Executors, CompleteStage(e) PROVE Counted'
<1>1. PICK q : q = [exec[e] EXCEPT !.pc = "loading", !.value = "empty", !.target = None,
                                   !.next = 1, !.asked = 0]
  OBVIOUS
<1>2. exec[e] \in Attempt /\ exec \in [Executors -> Attempt] /\ exec[e].pc = "completing"
  BY AttemptOf DEF Inv, CompleteStage
<1>3. q \in Attempt /\ q.pc = "loading" /\ q.decisions = exec[e].decisions
  BY <1>1, <1>2 DEF Attempt, Active, Values
<1>4. exec' = [exec EXCEPT ![e] = q]
  BY <1>1, <1>2 DEF CompleteStage
<1>5. CASE Conflict(e)
  <2>1. UNCHANGED <<progress, history, edits>>
    BY <1>5 DEF Conflict
  <2> QED BY <1>2, <1>3, <1>4, <2>1, CountedQuietly DEF Handles, Active
<1>6. CASE progress' = StageCompleted(progress, StageOf(e)) /\ UNCHANGED <<section, history, edits, stale>>
  <2>1. progress'.skipped = progress.skipped /\ progress'.attempts = progress.attempts
    BY <1>6 DEF StageCompleted, Inv, TypeOK
  <2>2. \A r : RequestsBy(r)' = RequestsBy(r) /\ PendingTarget' = PendingTarget
    BY <1>6 DEF RequestsBy, PendingTarget
  <2>3. PICK p : p = exec[e]
    OBVIOUS
  <2>4. ~ Handles(p) /\ ~ Handles(q)
    BY <1>2, <1>3, <2>3 DEF Handles
  <2>5. \A r : Taken(q, r)' = Taken(p, r) /\ Taken(p, r) \in Int
    BY <1>6, <2>2, <2>4, TakenType DEF Taken, Inv
  <2>6. \A s \in Stages : progress.attempts[s] <= progress'.attempts[s]
    BY <2>1 DEF Inv, TypeOK
  <2>7. \A r \in Reviewers : Taken(p, r) <= Taken(q, r)'
    BY <2>5
  <2>8. Spent(p) \subseteq Spent(q)' /\ Spent(q)' \subseteq Work
    BY <1>6, <2>1, <2>6, <2>7, SpentGrows DEF Inv
  <2>9. Reviewed'
    BY <2>1, <2>2 DEF Counted, Reviewed
  <2> QED BY <1>2, <1>3, <1>4, <1>6, <2>3, <2>8, <2>9, CountedGrow DEF Active
<1> QED BY <1>5, <1>6 DEF CompleteStage

LEMMA CountedEdit == ASSUME Inv, Inv', Counted, NEW x \in Editable, Edit(x) PROVE Counted'
<1>1. UNCHANGED <<progress, history, exec>> /\ edits' = edits + 1
  BY DEF Edit
<1>2. edits \in Nat
  BY BoundAssumption DEF Inv, TypeOK
<1>3. ASSUME NEW f \in Executors PROVE Tally(exec[f], f)'
  <2>1. PICK q : q = exec[f]
    OBVIOUS
  <2>2. PICK A : A = Spent(q)
    OBVIOUS
  <2>3. PICK B : B = Spent(q)'
    OBVIOUS
  <2>4. A \subseteq B /\ B \subseteq Work
    BY <1>1, <2>2, <2>3, SpentStays DEF Inv
  <2>5. Cardinality(A) \in Nat /\ Cardinality(B) \in Nat /\ Cardinality(A) <= Cardinality(B)
    BY <2>4, Counting
  <2>6. q.decisions \in Nat
    BY <2>1, AttemptOf, BoundAssumption DEF Inv, Attempt
  <2>7. q.pc \in Active => q.decisions <= Cardinality(A) + edits + 1
    BY <1>2, <2>1, <2>2, <2>5, <2>6 DEF Counted, Tally
  <2>8. q.pc \in Active => q.decisions <= Cardinality(B) + edits'
    BY <1>1, <1>2, <2>5, <2>6, <2>7
  <2>9. \A r : RequestsBy(r)' = RequestsBy(r)
    BY <1>1 DEF RequestsBy
  <2>10. Tally(q, f)'
    BY <1>1, <2>1, <2>3, <2>8, <2>9 DEF Counted, Tally
  <2>11. exec'[f] = q
    BY <1>1, <2>1
  <2> QED BY <2>10, <2>11 DEF Tally, Spent, Taken, Handles
<1>4. Alone'
  BY <1>1 DEF Counted, Alone
<1>5. Reviewed'
  BY <1>1, ReviewedStays
<1> QED BY <1>3, <1>4, <1>5 DEF Counted

LEMMA CountedCloseRevision ==
    ASSUME Inv, Inv', Counted, NEW e \in Executors, CloseRevision(e) PROVE Counted'
<1>1. exec[e] \in Attempt /\ exec \in [Executors -> Attempt] /\ exec[e].pc = "closing"
  BY AttemptOf DEF Inv, CloseRevision
<1>2. CASE Conflict(e) /\ exec' = End(e, "error")
  BY <1>1, <1>2, CountedEnd DEF Conflict, Ended, Active
<1>3. CASE /\ Write(e)
           /\ history' = [history EXCEPT ![Len(history)].status = "completed"]
           /\ exec' = [exec EXCEPT ![e].pc = "completing"]
           /\ UNCHANGED <<progress, section, edits, stale>>
  <2>1. PICK q : q = [exec[e] EXCEPT !.pc = "completing"]
    OBVIOUS
  <2>2. q \in Attempt /\ q.pc = "completing" /\ q.decisions = exec[e].decisions
    BY <1>1, <2>1 DEF Attempt, Active
  <2>3. exec' = [exec EXCEPT ![e] = q]
    BY <1>1, <1>3, <2>1
  <2>4. PICK p : p = exec[e]
    OBVIOUS
  <2>5. PendingTarget # None
    <3>1. e \in latest
      BY <1>3 DEF Write
    <3>2. First(p.decision.stage) /\ p.decision.stage = PendingTarget
      BY <1>1, <2>4, <3>1 DEF Inv, Informed, Working
    <3> QED BY <3>2, BoundAssumption DEF First, Unsettled
  <2>6. /\ history' # <<>> /\ Len(history') = Len(history) /\ history'[Len(history)].status = "completed"
        /\ DOMAIN history' = DOMAIN history /\ \A i \in DOMAIN history : history'[i].by = history[i].by
    BY <1>3, <2>5, CloseHistory DEF Inv
  <2>7. PendingTarget' = None
    BY <2>6 DEF PendingTarget
  <2>8. \A r : RequestsBy(r)' = RequestsBy(r)
    <3> TAKE r
    <3>1. {i \in DOMAIN history' : history'[i].by = r} = {i \in DOMAIN history : history[i].by = r}
      BY <2>6
    <3> QED BY <3>1 DEF RequestsBy
  <2>9. \A r : Taken(q, r)' = RequestsBy(r) /\ Taken(p, r) <= RequestsBy(r)
    BY <2>7, <2>8, TakenType DEF Taken, Inv
  <2>10. \A r \in Reviewers : Taken(p, r) <= Taken(q, r)'
    BY <2>9
  <2>11. \A s \in Stages : progress.attempts[s] <= progress'.attempts[s]
    BY <1>3 DEF Inv, TypeOK
  <2>12. Spent(p) \subseteq Spent(q)' /\ Spent(q)' \subseteq Work
    BY <1>3, <2>6, <2>10, <2>11, SpentGrows DEF Inv
  <2>13. Reviewed'
    BY <1>3, <2>8 DEF Counted, Reviewed
  <2> QED BY <1>1, <1>3, <2>2, <2>3, <2>4, <2>12, <2>13, CountedGrow DEF Active
<1> QED BY <1>2, <1>3 DEF CloseRevision

\* The request that is still open was made by a reviewer, and its target is none.
LEMMA PendingOf ==
    ASSUME Inv, PendingTarget # None
    PROVE  LET r == history[Len(history)].by
           IN  r \in Reviewers /\ PendingTarget \in Stages \ Reviewers /\ RequestsBy(r) \in Nat \ {0}
<1>1. /\ history # <<>> /\ Len(history) \in DOMAIN history
      /\ PendingTarget = history[Len(history)].target
  BY PendingType DEF Inv
<1>2. PICK r : r = history[Len(history)].by
  OBVIOUS
<1>3. r \in Reviewers
  <2>1. history[Len(history)] \in Revision
    BY <1>1 DEF Inv, TypeOK
  <2> QED BY <1>2, <2>1 DEF Revision
<1>4. PendingTarget \in Targets[r]
  BY <1>1, <1>2 DEF Inv, Judged
<1>5. PICK X : X = {i \in DOMAIN history : history[i].by = r}
  OBVIOUS
<1>6. DOMAIN history = 1 .. Len(history) /\ Len(history) \in Nat /\ Len(history) \in X
  BY <1>1, <1>2, <1>5 DEF Inv, TypeOK
<1>7. IsFiniteSet(X)
  <2>1. IsFiniteSet(1 .. Len(history)) /\ X \in SUBSET (1 .. Len(history))
    BY <1>5, <1>6, FS_Interval
  <2> QED BY <2>1, FS_Subset
<1>8. Cardinality(X) \in Nat /\ Cardinality(X) # 0
  BY <1>6, <1>7, FS_CardinalityType, FS_EmptySet
<1>9. RequestsBy(r) \in Nat \ {0}
  BY <1>5, <1>8 DEF RequestsBy
<1> QED BY <1>2, <1>3, <1>4, <1>9, TargetIsStage

LEMMA CountedWriteOutput ==
    ASSUME Inv, Inv', Counted, NEW e \in Executors, WriteOutput(e) PROVE Counted'
<1>1. PICK s : s = exec[e].decision.stage
  OBVIOUS
<1>2. PICK i : i = exec[e].next
  OBVIOUS
<1>3. PICK x : x = Policy[s].outputs[i]
  OBVIOUS
<1> DEFINE last == i = Len(Policy[s].outputs)
<1>4. TypeOK /\ Judged
  BY DEF Inv
<1>5. exec[e] \in Attempt /\ exec \in [Executors -> Attempt] /\ exec[e].pc = "writing"
  BY <1>4, AttemptOf DEF WriteOutput
<1>6. /\ s \in Stages /\ i \in DOMAIN Policy[s].outputs
      /\ exec[e].value = "REVISE" => s \in Reviewers /\ exec[e].target \in Targets[s]
  BY <1>1, <1>2, <1>5 DEF Inv, Asked, Working
<1>7. CASE Conflict(e) /\ exec' = End(e, "error")
  BY <1>5, <1>7, CountedEnd DEF Conflict, Ended, Active
<1>8. CASE /\ Write(e)
           /\ IF x = HistorySection THEN history' = Requested(e) ELSE UNCHANGED history
           /\ exec' = IF ~last THEN [exec EXCEPT ![e].next = @ + 1]
                      ELSE [exec EXCEPT ![e].pc =
                              IF PendingTarget' = s THEN "closing" ELSE "completing"]
           /\ UNCHANGED <<progress, edits>>
  <2>1. e \in latest
    BY <1>8 DEF Write
  <2>2. First(s) /\ Handling(exec[e], s)
    BY <1>1, <1>5, <2>1 DEF Inv, Informed, Working
  <2>3. s # None /\ (PendingTarget # None => s = PendingTarget)
    BY <1>6, <2>2, BoundAssumption DEF Handling
  <2>4. PICK q : q = IF ~last THEN [exec[e] EXCEPT !.next = i + 1]
                     ELSE [exec[e] EXCEPT !.pc =
                             IF PendingTarget' = s THEN "closing" ELSE "completing"]
    OBVIOUS
  <2>5. exec' = [exec EXCEPT ![e] = q]
    BY <1>2, <1>5, <1>8, <2>4
  <2>6. i \in Nat
    BY <1>2, <1>5 DEF Attempt
  <2>7. /\ q \in Attempt /\ q.decision = exec[e].decision /\ q.decisions = exec[e].decisions
        /\ ~last => q.pc = "writing"
        /\ last => q.pc = IF PendingTarget' = s THEN "closing" ELSE "completing"
    <3>1. CASE ~last
      <4>1. q = [exec[e] EXCEPT !.next = i + 1]
        BY <2>4, <3>1
      <4>2. q \in Attempt /\ q.decision = exec[e].decision /\ q.decisions = exec[e].decisions /\ q.pc = "writing"
        BY <1>5, <2>6, <4>1 DEF Attempt
      <4> QED BY <3>1, <4>2
    <3>2. CASE last
      <4>1. PICK pc \in {"closing", "completing"} :
               q = [exec[e] EXCEPT !.pc = pc] /\ pc = IF PendingTarget' = s THEN "closing" ELSE "completing"
        BY <2>4, <3>2
      <4> QED BY <1>5, <3>2, <4>1 DEF Attempt, Active
    <3> QED BY <3>1, <3>2
  <2>8. q.pc \in Active /\ exec[e].pc \in Active
    BY <1>5, <2>7 DEF Active
  <2>9. CASE x = HistorySection /\ exec[e].value = "REVISE"
    <3>1. s \in Reviewers /\ i = 2 /\ last
      <4>1. s \in Reviewers /\ Len(Policy[s].outputs) = 2 /\ i \in 1 .. 2 /\ Verdict(s) # HistorySection
        BY <1>6, <2>9, VerdictOf
      <4>2. i # 1
        BY <1>3, <2>9, <4>1 DEF Verdict
      <4>3. i = 2
        BY <4>1, <4>2
      <4> QED BY <4>1, <4>3
    <3>2. PICK t : t = exec[e].target
      OBVIOUS
    <3>3. t \in Targets[s] /\ t \in Stages /\ t # s /\ t # None
      BY <1>6, <2>9, <3>1, <3>2, TargetIsStage, BoundAssumption
    <3>4. PendingTarget = None
      BY <2>3, <3>1, PendingOf
    <3>5. PICK d : d = [target |-> t, by |-> s, status |-> "pending"]
      OBVIOUS
    <3>6. d \in Revision /\ d.by = s /\ d.status = "pending" /\ d.target = t
      BY <3>1, <3>3, <3>5 DEF Revision
    <3>7. history' = Append(history, d)
      BY <1>1, <1>8, <2>9, <3>2, <3>5 DEF Requested, StageOf
    <3>8. \A r : RequestsBy(r)' = RequestsBy(r) + (IF r = s THEN 1 ELSE 0) /\ RequestsBy(r) \in Nat
      BY <1>4, <3>6, <3>7, RequestsAfter
    <3>9. history' # <<>> /\ history'[Len(history')] = d
      <4>1. history \in Seq(Revision)
        BY <1>4 DEF TypeOK
      <4>2. PICK h : h = Append(history, d)
        OBVIOUS
      <4>3. Len(h) = Len(history) + 1 /\ h[Len(history) + 1] = d /\ h # <<>>
        BY <3>6, <4>1, <4>2
      <4> QED BY <3>7, <4>2, <4>3
    <3>10. PendingTarget' = t
      BY <3>6, <3>9 DEF PendingTarget
    <3>11. q.pc = "completing"
      BY <2>7, <3>1, <3>3, <3>10
    <3>12. PICK p : p = exec[e]
      OBVIOUS
    <3>13. \A r : Taken(p, r) = RequestsBy(r)
      BY <3>4 DEF Taken
    <3>14. \A r : Taken(q, r)' = IF r = s THEN RequestsBy(r)' - 1 ELSE RequestsBy(r)'
      BY <3>3, <3>6, <3>9, <3>10, <3>11 DEF Taken, Handles
    <3>15. \A r \in Reviewers : Taken(p, r) <= Taken(q, r)'
      BY <3>8, <3>13, <3>14
    <3>16. \A u \in Stages : progress.attempts[u] <= progress'.attempts[u]
      BY <1>8 DEF Inv, TypeOK
    <3>17. Spent(p) \subseteq Spent(q)' /\ Spent(q)' \subseteq Work
      BY <1>8, <3>9, <3>15, <3>16, SpentGrows DEF Inv
    <3>18. RequestsBy(s) < progress.attempts[s]
      BY <1>1, <1>5, <3>1 DEF Counted, Tally
    <3>19. Reviewed'
      <4> SUFFICES ASSUME NEW r \in Reviewers
                   PROVE  RequestsBy(r)' <= progress'.attempts[r] /\ progress'.attempts[r] <= MaxStageAttempts
        BY DEF Reviewed
      <4>1. RequestsBy(r) <= progress.attempts[r] /\ progress.attempts[r] <= MaxStageAttempts
        BY DEF Counted, Reviewed
      <4>2. progress.attempts[r] \in Nat /\ progress'.attempts[r] = progress.attempts[r]
        BY <1>4, <1>8, VerdictOf DEF TypeOK
      <4> QED BY <3>8, <3>18, <4>1, <4>2
    <3> QED BY <1>8, <2>5, <2>7, <2>8, <1>5, <3>11, <3>12, <3>17, <3>19, CountedGrow
  <2>10. CASE x # HistorySection \/ exec[e].value # "REVISE"
    <3>1. UNCHANGED <<progress, history, edits>> /\ PendingTarget' = PendingTarget
      BY <1>8, <2>10 DEF Requested, PendingTarget
    <3>2. PendingTarget = None \/ Handles(q)
      BY <2>3, <2>7, <3>1 DEF Handles
    <3>3. Handles(exec[e])
      BY <1>5 DEF Handles
    <3> QED BY <1>5, <2>5, <2>7, <2>8, <3>1, <3>2, <3>3, CountedQuietly
  <2> QED BY <2>9, <2>10
<1> QED BY <1>1, <1>2, <1>3, <1>7, <1>8 DEF WriteOutput, StageOf

\* A decision is recorded together with the piece of work t it uses up.
LEMMA CountedSpend ==
    ASSUME Inv, Counted, NEW e \in Executors, NEW q \in Attempt, exec' = [exec EXCEPT ![e] = q],
           edits' = edits, exec[e].pc = "recording", q.pc \in {"loading", "running"},
           q.decisions = exec[e].decisions,
           Spent(exec[e]) \subseteq Spent(q)', Spent(q)' \subseteq Work,
           NEW t \in Spent(q)' \ Spent(exec[e]), Reviewed',
           q.pc = "running" /\ q.decision.stage \in Reviewers =>
              RequestsBy(q.decision.stage)' < progress'.attempts[q.decision.stage]
    PROVE  Counted'
<1>1. PICK p : p = exec[e]
  OBVIOUS
<1>2. PICK A : A = Spent(p)
  OBVIOUS
<1>3. PICK B : B = Spent(q)'
  OBVIOUS
<1>4. A \subseteq B /\ B \subseteq Work /\ t \in B \ A
  BY <1>1, <1>2, <1>3
<1>5. Cardinality(A) \in Nat /\ Cardinality(B) \in Nat /\ Cardinality(A) + 1 <= Cardinality(B)
  BY <1>4, Counting
<1>6. edits \in Nat /\ edits' = edits /\ p.decisions \in Nat
  <2>1. p \in Attempt
    BY <1>1, AttemptOf DEF Inv
  <2> QED BY <2>1, BoundAssumption DEF Inv, TypeOK, Attempt
<1>7. p.decisions <= Cardinality(A) + edits \/ p.decisions = Cardinality(A) + edits + 1
  BY <1>1, <1>2 DEF Counted, Tally, Active
<1>8. q.decisions <= Cardinality(B) + edits'
  BY <1>1, <1>5, <1>6, <1>7
<1>9. Tally(q, e)'
  BY <1>3, <1>8 DEF Tally
<1>10. exec[e].pc \in Active
  BY DEF Active
<1> QED BY <1>9, <1>10, OneMoves

LEMMA CountedSkip ==
    ASSUME Inv, Inv', Counted, NEW e \in Executors, NEW q \in Attempt, exec' = [exec EXCEPT ![e] = q],
           exec[e].pc = "recording", q.pc = "loading", q.decisions = exec[e].decisions,
           UNCHANGED <<section, history, edits>>, NEW s,
           PendingTarget = None, First(s), Skippable(s),
           progress' = [progress EXCEPT !.skipped = @ \cup {s}, !.current = None]
    PROVE  Counted'
<1>1. s \in Stages /\ s \in Unsettled
  BY DEF First, Unsettled
<1>2. history = <<>>
  BY <1>1 DEF Inv, Ordered, Skippable
<1>3. progress'.skipped = progress.skipped \cup {s} /\ progress'.attempts = progress.attempts
  BY DEF Inv, TypeOK
<1>4. PICK p : p = exec[e]
  OBVIOUS
<1>5. \A r : RequestsBy(r)' = RequestsBy(r) /\ PendingTarget' = PendingTarget
  BY DEF RequestsBy, PendingTarget
<1>6. \A r : Taken(q, r)' = Taken(p, r) /\ Taken(p, r) \in Int
  BY <1>5, TakenType DEF Taken, Inv
<1>7. \A r \in Reviewers : Taken(p, r) <= Taken(q, r)'
  BY <1>6
<1>8. \A u \in Stages : progress.attempts[u] <= progress'.attempts[u]
  BY <1>3 DEF Inv, TypeOK
<1>9. Spent(p) \subseteq Spent(q)' /\ Spent(q)' \subseteq Work
  BY <1>3, <1>7, <1>8, SpentGrows DEF Inv
<1>10. PICK t : t = <<"skip", s, 0>>
  OBVIOUS
<1>11. t \in Work /\ t[1] = "skip" /\ t[2] = s
  BY <1>1, <1>10, BoundAssumption DEF Work
<1>12. s \notin progress.skipped
  BY <1>1 DEF Unsettled, Settled
<1>13. t \in Spent(q)' \ Spent(p)
  BY <1>2, <1>3, <1>11, <1>12 DEF Spent
<1>14. Reviewed'
  BY <1>3, <1>5 DEF Counted, Reviewed
<1> QED BY <1>4, <1>9, <1>13, <1>14, CountedSpend

\* A stage begins: attempts[s] grows by one, and the run or the request is spent.
LEMMA CountedBegin ==
    ASSUME Inv, Inv', Counted, NEW e \in Executors, NEW q \in Attempt, exec' = [exec EXCEPT ![e] = q],
           exec[e].pc = "recording", q.pc = "running", q.decisions = exec[e].decisions,
           UNCHANGED <<section, history, edits>>, NEW s \in Stages, q.decision.stage = s,
           progress'.attempts = [progress.attempts EXCEPT ![s] = @ + 1],
           progress'.skipped = progress.skipped \/ history # <<>>,
           \/ PendingTarget = None /\ progress.attempts[s] < MaxStageAttempts
           \/ PendingTarget # None /\ s = PendingTarget
    PROVE  Counted'
<1>1. PICK p : p = exec[e]
  OBVIOUS
<1>2. \A r : RequestsBy(r)' = RequestsBy(r) /\ PendingTarget' = PendingTarget
  BY DEF RequestsBy, PendingTarget
<1>3. Handles(q) /\ ~ Handles(p)
  BY <1>1 DEF Handles
<1>4. \A r : /\ Taken(q, r)' = RequestsBy(r) /\ Taken(p, r) <= RequestsBy(r)
             /\ RequestsBy(r) \in Nat /\ Taken(p, r) \in Int
  BY <1>2, <1>3, TakenType, RequestsType DEF Taken, Inv
<1>5. \A r \in Reviewers : Taken(p, r) <= Taken(q, r)'
  BY <1>4
<1>6. /\ \A u \in Stages : progress.attempts[u] \in Nat
      /\ progress'.attempts[s] = progress.attempts[s] + 1
      /\ \A u \in Stages \ {s} : progress'.attempts[u] = progress.attempts[u]
  BY DEF Inv, TypeOK
<1>7. \A u \in Stages : progress.attempts[u] <= progress'.attempts[u]
  BY <1>6
<1>8. Spent(p) \subseteq Spent(q)' /\ Spent(q)' \subseteq Work
  BY <1>5, <1>7, SpentGrows DEF Inv
<1>9. \E t : t \in Spent(q)' \ Spent(p)
  <2>1. CASE PendingTarget = None /\ progress.attempts[s] < MaxStageAttempts
    <3>1. PICK n : n = progress.attempts[s] + 1
      OBVIOUS
    <3>2. n \in 1 .. MaxStageAttempts /\ n \in 0 .. MaxStageAttempts + MaxRevisions
      BY <1>6, <2>1, <3>1, BoundAssumption
    <3>3. PICK t : t = <<"run", s, n>>
      OBVIOUS
    <3>4. t \in Work /\ t[1] = "run" /\ t[2] = s /\ t[3] = n
      BY <3>2, <3>3 DEF Work
    <3>5. n <= progress'.attempts[s] /\ ~ (n <= progress.attempts[s])
      BY <1>6, <3>1
    <3>6. t \in Spent(q)'
      BY <3>4, <3>5 DEF Spent
    <3>7. t \notin Spent(p)
      BY <3>4, <3>5 DEF Spent
    <3> QED BY <3>6, <3>7
  <2>2. CASE PendingTarget # None /\ s = PendingTarget
    <3>1. PICK r : r = history[Len(history)].by
      OBVIOUS
    <3>2. PICK n : n = RequestsBy(r)
      OBVIOUS
    <3>3. r \in Reviewers /\ r \in Stages /\ n \in Nat \ {0}
      BY <2>2, <3>1, <3>2, PendingOf, VerdictOf
    <3>4. n <= Allowed(r)
      <4>1. CASE r \in Budgeted
        BY <3>2, <4>1 DEF Allowed, Inv, Judged, RevisionBudget
      <4>2. CASE r \notin Budgeted
        <5>1. n <= progress.attempts[r] /\ progress.attempts[r] <= MaxStageAttempts
          BY <3>2, <3>3 DEF Counted, Reviewed
        <5>2. progress.attempts[r] \in Nat
          BY <1>6, <3>3
        <5> QED BY <3>3, <4>2, <5>1, <5>2, BoundAssumption DEF Allowed
      <4> QED BY <4>1, <4>2
    <3>5. n \in 1 .. Allowed(r) /\ n \in 0 .. MaxStageAttempts + MaxRevisions
      BY <3>3, <3>4, BoundAssumption DEF Allowed
    <3>6. PICK t : t = <<"revise", r, n>>
      OBVIOUS
    <3>7. t \in Work /\ t[1] = "revise" /\ t[2] = r /\ t[3] = n
      BY <3>3, <3>5, <3>6 DEF Work
    <3>8. Taken(q, r)' = n /\ Taken(p, r) = n - 1
      BY <1>3, <1>4, <2>2, <3>1, <3>2 DEF Taken
    <3>9. n <= Taken(q, r)' /\ ~ (n <= Taken(p, r))
      BY <3>3, <3>8
    <3>10. t \in Spent(q)'
      BY <3>7, <3>9 DEF Spent
    <3>11. t \notin Spent(p)
      BY <3>7, <3>9 DEF Spent
    <3> QED BY <3>10, <3>11
  <2> QED BY <2>1, <2>2
<1>10. PICK t : t \in Spent(q)' \ Spent(p)
  BY <1>9
<1>11. s \in Reviewers => PendingTarget = None
  BY PendingOf
<1>12. ASSUME NEW r \in Reviewers
       PROVE  /\ RequestsBy(r)' <= progress'.attempts[r] /\ progress'.attempts[r] <= MaxStageAttempts
              /\ r = s => RequestsBy(r)' < progress'.attempts[r]
  <2>1. RequestsBy(r) <= progress.attempts[r] /\ progress.attempts[r] <= MaxStageAttempts /\ r \in Stages
    BY VerdictOf DEF Counted, Reviewed
  <2>2. RequestsBy(r)' = RequestsBy(r) /\ RequestsBy(r) \in Nat
    BY <1>2, <1>4
  <2>3. CASE r = s
    BY <1>6, <1>11, <2>1, <2>2, <2>3, BoundAssumption
  <2>4. CASE r # s
    BY <1>6, <2>1, <2>2, <2>4
  <2> QED BY <2>3, <2>4
<1>13. Reviewed'
  BY <1>12 DEF Reviewed
<1> QED BY <1>1, <1>8, <1>10, <1>12, <1>13, CountedSpend

LEMMA CountedRecordDecision ==
    ASSUME Inv, Inv', Counted, NEW e \in Executors, RecordDecision(e) PROVE Counted'
<1>1. PICK d : d = exec[e].decision
  OBVIOUS
<1>2. PICK s : s = d.stage
  OBVIOUS
<1>3. exec[e] \in Attempt /\ exec \in [Executors -> Attempt] /\ exec[e].pc = "recording"
  BY AttemptOf DEF Inv, RecordDecision
<1>4. PICK load : load = [exec[e] EXCEPT !.pc = "loading"]
  OBVIOUS
<1>5. load \in Attempt /\ load.pc = "loading" /\ load.decisions = exec[e].decisions
      /\ [exec EXCEPT ![e].pc = "loading"] = [exec EXCEPT ![e] = load]
  BY <1>3, <1>4 DEF Attempt, Active
<1>6. CASE Conflict(e) /\ exec' = [exec EXCEPT ![e].pc = "loading"]
  BY <1>3, <1>5, <1>6, CountedQuietly DEF Conflict, Handles, Active
<1>7. CASE /\ Write(e)
           /\ progress' = Recorded(progress, d)
           /\ exec' = CASE d.action = "SKIP" -> [exec EXCEPT ![e].pc = "loading"]
                        [] d.action = "STOP" ->
                             End(e, IF d.reason = "complete" THEN "complete" ELSE "fatal")
                        [] OTHER -> [exec EXCEPT ![e].pc = "running",
                                                 ![e].asked = RequestsBy(d.stage)]
           /\ UNCHANGED <<section, history, edits, stale>>
  <2>1. Sound(d) /\ d \in Decision
    <3>1. e \in latest
      BY <1>7 DEF Write
    <3> QED BY <1>1, <1>3, <3>1 DEF Inv, Informed, Sound
  <2>2. CASE d.action = "STOP"
    <3>1. PICK how \in Ended \ {"exhausted"} : how = IF d.reason = "complete" THEN "complete" ELSE "fatal"
      BY DEF Ended
    <3>2. exec' = End(e, how) /\ progress' = progress
      BY <1>7, <2>2, <3>1 DEF Recorded
    <3>3. exec[e].pc \in Active
      BY <1>3 DEF Active
    <3> QED BY <1>7, <3>2, <3>3, CountedEnd
  <2>3. CASE d.action = "SKIP"
    <3>1. PendingTarget = None /\ First(s) /\ Skippable(s)
      BY <1>2, <2>1, <2>3 DEF Sound
    <3>2. progress' = [progress EXCEPT !.skipped = @ \cup {s}, !.current = None]
      BY <1>2, <1>7, <2>3 DEF Recorded
    <3>3. exec' = [exec EXCEPT ![e] = load]
      BY <1>5, <1>7, <2>3
    <3> QED BY <1>3, <1>5, <1>7, <3>1, <3>2, <3>3, CountedSkip
  <2>4. ASSUME d.action \in {"REVISE", "CONTINUE", "RETRY"}, s \in Stages,
               progress'.attempts = [progress.attempts EXCEPT ![s] = @ + 1],
               progress'.skipped = progress.skipped \/ history # <<>>,
               \/ PendingTarget = None /\ progress.attempts[s] < MaxStageAttempts
               \/ PendingTarget # None /\ s = PendingTarget
        PROVE  Counted'
    <3>1. PICK asked \in Nat : asked = RequestsBy(s)
      BY RequestsType DEF Inv
    <3>2. PICK q : q = [exec[e] EXCEPT !.pc = "running", !.asked = asked]
      OBVIOUS
    <3>3. q \in Attempt /\ q.pc = "running" /\ q.decisions = exec[e].decisions /\ q.decision = exec[e].decision
      BY <1>3, <3>2 DEF Attempt, Active
    <3>4. exec' = [exec EXCEPT ![e] = q]
      BY <1>2, <1>3, <1>7, <2>4, <3>1, <3>2
    <3>5. q.decision.stage = s
      BY <1>1, <1>2, <3>3
    <3> QED BY <1>3, <1>7, <2>4, <3>3, <3>4, <3>5, CountedBegin
  <2>5. CASE d.action = "REVISE"
    <3>1. PendingTarget # None /\ s = PendingTarget /\ s \in Stages /\ history # <<>>
      BY <1>2, <2>1, <2>5, PendingType DEF Sound, Inv
    <3>2. progress' = Started(Invalidated(progress, s), s)
      BY <1>2, <1>7, <2>5 DEF Recorded
    <3>3. progress'.attempts = [progress.attempts EXCEPT ![s] = @ + 1]
      BY <3>1, <3>2 DEF Started, Invalidated, Inv, TypeOK
    <3> QED BY <2>4, <2>5, <3>1, <3>3
  <2>6. CASE d.action \in {"CONTINUE", "RETRY"}
    <3>1. PendingTarget = None /\ s \in Stages /\ progress.attempts[s] < MaxStageAttempts
      BY <1>2, <2>1, <2>6 DEF Sound, First, Unsettled
    <3>2. progress' = Started(progress, s)
      BY <1>2, <1>7, <2>6 DEF Recorded
    <3>3. progress'.attempts = [progress.attempts EXCEPT ![s] = @ + 1] /\ progress'.skipped = progress.skipped
      BY <3>1, <3>2 DEF Started, Inv, TypeOK
    <3> QED BY <2>4, <2>6, <3>1, <3>3
  <2> QED BY <2>1, <2>2, <2>3, <2>5, <2>6 DEF Decision
<1> QED BY <1>1, <1>6, <1>7 DEF RecordDecision

LEMMA CountedNext ==
    ASSUME Inv, Inv', Counted, WorkFits, [Next]_vars PROVE Counted'
<1>1. ASSUME NEW e \in Executors, Start(e) PROVE Counted'
  BY <1>1, CountedStart DEF WorkFits
<1>2. ASSUME NEW e \in Executors, Step(e) PROVE Counted'
  <2>1. ~ DecisionLimit(e)
    <3> SUFFICES ASSUME DecisionLimit(e) PROVE FALSE
      OBVIOUS
    <3>1. exec[e].pc = "loading" /\ exec[e].decisions = MaxDecisions
      BY DEF DecisionLimit
    <3>2. PICK A : A = Spent(exec[e])
      OBVIOUS
    <3>3. A \subseteq Work
      BY <3>2 DEF Spent
    <3>4. Cardinality(A) \in Nat /\ Cardinality(A) <= Cardinality(Work) /\ Cardinality(Work) \in Nat
      BY <3>3, Counting, WorkIsFinite
    <3>5. MaxDecisions <= Cardinality(A) + edits
      BY <3>1, <3>2 DEF Counted, Tally, Active
    <3>6. edits \in Nat /\ edits <= MaxEdits /\ MaxEdits \in Nat /\ MaxDecisions \in Nat
      BY BoundAssumption DEF Inv, TypeOK
    <3> QED BY <3>4, <3>5, <3>6 DEF WorkFits
  <2>2. ASSUME NEW how \in {"error", "fatal"}, HandlerRaises(e, how) PROVE Counted'
    BY <2>2, CountedEnd DEF HandlerRaises, Ended, Active
  <2> QED BY <1>2, <2>1, <2>2, CountedLoad, CountedRecordDecision, CountedHandlerReturns,
             CountedWriteOutput, CountedCloseRevision, CountedCompleteStage DEF Step
<1>3. ASSUME NEW e \in Executors, Crash(e) PROVE Counted'
  BY <1>3, CountedEnd DEF Crash, Ended
<1>4. ASSUME NEW x \in Editable, Edit(x) PROVE Counted'
  BY <1>4, CountedEdit
<1>5. ASSUME UNCHANGED vars PROVE Counted'
  BY <1>5 DEF vars, Counted, Alone, Reviewed, Tally, Spent, Taken, Handles, RequestsBy, PendingTarget
<1> QED BY <1>1, <1>2, <1>3, <1>4, <1>5 DEF Next

LEMMA CountedInit == ASSUME Init PROVE Counted
<1>1. /\ progress.attempts = [s \in Stages |-> 0] /\ history = <<>>
      /\ exec = [e \in Executors |-> IdleExecutor]
  BY DEF Init
<1>2. \A r : RequestsBy(r) = 0
  BY <1>1, FS_EmptySet DEF RequestsBy
<1>3. \A e \in Executors : exec[e].pc = "idle" /\ exec[e].decisions = 0
  BY <1>1 DEF IdleExecutor
<1>4. Alone
  BY <1>3 DEF Alone, Active
<1>5. Reviewed
  <2>1. ASSUME NEW r \in Reviewers PROVE progress.attempts[r] = 0
    BY <1>1, VerdictOf
  <2> QED BY <1>2, <2>1, BoundAssumption DEF Reviewed
<1>6. \A e \in Executors : Tally(exec[e], e)
  BY <1>3 DEF Tally, Active
<1> QED BY <1>4, <1>5, <1>6 DEF Counted

\* No attempt runs into the decision limit or stops for a missing input, however
\* many revisions are asked and however often earlier attempts crashed, and a job
\* completes only on passed verdicts.
THEOREM NeverStopsTooEarly ==
    ASSUME VerdictsUntouched, InputsProduced, WorkFits PROVE Spec => []NeverStopsEarly
<1>1. Inv /\ Supplied /\ Counted /\ [Next]_vars => (Supplied /\ Counted)' \/ ~ Inv'
  BY SuppliedNext, CountedNext
<1>2. Init => Supplied /\ Counted
  BY SuppliedInit, CountedInit
<1>3. Inv /\ Supplied /\ Counted => NeverStopsEarly
  BY DEF Inv, Supplied, InputsArrive, Counted, Tally, DecisionsSuffice, NeverStopsEarly
<1> QED BY <1>1, <1>2, <1>3, Invariance, PTL DEF Spec
=============================================================================
