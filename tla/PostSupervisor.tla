--------------------------- MODULE PostSupervisor ---------------------------
(***************************************************************************)
(* The post supervisor: PostSupervisor.decide, record_decision and          *)
(* mark_stage_completed (domain/supervisor.py) driven by                    *)
(* PostSupervisorExecutor.execute (orchestration/supervisor.py) over the    *)
(* persisted workflow state of one generation.                              *)
(*                                                                          *)
(* Every write of a section is a transaction of its own that compares the   *)
(* state's version with the version its writer holds.  Versions only grow,  *)
(* so all that a writer's version can tell is whether it is still the       *)
(* latest: `latest' is the set of executors that hold the latest version.   *)
(*                                                                          *)
(* Executors are the attempts of the generation's job.  Overlap lets an     *)
(* attempt begin while an earlier one still runs: a worker that stalled     *)
(* past its lease.                                                          *)
(***************************************************************************)
EXTENDS Integers, Sequences, FiniteSets

CONSTANTS
    Plan,              \* the stage policies, in the order decide scans them
    Targets,           \* reviewing stage -> stages its requests can target
    Budgeted,          \* reviewers that count their requests
    MaxRevisions,      \* max_revisions / max_regenerations of the reviewers
    MaxStageAttempts,  \* SupervisorStagePolicy.max_attempts
    MaxDecisions,      \* max_decisions of the executor
    Provided,          \* sections the request filled before the job ran
    EmptySections,     \* sections whose stage returns an empty array
    Executors,         \* attempts of the job
    Overlap,           \* whether attempts may overlap
    Editable,          \* sections a client patches through the API while it runs
    MaxEdits,          \* bound: how many patches
    MaxHistory,        \* bound: revisions requested in one generation
    None

Stages == {Plan[i].stage : i \in DOMAIN Plan}
Position == [s \in Stages |-> CHOOSE i \in DOMAIN Plan : Plan[i].stage = s]
Policy == [s \in Stages |-> Plan[Position[s]]]
Reviewers == DOMAIN Targets
OutputSet(s) == {Policy[s].outputs[i] : i \in DOMAIN Policy[s].outputs}
HistorySection == "revision_history"
Sections ==
    (UNION {Policy[s].required \cup OutputSet(s) : s \in Stages})
      \cup {"brief", "verification", "quality", "design_quality", "quality_approval"}

\* One round of the loop in SupervisorPlan.downstream, and its fixed point.
Dependents(affected) ==
    affected \cup {s \in Stages : Policy[s].dependencies \cap affected # {}}
Rounds(s) ==
    LET f[n \in 0..Len(Plan)] == IF n = 0 THEN {s} ELSE Dependents(f[n - 1]) IN f
Downstream == [s \in Stages |-> Rounds(s)[Len(Plan)]]

ASSUME PlanAssumption ==
    /\ Len(Plan) \in Nat /\ DOMAIN Plan = 1 .. Len(Plan)
    /\ \A i, j \in DOMAIN Plan : Plan[i].stage = Plan[j].stage => i = j
    /\ \A s \in Stages : \A d \in Policy[s].dependencies :
         d \in Stages /\ Position[d] < Position[s]
    \* a stage writes at least one section, and none twice
    /\ \A s \in Stages :
         LET outputs == Policy[s].outputs IN
         /\ Len(outputs) \in Nat \ {0} /\ DOMAIN outputs = 1 .. Len(outputs)
         /\ \A i, j \in DOMAIN outputs : outputs[i] = outputs[j] => i = j
    \* a stage that reads another's section depends on it, and none reads the history
    /\ \A s, t \in Stages :
         (OutputSet(t) \ {HistorySection}) \cap Policy[s].required # {}
            => s \in Downstream[t] \ {t}
    /\ \A s \in Stages : HistorySection \notin Policy[s].required
    \* a section other than the history has one writer, and a request provides none
    /\ \A s, t \in Stages : s # t => OutputSet(s) \cap OutputSet(t) \subseteq {HistorySection}
    /\ \A s \in Stages : OutputSet(s) \cap Provided = {}
    \* a request sends back an earlier stage that everything from the reviewer
    \* on depends on, and never the immutable contract or another reviewer
    /\ \A r \in Reviewers : \A t \in Targets[r] :
         /\ t \in Stages \ ({"semantic_contract"} \cup Reviewers) /\ Position[t] < Position[r]
         /\ \A s \in Stages : Position[s] >= Position[r] => s \in Downstream[t]
    /\ \A r \in Reviewers : r \in Stages /\ Len(Policy[r].outputs) = 2
                            /\ Policy[r].outputs[2] = HistorySection
                            /\ Policy[r].outputs[1] \notin EmptySections

ASSUME BoundAssumption ==
    /\ MaxRevisions \in Nat /\ MaxStageAttempts \in Nat \ {0} /\ MaxDecisions \in Nat \ {0}
    /\ MaxEdits \in Nat /\ MaxHistory \in Nat /\ Overlap \in BOOLEAN
    /\ Editable \subseteq Sections \ {HistorySection}
    /\ None \notin Stages \cup Executors

VARIABLES
    progress,  \* the SUPERVISOR section
    section,   \* the other sections: what the control reads of each
    history,   \* the REVISION_HISTORY section
    latest,    \* executors that hold the latest version
    exec,      \* where every executor is
    edits,     \* patches made so far
    stale      \* stages whose stored outputs were computed from older inputs

vars == <<progress, section, history, latest, exec, edits, stale>>

----------------------------------------------------------------------------
Values == {"empty", "set", "unclear", "PASS", "REVISE", "BLOCKED", "REJECT"}
Revision == [target: Stages, by: Reviewers, status: {"pending", "completed"}]
Decision == [action: {"CONTINUE", "RETRY", "REVISE", "SKIP", "STOP"},
             stage: Stages \cup {None},
             reason: {"run", "gate", "immutable", "missing", "clarification",
                      "retry_limit", "no_progress", "unapproved", "complete"}]
NoDecision == [action |-> "STOP", stage |-> None, reason |-> "run"]
\* complete; NonRetryableJobError; any other exception; decision limit; killed.
Ended == {"complete", "fatal", "error", "exhausted", "crashed"}
Active == {"loading", "recording", "running", "writing", "closing", "completing"}

IdleExecutor == [pc |-> "idle", decisions |-> 0, decision |-> NoDecision, asked |-> 0,
                 value |-> "empty", target |-> None, next |-> 1]

Init ==
    /\ progress = [current |-> None, completed |-> {}, skipped |-> {}, invalidated |-> {},
                   attempts |-> [s \in Stages |-> 0]]
    /\ section = [x \in Sections \ {HistorySection} |->
                    IF x \in Provided THEN "set" ELSE "empty"]
    /\ history = <<>>
    /\ latest = {}
    /\ exec = [e \in Executors |-> IdleExecutor]
    /\ edits = 0
    /\ stale = {}

----------------------------------------------------------------------------
(* decide *)

Settled == progress.completed \cup progress.skipped

Present(x) == IF x = HistorySection THEN history # <<>> ELSE section[x] # "empty"
OutputsPresent(s) == \A x \in OutputSet(s) : Present(x)
InputsMissing(s) == \E x \in Policy[s].required : ~Present(x)

PendingTarget ==
    IF history # <<>> /\ history[Len(history)].status = "pending"
    THEN history[Len(history)].target ELSE None

Decide(action, stage) == [action |-> action, stage |-> stage, reason |-> "run"]
Stop(stage, reason) == [action |-> "STOP", stage |-> stage, reason |-> reason]

\* The three hard gates decide reads before anything else.
GateShut ==
    \/ section["verification"] = "BLOCKED"
    \/ section["quality"] \in {"BLOCKED", "REJECT"}
    \/ section["quality_approval"] = "REJECT"

RevisionDecision(target) ==
    IF target = "semantic_contract" THEN Stop(target, "immutable")
    ELSE IF InputsMissing(target) THEN Stop(target, "missing")
    ELSE Decide("REVISE", target)

NeedsClarification == "client_understanding" \in Settled /\ section["brief"] = "unclear"

\* Mutant: outputs that a revision invalidated still count as existing.
SkippableAnyway(s) == OutputsPresent(s)

Skippable(s) == s \notin progress.invalidated /\ OutputsPresent(s)

\* The stages the scan of the plan does not pass over.
Actionable ==
    {s \in Stages \ Settled : Skippable(s) \/ Policy[s].dependencies \subseteq Settled}

StageDecision(s) ==
    IF Skippable(s) THEN Decide("SKIP", s)
    ELSE IF InputsMissing(s) THEN Stop(s, "missing")
    ELSE IF progress.attempts[s] >= MaxStageAttempts THEN Stop(s, "retry_limit")
    ELSE Decide(IF progress.attempts[s] = 0 THEN "CONTINUE" ELSE "RETRY", s)

Approved ==
    /\ "verification" \in Stages => section["verification"] = "PASS"
    /\ section["quality"] = "PASS"
    /\ "design_review" \in Stages => section["design_quality"] = "PASS"
    /\ "quality_scoring" \in Stages => section["quality_approval"] = "PASS"

CompletionDecision ==
    IF Settled # Stages THEN Stop(None, "no_progress")
    ELSE IF ~Approved THEN Stop(None, "unapproved")
    ELSE Stop(None, "complete")

NextDecision ==
    IF GateShut THEN Stop(None, "gate")
    ELSE IF PendingTarget # None THEN RevisionDecision(PendingTarget)
    ELSE IF NeedsClarification THEN Stop("client_understanding", "clarification")
    ELSE IF Actionable # {}
    THEN StageDecision(CHOOSE s \in Actionable :
                         \A t \in Actionable : Position[s] <= Position[t])
    ELSE CompletionDecision

\* record_decision
Started(p, s) == [p EXCEPT !.current = s, !.attempts[s] = @ + 1]
\* Mutant: the affected stages are reopened but not remembered as invalidated.
Reopened(p, s) == [p EXCEPT !.completed = @ \ Downstream[s], !.skipped = @ \ Downstream[s]]
Invalidated(p, s) ==
    [p EXCEPT !.invalidated = Downstream[s],
              !.completed = @ \ Downstream[s],
              !.skipped = @ \ Downstream[s]]
Recorded(p, d) ==
    CASE d.action = "SKIP" -> [p EXCEPT !.skipped = @ \cup {d.stage}, !.current = None]
      [] d.action = "REVISE" -> Started(Invalidated(p, d.stage), d.stage)
      [] d.action \in {"CONTINUE", "RETRY"} -> Started(p, d.stage)
      [] OTHER -> p

\* mark_stage_completed, the progress part
StageCompleted(p, s) ==
    [p EXCEPT !.completed = @ \cup {s}, !.invalidated = @ \ {s}, !.current = None]

----------------------------------------------------------------------------
(* execute *)

Running == {e \in Executors : exec[e].pc \in Active}
StageOf(e) == exec[e].decision.stage

\* The queue starts another attempt while the job has not completed or failed.
Start(e) ==
    /\ exec[e].pc = "idle"
    /\ \A f \in Executors : exec[f].pc \notin {"complete", "fatal"}
    /\ Overlap \/ Running = {}
    /\ exec' = [exec EXCEPT ![e].pc = "loading"]
    /\ UNCHANGED <<progress, section, history, latest, edits, stale>>

\* Mutant: one decision too many.
LoadOnceMore(e) ==
    /\ exec[e].pc = "loading" /\ exec[e].decisions <= MaxDecisions
    /\ exec' = [exec EXCEPT ![e].pc = "recording", ![e].decisions = @ + 1,
                            ![e].decision = NextDecision]
    /\ latest' = latest \cup {e}
    /\ UNCHANGED <<progress, section, history, edits, stale>>

Load(e) ==
    /\ exec[e].pc = "loading" /\ exec[e].decisions < MaxDecisions
    /\ exec' = [exec EXCEPT ![e].pc = "recording", ![e].decisions = @ + 1,
                            ![e].decision = NextDecision]
    /\ latest' = latest \cup {e}
    /\ UNCHANGED <<progress, section, history, edits, stale>>

End(e, how) ==
    [exec EXCEPT ![e] = [IdleExecutor EXCEPT !.pc = how, !.decision = exec[e].decision]]

DecisionLimit(e) ==
    /\ exec[e].pc = "loading" /\ exec[e].decisions = MaxDecisions
    /\ exec' = End(e, "exhausted")
    /\ UNCHANGED <<progress, section, history, latest, edits, stale>>

\* A write that lost the race changes nothing; each caller says what follows.
Conflict(e) ==
    /\ e \notin latest
    /\ UNCHANGED <<progress, section, history, latest, edits, stale>>
\* Mutant: the UPDATE without the version in its WHERE clause.
WriteAnyway(e) == latest' = {e}
Write(e) == e \in latest /\ latest' = {e}

RequestsBy(s) == Cardinality({i \in DOMAIN history : history[i].by = s})

RecordDecision(e) ==
    LET d == exec[e].decision IN
    /\ exec[e].pc = "recording"
    /\ \/ Conflict(e) /\ exec' = [exec EXCEPT ![e].pc = "loading"]
       \/ /\ Write(e)
          /\ progress' = Recorded(progress, d)
          /\ exec' = CASE d.action = "SKIP" -> [exec EXCEPT ![e].pc = "loading"]
                       [] d.action = "STOP" ->
                            End(e, IF d.reason = "complete" THEN "complete" ELSE "fatal")
                       [] OTHER -> [exec EXCEPT ![e].pc = "running",
                                                ![e].asked = RequestsBy(d.stage)]
          /\ UNCHANGED <<section, history, edits, stale>>

\* What the first output section of a stage can say.
Results(s) ==
    IF s \in Reviewers THEN {"PASS", "REVISE"}
    ELSE IF s = "verification" THEN {"PASS", "BLOCKED"}
    ELSE IF s = "client_understanding" THEN {"set", "unclear"}
    ELSE {"set"}

OverBudget(e) == StageOf(e) \in Budgeted /\ exec[e].asked >= MaxRevisions

\* The stage handler returns.  A reviewer asks for a revision within its budget.
HandlerReturns(e) ==
    /\ exec[e].pc = "running"
    /\ \E value \in Results(StageOf(e)) :
       \E target \in (IF value = "REVISE" THEN Targets[StageOf(e)] ELSE {None}) :
         /\ value = "REVISE" => ~OverBudget(e) /\ Len(history) < MaxHistory
         /\ exec' = [exec EXCEPT ![e].pc = "writing", ![e].next = 1,
                                 ![e].value = value, ![e].target = target]
    /\ UNCHANGED <<progress, section, history, latest, edits, stale>>

\* The handler raises: a NonRetryableJobError, a reviewer out of budget among
\* them, or anything else.
HandlerRaises(e, how) ==
    /\ exec[e].pc = "running"
    /\ how \in {"error", "fatal"}
    /\ exec' = End(e, how)
    /\ UNCHANGED <<progress, section, history, latest, edits, stale>>

\* Mutants: only the first declared section is written; a second request is
\* taken for a duplicate of the first.
FirstOutputOnly(e, x) ==
    IF x = Policy[StageOf(e)].outputs[1] THEN exec[e].value ELSE "empty"
RequestedOnce(e) ==
    IF exec[e].value = "REVISE" /\ history = <<>>
    THEN <<[target |-> exec[e].target, by |-> StageOf(e), status |-> "pending"]>>
    ELSE history

\* What the stage's value makes of an output section, and of the history.
OutputValue(e, x) ==
    IF x \in EmptySections THEN "empty"
    ELSE IF x = Policy[StageOf(e)].outputs[1] THEN exec[e].value ELSE "set"
Requested(e) ==
    IF exec[e].value = "REVISE"
    THEN Append(history, [target |-> exec[e].target, by |-> StageOf(e), status |-> "pending"])
    ELSE history

Consumers(x) == {s \in Stages : x \in Policy[s].required /\ \E y \in OutputSet(s) : Present(y)}

\* A step of the loop in _persist_stage_outputs: one section, one transaction.
\* After the last one the executor knows whether the completed stage was the
\* target of the pending revision.
WriteOutput(e) ==
    LET s == StageOf(e)
        x == Policy[s].outputs[exec[e].next]
        last == exec[e].next = Len(Policy[s].outputs) IN
    /\ exec[e].pc = "writing"
    /\ \/ Conflict(e) /\ exec' = End(e, "error")
       \/ /\ Write(e)
          /\ IF x = HistorySection
             THEN history' = Requested(e) /\ UNCHANGED section
             ELSE section' = [section EXCEPT ![x] = OutputValue(e, x)] /\ UNCHANGED history
          /\ stale' = LET read == stale \cup Consumers(x) IN
                      IF last THEN read \ {s} ELSE read \cup {s}
          /\ exec' = IF ~last THEN [exec EXCEPT ![e].next = @ + 1]
                     ELSE [exec EXCEPT ![e].pc =
                             IF PendingTarget' = s THEN "closing" ELSE "completing"]
          /\ UNCHANGED <<progress, edits>>

\* Mutant: the revision stays pending after its target completed.
LeaveRevisionOpen(e) ==
    /\ exec[e].pc = "closing"
    /\ Write(e)
    /\ exec' = [exec EXCEPT ![e].pc = "completing"]
    /\ UNCHANGED <<progress, section, history, edits, stale>>

\* The pending revision is marked completed in a transaction of its own.
CloseRevision(e) ==
    /\ exec[e].pc = "closing"
    /\ \/ Conflict(e) /\ exec' = End(e, "error")
       \/ /\ Write(e)
          /\ history' = [history EXCEPT ![Len(history)].status = "completed"]
          /\ exec' = [exec EXCEPT ![e].pc = "completing"]
          /\ UNCHANGED <<progress, section, edits, stale>>

CompleteStage(e) ==
    /\ exec[e].pc = "completing"
    /\ exec' = [exec EXCEPT ![e].pc = "loading", ![e].value = "empty", ![e].target = None,
                            ![e].next = 1, ![e].asked = 0]
    /\ \/ Conflict(e)
       \/ /\ Write(e)
          /\ progress' = StageCompleted(progress, StageOf(e))
          /\ UNCHANGED <<section, history, edits, stale>>

\* The process dies, or wait_for cancels the attempt.
Crash(e) ==
    /\ exec[e].pc \in Active
    /\ exec' = End(e, "crashed")
    /\ UNCHANGED <<progress, section, history, latest, edits, stale>>

\* PATCH /posts/{id}/generations/{id}/state/{section} while the job runs.
Edit(x) ==
    /\ edits < MaxEdits
    /\ section' = [section EXCEPT ![x] = "set"]
    /\ edits' = edits + 1
    /\ latest' = {}
    /\ stale' = stale \cup Consumers(x)
    /\ UNCHANGED <<progress, history, exec>>

Step(e) ==
    \/ Load(e) \/ DecisionLimit(e) \/ RecordDecision(e)
    \/ HandlerReturns(e) \/ HandlerRaises(e, "error") \/ HandlerRaises(e, "fatal")
    \/ WriteOutput(e) \/ CloseRevision(e) \/ CompleteStage(e)

Next ==
    \/ \E e \in Executors : Start(e) \/ Step(e) \/ Crash(e)
    \/ \E x \in Editable : Edit(x)

Spec == Init /\ [][Next]_vars

----------------------------------------------------------------------------
(* Properties *)

TypeOK ==
    /\ progress \in [current: Stages \cup {None}, completed: SUBSET Stages,
                     skipped: SUBSET Stages, invalidated: SUBSET Stages,
                     attempts: [Stages -> Nat]]
    /\ section \in [Sections \ {HistorySection} -> Values]
    /\ history \in Seq(Revision)
    /\ latest \subseteq Executors
    /\ exec \in [Executors -> [pc: {"idle"} \cup Active \cup Ended,
                               decisions: 0..MaxDecisions, decision: Decision,
                               asked: Nat, value: Values,
                               target: Stages \cup {None}, next: Nat]]
    /\ edits \in 0..MaxEdits
    /\ stale \subseteq Stages

\* No stage that decide counts as completed or skipped holds outputs that were
\* computed from inputs rewritten since, or that are only partly rewritten,
\* wherever attempts crash, overlap or lose a write.  (A client's own patch of a
\* section reopens nothing.)
SettledAreFresh == edits = 0 => Settled \cap stale = {}

\* A revision a reviewer asked for is not lost: while its verdict stands and
\* the stage counts as done, the request is still pending.
RevisionsHonoured ==
    \A r \in Reviewers \cap Settled :
        section[Policy[r].outputs[1]] = "REVISE" => PendingTarget # None

\* A job completes only with every stage done, nothing pending and a PASS of
\* every reviewer, the ones decide does not look at included.
CertifiedCompletion ==
    (\E e \in Executors : exec[e].pc = "complete") =>
        /\ Settled = Stages /\ PendingTarget = None
        /\ \A r \in Reviewers : section[Policy[r].outputs[1]] = "PASS"
        /\ "verification" \in Stages => section["verification"] = "PASS"

\* Once an attempt has returned, an overlapping one cannot change the post.
PublishedIsStable ==
    [][(\E e \in Executors : exec[e].pc = "complete") /\ edits' = edits
         => section' = section /\ history' = history]_vars

\* A reviewer that counts its requests never exceeds its budget, although it
\* counts them in a snapshot and writes them two transactions later.
RevisionBudget == \A r \in Budgeted : RequestsBy(r) <= MaxRevisions

\* A request is never appended behind an open one, which nobody would then close.
OneOpenRevision ==
    \A i \in DOMAIN history : history[i].status = "pending" => i = Len(history)

\* The decision limit is a safety net: no attempt runs into it.
DecisionsSuffice == \A e \in Executors : exec[e].pc # "exhausted"

\* What there is to decide: every stage is skipped once and run a limited number of
\* times, and every request a reviewer can make is handled once.
Allowed(r) == IF r \in Budgeted THEN MaxRevisions ELSE MaxStageAttempts
Work ==
    {t \in {"skip", "run", "revise"} \X Stages \X (0 .. MaxStageAttempts + MaxRevisions) :
        \/ t[1] = "skip" /\ t[3] = 0
        \/ t[1] = "run" /\ t[3] \in 1 .. MaxStageAttempts
        \/ t[1] = "revise" /\ t[2] \in Reviewers /\ t[3] \in 1 .. Allowed(t[2])}

\* The limit exceeds the work and the patches; attempts follow one another.
WorkFits == ~ Overlap /\ Cardinality(Work) + MaxEdits < MaxDecisions

\* A generation whose conversation context was provided is never stopped for a
\* missing input: every later input is the output of an earlier stage.
InputsArrive ==
    \A e \in Executors : ~(exec[e].pc = "fatal" /\ exec[e].decision.reason = "missing")

\* However attempts crash, overlap or lose a write: what counts as done is fresh, no
\* request of a reviewer is lost, hidden behind another or asked beyond its budget, and
\* a job completes only on passed verdicts.
ProgressIsConsistent ==
    /\ TypeOK /\ SettledAreFresh
    /\ RevisionBudget /\ OneOpenRevision /\ RevisionsHonoured
    /\ CertifiedCompletion

\* A generation ends neither too early nor too late: no sequence of revisions uses up the
\* decisions of an attempt or leaves an input empty, and after all of them completion
\* still rests on passed verdicts.
NeverStopsEarly == DecisionsSuffice /\ InputsArrive /\ CertifiedCompletion
=============================================================================
