------------------------------ MODULE Campaign -------------------------------
(***************************************************************************)
(* One campaign under concurrent HTTP requests.  A request is one READ      *)
(* COMMITTED transaction: its reads see the last commit and its own writes, *)
(* an exception rolls all of it back, and the rows it selects FOR UPDATE    *)
(* stay locked until it ends.  Two rows matter: append_message locks the    *)
(* conversation, and the campaign repository's FOR UPDATE, which joins the  *)
(* conversation and names no table, locks the campaign and then the         *)
(* conversation.  The model call of a request runs inside its transaction.  *)
(***************************************************************************)
EXTENDS CampaignBrief, FiniteSets, FiniteSetsExt

CONSTANTS
    Requests,        \* requests in flight at once
    InitialBriefs,   \* briefs a campaign may be created with
    Extractions,     \* facts the model may extract from a message
    Candidates,      \* schema-valid plans the model may return
    MaxTurns         \* bound: a turn starts while fewer are committed

ASSUME CampaignConstants ==
    /\ InitialBriefs \subseteq Brief /\ Extractions \subseteq Brief
    /\ Candidates \subseteq Plan
    /\ None \notin Requests \cup Statuses
    /\ MaxTurns \in Nat

VARIABLES
    campaign,   \* committed campaigns row with its brief and plan, or None
    messages,   \* committed messages of the conversation
    lock,       \* the request that holds each row, or None
    req,        \* where every request is, what it read and what it wrote
    facts,      \* history: what the committed turns have told us
    basis       \* history: the brief the current plan was generated from

vars == <<campaign, messages, lock, req, facts, basis>>

Rows == {"campaign", "conversation"}
MaxPlanGenerationAttempts == 2

Message == [sequence: Nat, role: {"user", "assistant"}, turn: Requests]
Record == [status: Statuses, brief: Brief, plan: {None} \cup Plan]

\* None is an absent value, none of the present ones.
ASSUME NoneIsAbsent == None \notin Brief \cup Plan \cup Record

\* A message turn is at append, extract, check, merge, patch, reevaluate,
\* restatus or reply; a generation at requested, claim, claim_conversation or
\* candidate; both end at commit.
PCs == {"idle", "append", "extract", "check", "merge", "patch", "reevaluate", "restatus",
        "reply", "requested", "claim", "claim_conversation", "candidate", "commit"}

\* brief, extracted, changes and attempt are the handler's locals; status,
\* newBrief, plan and said are the writes its commit publishes.
Request ==
    [pc: PCs, brief: {None} \cup Brief, extracted: {None} \cup Brief, changes: {None} \cup Brief,
     attempt: 0 .. MaxPlanGenerationAttempts, status: {None} \cup Statuses,
     newBrief: {None} \cup Brief, plan: {None} \cup Plan, said: SUBSET Message]

Idle ==
    [pc |-> "idle", brief |-> None, extracted |-> None, changes |-> None, attempt |-> 0,
     status |-> None, newBrief |-> None, plan |-> None, said |-> {}]

Init ==
    /\ campaign = None /\ messages = {} /\ basis = None /\ facts = None
    /\ lock = [row \in Rows |-> None]
    /\ req = [r \in Requests |-> Idle]

----------------------------------------------------------------------------
\* What request r reads: its own write, else the last commit.
StatusSeen(r) == IF req[r].status # None THEN req[r].status ELSE campaign.status
BriefSeen(r) == IF req[r].newBrief # None THEN req[r].newBrief ELSE campaign.brief
PlanSeen(r) == IF req[r].plan # None THEN req[r].plan ELSE campaign.plan

At(r, pc) == req[r].pc = pc
Step(r, next) == req' = [req EXCEPT ![r] = next]
Free(row, r) == lock[row] \in {None, r}

\* Mutant: the session is never closed, and its last lock survives it.
KeepsConversation(r) == [lock EXCEPT !["campaign"] = IF @ = r THEN None ELSE @]

Released(r) == [row \in Rows |-> IF lock[row] = r THEN None ELSE lock[row]]

\* The row request r is about to lock.
Wants(r) ==
    CASE req[r].pc \in {"append", "claim_conversation"} -> {"conversation"}
      [] req[r].pc \in {"patch", "restatus", "claim"} -> {"campaign"}
      [] OTHER -> {}

WaitsFor(r, q) == q # r /\ \E row \in Wants(r) : lock[row] = q

\* Mutant: the transaction is committed although the handler raised.
CommitAnyway(r) ==
    /\ Step(r, Idle)
    /\ lock' = Released(r)
    /\ campaign' = [campaign EXCEPT !.status = StatusSeen(r)]
    /\ UNCHANGED <<messages, facts, basis>>

\* The end of a request whose handler raised, or whose connection was lost.
Rollback(r) ==
    /\ Step(r, Idle)
    /\ lock' = Released(r)
    /\ UNCHANGED <<campaign, messages, facts, basis>>

Commit(r) ==
    /\ At(r, "commit")
    /\ campaign' = [status |-> StatusSeen(r), brief |-> BriefSeen(r), plan |-> PlanSeen(r)]
    /\ messages' = messages \cup req[r].said
    /\ facts' = IF req[r].extracted = None THEN facts ELSE Merge(facts, req[r].extracted)
    /\ basis' = IF req[r].plan = None THEN basis ELSE req[r].brief
    /\ Step(r, Idle)
    /\ lock' = Released(r)

\* create_campaign's insert and readiness evaluation are invisible until they
\* commit; the unique conversation_id lets only one creation succeed.
CreateCampaign(brief) ==
    /\ campaign = None
    /\ campaign' = [status |-> StatusForReadiness(brief), brief |-> brief, plan |-> None]
    /\ facts' = brief
    /\ UNCHANGED <<messages, lock, req, basis>>

----------------------------------------------------------------------------
\* POST /messages.  The brief read here only feeds the prompt.
StartTurn(r) ==
    /\ At(r, "idle") /\ campaign # None
    /\ Cardinality(messages) < 2 * MaxTurns
    /\ Step(r, [req[r] EXCEPT !.pc = "append"])
    /\ UNCHANGED <<campaign, messages, lock, facts, basis>>

NextSequence(r) == 1 + Max({0} \cup {m.sequence : m \in messages \cup req[r].said})

\* Mutant: the conversation is read without FOR UPDATE.
AppendUnlocked(r, role, pc) ==
    /\ Step(r, [req[r] EXCEPT !.pc = pc,
                  !.said = @ \cup {[sequence |-> NextSequence(r), role |-> role, turn |-> r]}])
    /\ UNCHANGED <<campaign, messages, lock, facts, basis>>

\* append_message: the conversation stays locked for the rest of the turn.
AppendMessage(r, role, pc) ==
    /\ Free("conversation", r)
    /\ lock' = [lock EXCEPT !["conversation"] = r]
    /\ Step(r, [req[r] EXCEPT !.pc = pc,
                  !.said = @ \cup {[sequence |-> NextSequence(r), role |-> role, turn |-> r]}])
    /\ UNCHANGED <<campaign, messages, facts, basis>>

AppendUser(r) == At(r, "append") /\ AppendMessage(r, "user", "extract")
AppendAssistant(r) == At(r, "reply") /\ AppendMessage(r, "assistant", "commit")

Extract(r, extracted) ==
    /\ At(r, "extract")
    /\ Step(r, [req[r] EXCEPT !.pc = "check", !.extracted = extracted])
    /\ UNCHANGED <<campaign, messages, lock, facts, basis>>

\* update_brief_and_reevaluate: a change is refused while GENERATING is seen,
\* which no committed status is.
CheckNotGenerating(r) ==
    /\ At(r, "check")
    /\ IF /\ StatusSeen(r) = "GENERATING"
          /\ BriefChanges(BriefSeen(r), req[r].extracted) # NoChanges
       THEN Rollback(r)
       ELSE /\ Step(r, [req[r] EXCEPT !.pc = "merge"])
            /\ UNCHANGED <<campaign, messages, lock, facts, basis>>

\* update_brief_from_extraction, up to its write.
ComputeChanges(r) ==
    LET changes == BriefChanges(BriefSeen(r), req[r].extracted)
    IN  /\ At(r, "merge")
        /\ Step(r, [req[r] EXCEPT !.changes = changes, !.brief = BriefSeen(r),
                      !.pc = IF changes = NoChanges THEN "reevaluate" ELSE "patch"])
        /\ UNCHANGED <<campaign, messages, lock, facts, basis>>

\* Mutant: the fields the patch leaves unset are written as well.
OverwriteBrief(r) ==
    /\ At(r, "patch") /\ Free("campaign", r) /\ Free("conversation", r)
    /\ lock' = [row \in Rows |-> r]
    /\ Step(r, [req[r] EXCEPT !.pc = "reevaluate", !.newBrief = req[r].changes,
                  !.brief = req[r].changes])
    /\ UNCHANGED <<campaign, messages, facts, basis>>

\* Mutant: readiness is judged by the brief read before the update.
PatchOldReadiness(r) ==
    /\ At(r, "patch") /\ Free("campaign", r) /\ Free("conversation", r)
    /\ lock' = [row \in Rows |-> r]
    /\ Step(r, [req[r] EXCEPT !.pc = "reevaluate",
                  !.newBrief = Merge(BriefSeen(r), req[r].changes)])
    /\ UNCHANGED <<campaign, messages, facts, basis>>

\* update_brief: lock, then write the changed columns of the row as it is now.
PatchBrief(r) ==
    LET patched == Merge(BriefSeen(r), req[r].changes)
    IN  /\ At(r, "patch") /\ Free("campaign", r) /\ Free("conversation", r)
        /\ lock' = [row \in Rows |-> r]
        /\ Step(r, [req[r] EXCEPT !.pc = "reevaluate", !.newBrief = patched, !.brief = patched])
        /\ UNCHANGED <<campaign, messages, facts, basis>>

\* Mutant: PLAN_READY is kept although the brief changed.
ReevaluateReadinessOnly(r) ==
    LET settled == \/ StatusSeen(r) \in {"GENERATING", "PLAN_READY"}
                   \/ StatusSeen(r) = StatusForReadiness(req[r].brief)
    IN  /\ At(r, "reevaluate")
        /\ Step(r, [req[r] EXCEPT !.pc = IF settled THEN "reply" ELSE "restatus"])
        /\ UNCHANGED <<campaign, messages, lock, facts, basis>>

\* _reevaluate_readiness, up to its write.  The branch for GENERATING raises
\* when the brief changed and returns otherwise.
Reevaluate(r) ==
    LET changed == req[r].changes # NoChanges
        target == StatusForReadiness(req[r].brief)
        settled == \/ StatusSeen(r) \in {"GENERATING", "PLAN_READY"} /\ ~ changed
                   \/ StatusSeen(r) = target
    IN  /\ At(r, "reevaluate")
        /\ IF StatusSeen(r) = "GENERATING" /\ changed
           THEN Rollback(r)
           ELSE /\ Step(r, [req[r] EXCEPT !.pc = IF settled THEN "reply" ELSE "restatus"])
                /\ UNCHANGED <<campaign, messages, lock, facts, basis>>

WriteReadiness(r) ==
    /\ At(r, "restatus") /\ Free("campaign", r) /\ Free("conversation", r)
    /\ lock' = [row \in Rows |-> r]
    /\ Step(r, [req[r] EXCEPT !.pc = "reply", !.status = StatusForReadiness(req[r].brief)])
    /\ UNCHANGED <<campaign, messages, facts, basis>>

----------------------------------------------------------------------------
\* POST /generate.  generate_plan reads the brief before it locks anything,
RequestGeneration(r) ==
    /\ At(r, "idle") /\ campaign # None
    /\ Step(r, [req[r] EXCEPT !.pc = "requested", !.brief = campaign.brief])
    /\ UNCHANGED <<campaign, messages, lock, facts, basis>>

\* and transition tests the status it reads the same way; 409 unless READY.
CheckReady(r) ==
    /\ At(r, "requested")
    /\ IF Accepts(StatusSeen(r), "GENERATION_REQUESTED")
       THEN /\ Step(r, [req[r] EXCEPT !.pc = "claim"])
            /\ UNCHANGED <<campaign, messages, lock, facts, basis>>
       ELSE Rollback(r)

\* update_status: the join locks the campaign row, then the conversation row,
ClaimCampaign(r) ==
    /\ At(r, "claim") /\ Free("campaign", r)
    /\ lock' = [lock EXCEPT !["campaign"] = r]
    /\ Step(r, [req[r] EXCEPT !.pc = "claim_conversation"])
    /\ UNCHANGED <<campaign, messages, facts, basis>>

\* and the status is overwritten, whatever it is by now.
StartGenerating(r) ==
    /\ At(r, "claim_conversation") /\ Free("conversation", r)
    /\ lock' = [lock EXCEPT !["conversation"] = r]
    /\ Step(r, [req[r] EXCEPT !.pc = "candidate", !.attempt = 1,
                  !.status = Target("READY", "GENERATION_REQUESTED")])
    /\ UNCHANGED <<campaign, messages, facts, basis>>

\* Mutant: the repaired candidate is not validated again.
SaveRepaired(r, plan) ==
    /\ At(r, "candidate")
    /\ req[r].attempt = 1 => Issues(req[r].brief, plan) = {}
    /\ Step(r, [req[r] EXCEPT !.pc = "commit", !.plan = plan, !.status = "PLAN_READY"])
    /\ UNCHANGED <<campaign, messages, lock, facts, basis>>

\* A valid candidate is saved and the plan marked ready.
SavePlan(r, plan) ==
    /\ At(r, "candidate") /\ Issues(req[r].brief, plan) = {}
    /\ Accepts(StatusSeen(r), "PLAN_PERSISTED")
    /\ Step(r, [req[r] EXCEPT !.pc = "commit", !.plan = plan,
                  !.status = Target(StatusSeen(r), "PLAN_PERSISTED")])
    /\ UNCHANGED <<campaign, messages, lock, facts, basis>>

\* Mutant: the last attempt is compared with >.
RejectOneMore(r) ==
    /\ At(r, "candidate")
    /\ IF req[r].attempt > MaxPlanGenerationAttempts
       THEN Rollback(r)
       ELSE /\ Step(r, [req[r] EXCEPT !.attempt = @ + 1])
            /\ UNCHANGED <<campaign, messages, lock, facts, basis>>

\* Invalid structured output or a validation issue: one repair attempt, then
\* the request fails.
RejectCandidate(r) ==
    /\ At(r, "candidate")
    /\ IF req[r].attempt = MaxPlanGenerationAttempts
       THEN Rollback(r)
       ELSE /\ Step(r, [req[r] EXCEPT !.attempt = @ + 1])
            /\ UNCHANGED <<campaign, messages, lock, facts, basis>>

----------------------------------------------------------------------------
\* A provider or database error, or a lost connection, at any statement.  What
\* generate_plan's recovery writes is rolled back with the rest.
Fail(r) == ~ At(r, "idle") /\ Rollback(r)

\* PostgreSQL ends a cycle of waits by failing one of its transactions.
BreakDeadlock(r) ==
    /\ \E q \in Requests : WaitsFor(r, q) /\ WaitsFor(q, r)
    /\ Rollback(r)

Acquire(r) == AppendUser(r) \/ PatchBrief(r) \/ WriteReadiness(r) \/ ClaimCampaign(r) \/ StartGenerating(r)

Proceed(r) ==
    \/ \E e \in Extractions : Extract(r, e)
    \/ CheckNotGenerating(r) \/ ComputeChanges(r) \/ Reevaluate(r) \/ AppendAssistant(r)
    \/ CheckReady(r)
    \/ \E p \in Candidates : SavePlan(r, p)
    \/ RejectCandidate(r)
    \/ Commit(r)

Next ==
    \/ \E brief \in InitialBriefs : CreateCampaign(brief)
    \/ \E r \in Requests :
         \/ StartTurn(r) \/ RequestGeneration(r)
         \/ Acquire(r) \/ Proceed(r) \/ Fail(r) \/ BreakDeadlock(r)

Spec == Init /\ [][Next]_vars

\* A model call ends (the provider client has a timeout), PostgreSQL grants a
\* row lock in the order it was asked for, and detects deadlocks.
Fairness ==
    \A r \in Requests : /\ WF_vars(Proceed(r)) /\ SF_vars(Acquire(r))
                        /\ WF_vars(BreakDeadlock(r))

FairSpec == Spec /\ Fairness

----------------------------------------------------------------------------
TypeOK ==
    /\ campaign \in {None} \cup Record
    /\ messages \subseteq Message
    /\ lock \in [Rows -> Requests \cup {None}]
    /\ req \in [Requests -> Request]
    /\ facts \in {None} \cup Brief
    /\ basis \in {None} \cup Brief

\* A campaign is never left in GENERATING: the status a generation writes
\* before its model calls is visible to nobody until it commits as PLAN_READY,
\* and any failure takes it back.
NeverStuckGenerating == campaign # None => campaign.status # "GENERATING"

\* Whatever turns and generations overlap, the committed status says whether
\* the committed brief is sufficient: BRIEFING exactly when it is not.
ReadinessAgrees ==
    campaign # None => (campaign.status = "BRIEFING" <=> ~ Ready(campaign.brief))

\* No turn loses a fact another turn stored: the brief is the initial brief
\* with the facts of the committed turns laid over it in commit order.
NoFactLost == campaign # None => campaign.brief = facts

\* Messages are numbered 1, 2, ... without gaps, and the two messages of a
\* turn are neighbours, whatever turns overlap.
TurnsContiguous ==
    /\ {m.sequence : m \in messages} = 1 .. Cardinality(messages)
    /\ \A m \in messages :
         IF m.sequence % 2 = 1
         THEN /\ m.role = "user"
              /\ [sequence |-> m.sequence + 1, role |-> "assistant", turn |-> m.turn] \in messages
         ELSE m.role = "assistant"

\* An invalid plan is never saved: the stored plan has no issue against the
\* brief it was generated from, and PLAN_READY has a stored plan.
SavedPlanWasValid ==
    campaign # None =>
        /\ campaign.plan # None => basis # None /\ Issues(basis, campaign.plan) = {}
        /\ campaign.status = "PLAN_READY" => campaign.plan # None

\* Any change of the brief after plan generation returns the campaign to READY
\* in the same commit, so that the old plan is outdated.
BriefChangeOutdatesPlan ==
    [][campaign # None /\ campaign'.brief # campaign.brief => campaign'.status # "PLAN_READY"]_vars

\* Every request is answered: the opposite lock orders of a turn and a
\* generation cannot leave both waiting.
EveryRequestEnds == \A r \in Requests : ~ At(r, "idle") ~> At(r, "idle")

\* Whatever requests overlap or fail, the committed status tells the truth about the
\* committed brief and plan.
StatusTellsTruth == TypeOK /\ NeverStuckGenerating /\ ReadinessAgrees /\ SavedPlanWasValid

\* Concurrent turns lose neither a fact nor a message.
TurnsAreKept == NoFactLost /\ TurnsContiguous
=============================================================================
