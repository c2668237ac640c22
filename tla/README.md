# Verification of the Promotiva backend

TLA+ models, model-checking runs and machine-checked proofs for the Posts and
Campaigns backend in `src/backend/app`. Paths below are relative to that
directory; `P/` stands for `modules/posts/`.

## 1. The system

A client talks to a chat assistant, which starts a *generation*: a durable job
that produces a marketing post in 21 stages. The stages are run by worker
processes from PostgreSQL; the only state they share is the database.

| Part | State | Operations | Interaction |
|---|---|---|---|
| Generation queue (`infrastructure/database/repositories/generation_jobs.py`, `workers/generation_worker.py`) | one row per job: status, attempts, lease, owner; the status of its generation | enqueue, claim (with a sweep of exhausted leases), complete, fail | workers compete through row locks and `SKIP LOCKED`; a crash leaves a lease |
| Supervisor (`P/domain/supervisor.py`, `P/orchestration/supervisor.py`) | the `supervisor` section: completed, skipped and invalidated stages, attempts | decide, record, run a stage, write its outputs, close a revision, mark complete | runs inside a job's attempt, writes through the store |
| Workflow store (`P/services/posts.py`, `infrastructure/database/repositories/posts.py`, `.../supervisor.py`) | a versioned document of named sections and a snapshot of every version | patch a section, create the semantic contract, checkpoint a section | compare-and-swap on the version; API clients and executors |
| Reviewers and revision director (`P/orchestration/*_critic.py`, `reference_validator.py`, `scene_purity.py`, `quality_scoring.py`, `P/tools/revision/`) | the `revision_history` section | judge a result, ask for a revision within a budget | a pending revision makes the supervisor reopen a stage and everything downstream |
| Agent runtime and tools (`P/agents/framework.py`, `P/tools/registry.py`) | one run: its attempts, tool invocations, model calls and traces | run, invoke a tool, call a model, retry, time out | runs every agent; tools and providers may hang |
| Specialist agents (`P/agents`) | the answers kept between two calls of one run | ask the model, validate, ask for a correction, repair, fall back | handlers of the supervisor's stages; each reads what earlier ones published |
| Production (`P/orchestration/production.py`, `composition.py`, `P/tools/design`, `generation`, `scene_purity`, `composition`) | plan, plate, inspection and draft as sections, images in storage | plan, generate, inspect, lay out, compose | deterministic but for the image and vision providers |
| Policies (`P/tools/verification`, `quality`, `revision`) | none | judge a render, score it, turn findings into an instruction | what they decide reopens stages or ends the post |
| External research (`P/tools/research`, `infrastructure/cache/research.py`) | reports cached by key | search, select, analyse, store | stages of several posts share the cache; one gate per stage |
| Posts chat (`P/services/chat.py`, `P/chat`, `P/domain/chat.py`) | a conversation's messages and its accumulated context, overwritten as a whole | a turn (append, classify, accumulate, route, start work, answer, save), a generation command, a plain message | each request is one transaction; creates posts and generations and seeds their `conversation_context` |
| Campaigns (`modules/campaigns`, `.../repositories/campaigns.py`, `.../conversations.py`) | one row per campaign (lifecycle status), its brief, its plan, the messages of its conversation | create, a message turn (append, extract, update the brief, reevaluate, reply), generate a plan | each request is one transaction; turns and generations meet at the row locks of campaign and conversation |
| Semantic memory, assets, providers, tracing | vectors, objects, traces | remember and recall, upload, generate | called from stages and routes |
| Web workspace (`frontend/app/composables/useChatWorkspace.ts`) | the selected conversation and its generation | send, poll | HTTP |

What is hard here: workers that crash or stall past their lease while another
one takes over; a stage whose outputs are several transactions; revisions that
arrive while earlier ones are only partly redone; API clients who write the same
document as a running job; deciding from what is stored whether a result is
still valid; timeouts inside one another around calls that may hang; chains of
corrections and repairs of a model's answer, each of which may undo the one before; and
layouts that are valid in pixels and not on the grid. `PROJECT.json` lists these hazards with their lines.

What makes each part correct:

* queue - a job is executed by one worker at a time, its attempts are counted
  exactly, a terminal status is final, and every job ends;
* supervisor - nothing computed from outdated inputs counts as done, no revision
  is forgotten, budgets and limits hold, and a job completes only when every
  reviewer has passed the result;
* store - no update is lost, every version is kept, the contract is written once,
  and answers are true;
* director - every finding is addressed by the stages that are reopened, and what
  is kept is not rebuilt;
* campaigns - no fact or message of a turn is lost, the status tells the truth
  about the brief, only a valid plan is saved, and every request is answered;
* chat - work is queued once per request, a turn is kept whole, the workflow is told
  only what the client said, and no fact or generation is forgotten;
* runtime - no tool runs that the agent may not use, a timeout leaves nothing running,
  traces tell what happened, and a run ends within its bound;
* research - what is served is current, losses are declared, quotes are verbatim, and a
  stage ends in time;
* specialists - what one publishes the next accepts, a repair passes the validator it
  was made for and is disclosed, and nothing is stated that nobody said;
* production - a draft shows the plate that was inspected, the assets that are required
  and the texts that were approved, each where it has room;
* policies - a render is blocked for what was seen in it, approved for the bytes that
  were reviewed, and a revision reaches every stage that must act on it.

## 2. Modules

### GenerationQueue

One row per job (`job`), the status of its generation (`gen`), row locks (`lock`)
and the worker processes (`worker`). The instants the code stores are kept as the
ticks left until them, so that the state is finite without a clock.

`claim_next` is three steps because only some of its statements lock:
`ReadExhausted` (the SELECT of `_dead_letter_exhausted_leases`, without a lock),
`LockRows` (its flush, which waits for the rows, and the claiming
`SELECT ... FOR UPDATE SKIP LOCKED`) and `CommitClaim`. `complete` and `fail` lock
the row before they test it and are one step each. `StartExecution` is the
executor's unconditional write of the generation's status. `Tick` is time: it
waits for open claim transactions, and a live worker records its outcome at most
`Overrun` ticks after its timeout. Which claimable row comes first is left open.

`Crash` stands for a killed process and for a cancelled one; at least one worker
stays up.

### SupervisorPlan, PostSupervisor

`SupervisorPlan` is the data: `DEFAULT_SUPERVISOR_PLAN` stage by stage, the
director's routing table, and the routes each reviewer can produce.
`PostSupervisor` is the control. `NextDecision` is `decide` with its order of tests;
`Recorded` and `StageCompleted` are `record_decision` and `mark_stage_completed`;
`Load`, `RecordDecision`, `HandlerReturns`, `HandlerRaises`, `WriteOutput`,
`CloseRevision`, `CompleteStage` are the executor's loop with one action for
each transaction. `Edit` is a patch of a section through the API.

A section is abstracted to what the control reads: empty, present, or a verdict
(a scene to be regenerated and the three non-terminal scoring decisions count as
`REVISE`). A version is abstracted to whether its holder's copy is the latest one. `stale` is
a history variable: the stages whose stored outputs were computed from inputs
that have been rewritten since, or are only partly written.

`PlanAssumption` lists what the argument needs of a plan. TLC evaluates it on the
real plan: a stage that reads a section depends on its writer, a section has one
writer, and the stages a reviewer can send back are earlier ones that have the reviewer
and everything after it downstream. The proofs rest on it and not on the plan itself.

### WorkflowStore, VersionedDocument

`WorkflowStore` has the committed row, its snapshots, the row lock and the
transactions of concurrent clients. `Select`, `Update` and `Commit` are the
statements of `update_workflow_state` and the end of the transaction that calls
it; `BeginPatch`, `BeginCreate` and `BeginCheckpoint` are its three callers, with
their own tests, and `Reread` is the second look of `create_semantic_contract`
after a lost race. The two reads of that function before its write are one step:
what changes between them is caught by the UPDATE in the same way. `Rollback` is
any failure before the commit.

`VersionedDocument` is the abstract specification: a growing sequence of
documents, each differing from the one before in one section, with a contract
that is written once. `WorkflowStore` implements it under `versions <- Documents`.

### CampaignBrief, Campaign

`CampaignBrief` holds the pure rules: which fields are missing, what an extraction
changes, the transition table, and the three checks of the plan validator. Texts are
opaque; the validator's normal form and substring test are the constants
`Normalized` and `Within`.

`Campaign` is one campaign under concurrent requests. `campaign` and `messages` are
what is committed, `req` holds each request's place, its locals and the writes its
commit will publish, `lock` the rows it holds. A message turn is `StartTurn`,
`AppendUser`, `Extract`, `CheckNotGenerating`, `ComputeChanges`, `PatchBrief`,
`Reevaluate`, `WriteReadiness`, `AppendAssistant`, `Commit`; a generation is
`RequestGeneration`, `CheckReady`, `ClaimCampaign`, `StartGenerating`, `SavePlan` or
`RejectCandidate`, `Commit`. A step ends where the code reads again or waits for a lock,
so what a request read earlier may be outdated when it is used. `Fail` is an exception
at any statement. `facts` and `basis` are history variables: what the committed turns
said, and the brief the stored plan was made from.

A turn holds the conversation when it asks for the campaign. The campaign repository's
`FOR UPDATE` over a join locks the campaign first and the conversation second. The two
orders can wait for each other; `BreakDeadlock` is PostgreSQL's detector, external to
the repository. `GENERATING` is written and overwritten in the same transaction, so the
guards of a turn against it are kept in the model and never reached.

### ChatRouting, PostChat

`ChatRouting` holds the rules that need no database: `Ground` (a named entity survives
only if the client wrote it), the accumulation `Understood` (`Merge`, `Recovered`,
`VerifyLanguage`, `CountRequest`), the clarification classes, and `Route` with
`InfersGoal`, which together give a turn its one action. A message is abstracted to
what the closed vocabularies find in it: whether it asks, orders or changes, the goal
and the call to action it states, its words and its Albanian markers. `audience`
stands for the fields no rule distinguishes; the lists a context also keeps (styles,
constraints, requests, assets) are left out.

`PostChat` is one conversation under concurrent requests. A turn is `StartTurn` and
`AppendUser`, or `StartStoredTurn` for a message stored before, then `Understand`,
`FindPost`, `CreatePost`, `RequestGeneration` when it starts work, `AppendAssistant`,
`SaveContext` or `InsertContext`, `Commit`. A command is `StartCommand` and the same
steps without the messages. `StoreMessage` is the plain endpoint. A step ends where the
code reads again or waits for a lock, so a page of history, a context or a post that
was looked up may be outdated when it is used. Locks are those of PostgreSQL: `FOR
UPDATE` on the conversation, a post or the context row, and the `KEY SHARE` of the
conversation that an insert takes for its foreign key. What a request wrote is
published by its commit; `Fail` is an exception at any statement, `BreakDeadlock` the
database's detector. `told` and `overlapped` are history variables: what turns that follow one
another have stated, and whether two requests were ever open together. The creation time
of a post is the start of its transaction, so `Published` may insert it before posts
that were committed earlier.

`FactsKept` and `WorkRemembered` are about requests that follow one another; overlapping
ones can lose a fact (observation 4) or create a second post. They also need a conversation
that fits the page: beyond 100 messages a turn sees only the oldest ones, and a language it had
recognised in later ones is withdrawn again (TLC finds this with a page of 4). A context keeps its last
100 generations; the model never cuts the list, so what it says of remembered work is said of
conversations with no more than that. The other properties hold for every interleaving and any page.
`BriefsAreStated` speaks of the goal, the names and the language: a language the classifier claims
survives only if it is English or the client's own words are recognised as Albanian (`LanguageTyped`).
`Promotion` stands for a goal nobody stated, so no classification has it (`ChatConstants`);
`HistoriesAssumption` says of a conversation to begin with what the properties say of every later one.

### AgentRuntime

One run of an agent as the event loop interleaves it. `Run` checks the input, `Gather` starts
the tools of an attempt, `InvokeTool`, `ToolReturns`, `ToolErrs` and `ToolTimesOut` are one
tool (authorised, validated, retried, timed out on its own), `CallModel`, `ModelAnswers`,
`ModelFails` and `ModelTimesOut` a model call, `Returns` the end of the handler, and `AgentTimesOut` the timeout over
all of an attempt. `traces` is what the recorder holds.
`asyncio.gather` raises the first failure and leaves the other tools running, so tools of
an abandoned attempt live on beside the next one; a timeout cancels what the attempt
awaits. Time advances only while nobody has a deadline to keep.

### ResearchEvidence, Research

`ResearchEvidence` has the pure parts: the score of a source, the selection and merging of
sources, excerpts, the windows an analysis is shown, the search for a quote in them, and the
confidence of an observation. Texts are short sequences of words and the limits, all
constants, are scaled to them. `Research` is stages that share a cache: `StartStage`, `LookUp`,
`EnterGate`, `SearchAnswers`, `SearchFails`, `SearchTimesOut`, `Collect`, `Analyse`, `Store`,
`TaskTimesOut`, `EndStage`. A cached report expires by the stage's clock when it is
read and by the cache's own when it is kept, which need not agree. An analysis is refused
as a whole by the schema of the answer (`Unreadable`: one quote too short, wherever it is from) or
by that of the report (`Malformed`).

### Understanding, BrandAudience, Strategy, CreativeDirector, CopyArt

The rules of the specialists, without state, one module for agents that share their data.
A text is what the validators tell apart: the terms, claims, faults and lengths in it, never
its letters.

* `Understanding` - a brief from the model's extraction, the chat's verified context and the
  closed vocabularies; what is not grounded in a client's message is dropped.
* `BrandAudience` - facts, chains and selling points of brand_product, the stabilised fallback, and
  what audience_intelligence requires of them.
* `Strategy` - twelve decisions with the evidence each rests on: normalisation, the
  canonical basis, the validator, and the parts replaced after a second refusal.
* `CreativeDirector` - three to five territories, hooks and ideas with scorecards: quality bar,
  patches, the deterministic repair of texts and relations with its notes, and the
  choice of the winner. A violation stands for the messages about one item and rule, which the
  agent counts one by one: beyond twenty it asks for a new exploration, and the model does so at
  a count of its own. Both branches are taken.
* `CopyArt` - copy and its safe normalisation and shrinking, asset policies, art direction,
  the design spec, and the layout compiled when the spec is refused. An answer with prose around
  its object is refused like any other, and its fields are salvaged all the same.

### Originality, Verification, Review

`Originality` is the reference validator with the gates no model's score opens (a copied
reference, a generic pattern, a repetition of an approved post). `Verification` is the
twelve hard gates over what a witness reports, the layout certifies and the contract requires.
`Review` has the three critics, the revision director (owner, target, scope, what is
kept, iteration and limits) and the scoring of four reports about one render. It uses the
routing table of `SupervisorPlan`.

### Layout, Production

`Selection` is the list comprehension and the sum that they, `Review`, `CopyArt`, `CreativeDirector` and
`Originality` share, as recursive functions that can be proved about.
`Layout` is the integer arithmetic of the layout and typography engines: clamping, snapping
to columns and rows, spacing, wrapping, shrinking, and the division of the product's region. Letters
have one width. `Production` plans what has to be generated, composes the prompt's
obstacles, judges a plate by its inspection, and composes the draft with the gates it must pass.
Of fonts it has only the faults (`FontFaults`): one that is missing, or wider than estimated.

### Specialists

The control of all of them, one execution at a time: `agent`, its `input`, how many `calls` it
has made, what it `kept` between them, its `output` and `status`. One action is one answer of the
model and everything the agent does with it (`Understand`, `AnalyzeBrand`, `AnalyzeAudience`,
`Strategize`, `Direct`, `CorrectDirection`, `Write`, `Shrink`, `ClassifyAssets`, `ArtDirect`, `CompileSpec`,
`ValidateReferences`, `PlanGeneration`, `GenerateScene`, `InspectScene`, `Compose`, `Verify`, `ReviewMarketing`,
`ReviewDesign`, `ReviewVision`, `ScoreQuality`); `ProviderFails` is any failed call. The `HandTo...`
actions give what was published to the next stage, so a chain runs on what the stage
before really returned: brand to audience to strategist; copywriter to assets to art director to
spec; plan to plate to inspection to composition, or back to a new plate; verification to the critics to the scoring.
Between two reviews the stored bytes may have been replaced (`Drifted`).

## 3. Runs

| Run | States | Bounds | Shows |
|---|---|---|---|
| `queue_prompt` | 4 399 | 2 jobs, 2 workers, 2 attempts, timeout 2, lease 4, overrun 1 | workers that finish before their lease ends: exclusive execution, agreeing statuses, terminal statuses that stay |
| `queue_stalled` | 73 412 | lease 3, overrun 3, with fairness | workers that stall past their lease: attempts accounted, stale outcomes without effect, every submitted job ends |
| `supervisor_crash` | 4 067 950 | the real plan, 2 attempts in sequence, at most 2 revisions | nothing stale counts as done and no revision is lost, wherever the first attempt ends |
| `supervisor_revisions` | 376 804 | the real plan, 1 attempt, every revision the budgets allow | certified completion, decision limit not met, no missing input |
| `supervisor_overlap` | 4 962 315 | a plan of 4 stages and 2 reviewers, 2 overlapping attempts of 6 decisions, one patch by a client | versions protect progress, budgets, the history, revisions and the published result |
| `store` | 81 598 | 2 clients, 2 sections, 2 values, 3 versions | no lost update, true answers, one contract, refinement |
| `campaign` | 60 506 | 2 requests at once, turns start while fewer than 2 are committed, 3 initial briefs, 4 extractions, 3 candidate plans, with fairness | no fact or message lost, status and brief agree, only valid plans saved, a changed brief outdates the plan, every request ends in spite of the opposite lock orders |
| `chat` | 1 866 733 | 2 requests at once (interchangeable), 3 messages (a question, whose classification may claim a language nobody wrote, an order, a change), 2 conversations of 4 messages to begin with, a message is written while fewer than 5 are committed, the code's page of 100 | work queued once, whole turns, honest briefs, references that exist; without overlap no fact and no generation forgotten |
| `specialists` | 18 162 | for each agent a few inputs, and a sound answer with one for each fault its validators know, in every order of call and correction | the properties below |
| `runtime` | 247 538 | 2 attempts, tools that are allowed, denied or unknown in 4 plans, 2 tries of a tool, 1 model call, timeouts 3, 2 and 2, with fairness | truthful traces, contained tools and time, every run ends |
| `research` | 144 734 | 2 stages, a gate of 1, timeouts 1, 2 and 3, time to live 2, six scenarios: stages that meet in the cache, stages that must not, partial failure, every citation, a citation too short for the schema, images only; with fairness | current answers, declared losses, verbatim evidence, stages that end in time |
| `fallback_layout` | | as `specialists` | **violated**: see Findings |

A property with several parts is a conjunction of named definitions, each with its own
comment in the module:

| Property | Parts |
|---|---|
| `ProgressIsConsistent` | `TypeOK`, `SettledAreFresh`, `RevisionBudget`, `OneOpenRevision`, `RevisionsHonoured`, `CertifiedCompletion` |
| `NeverStopsEarly` | `DecisionsSuffice`, `InputsArrive`, `CertifiedCompletion` |
| `StatusTellsTruth` | `TypeOK`, `NeverStuckGenerating`, `ReadinessAgrees`, `SavedPlanWasValid` |
| `TurnsAreKept` | `NoFactLost`, `TurnsContiguous` |
| `ConversationIsWhole` | `TypeOK`, `TurnsWhole`, `RefsExist` |
| `NothingForgotten` | `FactsKept`, `WorkRemembered` |
| `ToldAsItWas` | `TracesAreTruthful`, `SuccessIsWhole` |
| `RunIsContained` | `TypeOK`, `DeniedNeverRuns`, `TimeoutLeavesNothing`, `RunIsBounded` |
| `CacheIsSound` | `ServedIsCurrent`, `CacheHoldsEvidence` |
| `StageIsContained` | `TypeOK`, `GateHolds`, `StageInTime` |
| `StageIsHonest` | `OutcomeIsHonest`, `LossesAreDeclared` |
| `EvidenceStands` | `QualityInRange`, `QuotesAreVerbatim`, `HighIsEarned`, `HonestQuotesSurvive` |
| `BriefIsSound` | `BriefIsTheClients`, `ContextSuffices` |
| `StrategyIsSound` | `UpstreamIsAccepted`, `BasisNeedsNoCorrection`, `StrategyStands` |
| `CreativeIsSound` | `DirectionIsSound`, `WinnerByJudgement`, `RepairIsDisclosed`, `CorrectedIsSayable`, `OriginalityGuarded` |
| `ProductionGoesOn` | `TypeOK`, `CopyIsRepaired`, `ShrinkingEnds`, `SpecAlwaysCompiles` |
| `CompositionIsSound` | `PlateIsCertified`, `SceneStands`, `DraftPassesGates`, `TextsHaveRoom`, `ProductsApart` |
| `GatesAreExact` | `RequiredAssetsHold`, `ExportIsExact`, `CertifiedKeepsAssets`, `SilenceNeverAccuses` |
| `FindingsAreActedOn` | `ScoredIsApprovedOrReworded`, `RevisionReachesOwners` |

The bounds let the interesting cases happen: two workers and two attempts give a
reclaim, a sweep and a stale outcome on one row; two sequential attempts give
every crash point and a recovery from it; two overlapping attempts give every
lost write. The real plan has 21 stages, so the overlap is checked on a small plan
with the same shape (a reviewer that counts its requests, one that does not, and a
common target). Three versions let two writers collide and a third write follow.
Two campaign requests let two turns, two generations, or one of each overlap, and
requests follow each other without limit; the briefs, facts and plans include one that is incomplete, one a turn
completes, a correction of a confirmed fact, and plans that fail each check.
Two chat requests let a turn, a turn about a stored message and a command meet in any
pair; commands are not bounded, so a conversation sees any number of generations that
its messages can key. One initial conversation has no context yet, the other has asked
twice and is about to proceed on an inferred goal.
Every fault a specialist's validator knows is in some answer, alone and after a
correction; the layouts include two texts whose regions meet on the grid, a text that fits
only after shrinking, two products that share a region, and plates that were regenerated,
replaced or never inspected. Timeouts of the runtime and the research run
keep the order the code's have.
Deadlock is not checked where the system really stops: a supervisor's job, an agent's run, a
research stage and a chain of specialists end.

*Fairness* of `queue_stalled`: a live worker keeps polling (`run_forever`),
`wait_for` bounds each execution so an attempt always has an outcome, and clocks
run. Nothing obliges a job to be submitted or a process to crash, and there is no
fairness of a single job: `EveryJobEnds` follows because every claim spends an
attempt of a finite stock.
*Fairness* of `campaign`: a handler that can go on does (weak), because the
provider client has a timeout; a lock that is asked for is granted (strong), because
PostgreSQL serves the waiters of a row in order; and a cycle of waits is broken (weak).
Without `BreakDeadlock` the property fails. Nothing obliges a request to arrive.
*Fairness* of `runtime` and `research`: what the event loop can run by itself it runs, deadlines
included (weak, `Loop`), and clocks run (weak, `Tick`). No tool, provider, cache or model is
assumed ever to answer.

### Findings

*The fallback layout is not safe to compose.* `_deterministic_spec` calls itself
"composer-safe". With an offer its regions, once snapped to the rows of the grid, leave no
space between the offer and the call to action, which the spacing engine refuses. A post
with an offer whose spec fell back never gets a draft (`ComposerSafe`, run `fallback_layout`).

### Observations

Behaviours met while modelling that no property of a run claims away; the properties say
where they stop.

1. *A completed job can become dead.* The sweep reads expired rows without a lock
   and flushes `DEAD` by primary key. A worker that outlived its last lease may
   complete the row in between. It needs a worker that stalls longer than the
   margin between timeout and lease: with the constants of `queue_stalled`,
   `TerminalIsFinal` is violated; `queue_prompt` and the theorem
   `TerminalStays` show that nothing else can cause it.
2. *A post without attachments stops at art direction.* Its asset stage returns an
   empty array, which the supervisor takes for a missing input
   (`InputsArrive` fails with `EmptySections = {"assets"}`).
3. *A plan can be ready that contradicts the brief.* `generate_plan` reads the brief
   before it locks the campaign. A turn that commits in between changes the budget; the
   plan is validated against the old brief and marked `PLAN_READY` with the new one.
4. *A command can make the chat forget.* `start_generation` reads the context without a
   lock and saves the whole of it after it has waited for the post. A turn that commits
   in between loses its facts, which the context promises to keep.
5. *Layouts that are accepted and never composed.* The spec's validator admits, and the composer
   refuses, a spec without the colours of the call to action, graphics in a colour role it does not
   define, a canvas above 4096 pixels at scale 2, regions that snap to no width at the edge, and
   stacked regions less than a whole row apart. In the fallback a supporting text of more than
   about 175 characters or a call to action of more than 37 overflows. A subheadline without
   a style is not drawn and no gate notices.
6. *Assets that can never be satisfied.* A required asset whose role is neither product nor the first
   logo fails the composer's policy always. An identity term that is a word of the prompt's own
   scaffold ("light", "space") makes production fail always. A brand of fewer than
   three letters never passes the brand gate without a logo, and a capitalised word of the
   post's own copy is not recognised by it (`tools/verification/policy.py:355-357` does not
   fold the case).
7. *Limits that disagree.* The vision readout allows 40 issues and an instruction 30 findings; expected and
   observed together may exceed the 1000 characters of a finding's reason; 13 generic patterns may meet
   a report of 10; an offer of 161 to 500 characters passes the contract and no copy can
   carry it; the fallback copies up to 800 characters of colour direction into a
   background of 600. Each ends the stage with an error outside the correction.
8. *Loops and corrections.* The copywriter's shrink loop never ends for a long offer beside a 30-letter
   word. The strategist's recovery may fail although only the message was flawed. The repair of identical
   scorecards raises scores; three templates serve any number of weaknesses.
   brand_product publishes analyses the strategist's tools refuse (neither chains nor selling points).
9. *Decisions that stop instead of revising.* The copywriter does not enforce required facts, so
   valid copy can be `BLOCKED`, which ends the workflow. A design finding about art direction
   is routed to the spec. The overall threshold of 9.0 never binds after the critics passed; the scoring's own
   revisions have no budget but the 20 iterations.
10. *Research.* One blank observation, short quote or imitation refuses a whole category although
    `analysis.py:521-527` says a bad citation costs only itself. A degraded report is cached for
    the whole time to live. A spent quota that one search met is lost when its task times
    out. Two briefs that differ only in platform share a trend report. The stage's budget
    never binds, since each task's is smaller.
11. *Runtime.* Tools of an abandoned attempt may be traced after the agent's own trace. Up to four
    calls of 120 s stand in an agent's 300 s, which `agent_tools.py:55-58` means to rule out.
12. *Workflow.* A target that crashed while it was being revised is started again beyond `max_attempts`;
    the second of two generations of a campaign replaces the plan the first made ready;
    a command that overlaps a turn of a new conversation creates a second post;
    a conversation of more than 100 messages is always read from its beginning, so a command
    in it is deduplicated for ever; a plate regenerated from the same prompt overwrites the
    object the earlier one named.

## 4. Proofs

TLAPS proves the following for every value of the constants.

`QueueStoreProofs`, which is about the two things the workers share in the database, `GenerationQueue` and `WorkflowStore`
(whose definitions are therefore named apart: `StoreInit`, `StoreNext`, `StoreSpec`, `StoreTypeOK`).
*The queue.* From `QueueConstants` (the lease exceeds the timeout):
`TypeCorrect`, `AttemptsAccounted` and `Fencing`, whatever the workers do. The
inductive invariant `SafeInv` adds to the types who holds which lock and what a
worker between two statements knows of its rows: a locked row cannot change, so
what the sweep and the claim read under the lock still holds at the commit; a
worker's attempt number is at most the row's, and equal to it while the worker owns
the row. With `Prompt` (timeout + overrun < lease): `Exclusion`,
`StatusAgreement` and `TerminalStays`. `PromptInv` relates the ticks left of the
lease to the ticks left of the attempt: the lease of a busy worker outlasts it, so
the row is neither reclaimable nor exhausted. `Prompt` is what the configuration's
test `lease > timeout` is meant to buy, and observation 1 shows that it is needed.

*The store.* From `StoreConstants`: `StoreTypeCorrect`, `NoLostUpdate`,
`AnswersHonest`, `ContractIsWrittenOnce` and `Refinement`. The invariant `StoreInv`
says that the document a transaction holds is the snapshot of the version it
named, that the lock holder's version is still the current one, and that whoever is
about to write the contract has seen none or its own. A commit therefore writes the
current document with one section replaced; `Refinement` maps it to `Put` and every
other step to a stutter.

`CampaignProofs`. From `BriefConstants`, `CampaignConstants` and `NoneIsAbsent`, for any number of
requests, briefs, extractions and plans: `StatusIsTrue`, `TurnsKept` and
`ChangeOutdatesPlan`. The invariant `Consistent` says of every request, place by place, what it
holds and what it has written (`Fits`). Whoever may still commit holds the conversation since
before it read the brief, so its changes are those of the brief it will overwrite (`Merged`), the
status it leaves fits the brief it leaves (`Judged`), and its messages follow all others. A
generation reads earlier; all it relies on is that the brief is complete, which a turn
can only make more so (`ReadyStays`). A commit therefore disturbs no other request.

`AgentRuntimeProofs`. From `RuntimeConstants`: `RunContained` and `RunIsTold`, whatever the tools,
lists, retries and timeouts. `Contained` adds to the property that nothing of a later attempt
exists, that a handler that goes on has heard of all its tools, that only authorised tools run, and
that the clock is at most the timeouts of the earlier attempts and what has elapsed of this one. `Whole`
says what an abandoned attempt leaves behind: tools that are still pending when another
attempt begins met a refused input beside them. `Told` says that every identifier is traced at most
once, and as what it denotes ended.

`PostSupervisorProofs`. From `PlanAssumption` and `BoundAssumption`, for every plan, any number of
executors and any number of crashes, lost writes and patches: `ProgressConsistent` and
`PublishedStays`. They assume `VerdictsUntouched`: the endpoint refuses patches of the contract and of
the supervisor's section only, and a client that patches a verdict overrules the reviewer. Every
write compares versions, so an executor that holds the latest version knows the state exactly
(`Informed`), and one that does not can write nothing. The stage it works on is the first one that is not
done (`First`), and what is done is closed under dependencies while everything a pending
request invalidates is not done (`Ordered`). What it rewrites was therefore read by no stage that
counts as done, and its outputs appear in their order (`Fresh`). A request
is appended only when none is open, with the count the reviewer made (`Judged`). `Downstream`
is a least closed set, and that it is closed and no larger is proved by induction on finite sets with
the set as parameter. `InputsAlwaysArrive` adds `InputsProduced` (every required section is provided
or written by a stage that does not leave it empty) and proves that no executor stops for a
missing input; observation 2 is the case in which that assumption fails. `NeverStopsTooEarly` adds
`WorkFits` and with it proves all of `NeverStopsEarly`. Every decision that does not end an attempt uses
up a piece of `Work`: the skip of a stage, one of its runs, or the handling of one of the requests a reviewer
can make. What is spent stays spent through crashes and reclaims (`Spent`, a set that only grows), a run of a
reviewer makes at most one request (`Reviewed`), and only a client's patch makes a recorded decision
worthless; so the decisions of an attempt are at most the pieces of work spent and the patches made
(`Tally`). `WorkFits` says that attempts follow one another and that work and patches are fewer than
the limit: 97 pieces for the real plan, with a limit of 100, which TLC evaluates (`RealPlanFits`). So the
limit leaves room for two patches, and for any number of crashes, whatever bound the run puts on attempts and revisions.
With overlapping attempts, each of which may waste the other's decisions, it remains unproved.

`PostChatProofs`. From `RoutingConstants`, `ChatConstants` and `HistoriesAssumption`, for any number of
requests, texts and classifications and any page: `KeysUnique`, `ConversationWhole` and `BriefsStated`;
and, for a page that holds the whole conversation (`PageSuffices`), `NothingIsForgotten`.
What a request is going to write was checked against state that a lock keeps as it was. The
message a turn stores has the next number as long as the turn holds the conversation (`Spoken`); the key and
the number of a generation are new as long as the request holds its post (`Queued`); a post it
created has no namesake (`Posted`). Everything else it holds, references and facts with the messages they came
from (`Recalls`, `Sourced`), stays true because messages, posts and generations are only added
(`RequestKept`). Rollback leaves the committed state alone, so failures and deadlocks need no more.
`NothingIsForgotten` adds `MemoryInv`: while no two requests were in flight at once, the one in flight has
read all that is committed and nothing changes under it (`Current`), so the context it saves holds the
facts told so far and its own, and the list of the generations, in order, with the new one at the end
(`Remembering`). It rests on what a turn's rules do to known facts (`UnderstoodKeeps`), on the
list's order (`SequenceGrows`), and on a turn answering a message that was not answered before (`TurnIsNew`).
`PageSuffices` is necessary: beyond the page TLC finds the fact that is lost.

`ResearchProofs`. From `ResearchConstants` and `NoneIsNoInsight` (None is not a record), for any number
of stages, scenarios and timeouts and whatever providers and models answer: `StageContained`,
`CacheSound` and `StageHonest`. A task under way belongs to a running stage and has its deadline
(`Timed`), so time stops at the deadline until the task is over; one that is over holds no slot of the gate
(`Swept`); only reports with something found are stored (`Reporting`); what a search lost is on the
report before the searches are forgotten (`Declared`).

`EvidenceSound` adds that reports hold what their sources say. It assumes of the inputs only `ResearchInputs`
(pages and invented quotes are made of words of the lexicon, limits are natural numbers, an analysis is shown at
least one source) and holds for texts, windows and result lists of any length. `EvidenceInv`, inductive
together with `Inv`, says of every report, a task's or the cache's, that its sources are
distinct pages which searches found for dimensions it does not declare lost (`Sourced`), and that its analysis
stands in them (`Verbatim`, `Earned`). Under it are three chains of lemmas. *Texts:* the loops are recursive functions,
so `LoopExists` shows once, by induction over a range of numbers, that a loop which keeps to an invariant has a run, and
every loop of the model is then bounded by its own (`MergedIn`, `RankedIn`, `WindowsAreParts`, `JoinedIn`). A cut, a
window and the tail of one are spans of the page, and a quote that does not cross a seam lies in a single span
(`SeamSeparates`), so what was shown holds nothing the page does not (`ShownIsOfText`); shortening a
quote keeps it in its source (`HoldsPart`). *Sources:* a score stays on the scale with or without a date (`QualityIn`), merging by
address keeps addresses distinct (`AddIn`) and a ranking is a permutation (`RankedIn`), so an address names one
source of the report. *Dimensions:* no two searches of a task answer the same one (`SearchesApart`), so a
failed search and a page cannot be of the same dimension, and high confidence, which needs a page of its own
dimension (`InsightStands`), never falls on a lost one.

`SpecialistsProofs`, `CreativeProofs`. From what the inputs and answers of a stage are known to be (`UnderstandingInputs`,
`StrategyInputs`, `VerificationInputs`, `VerificationAnswers`, `ReviewInputs`, `ReviewAnswers`, `PlanningInputs`, `PlateAnswers`,
`CopyInputs`, `CreativeInputs`: schemas,
and what the chat and the earlier stages guarantee; TLC evaluates each on the sets of the run), for every input and answer of that kind, of any length:
`BriefSound`, `StrategySound`, `GatesExact`, `ApprovalRestsOnOneRender`, `FindingsActedOn` and `CompositionSound`, and in
`CreativeProofs`, which builds on it, `ProductionEnds` and `DirectionStands`. The invariants (`Inv`, `StrategyInv`, `FindingsInv`,
`PlannedInv`; `CallsInv`, `CopyInv`, `CreativeInv`) say where an input and an output came from and what has been
kept between two calls; the rest are lemmas about the functions.
`BriefIsSayable` follows every source a field may be filled from, and `BriefSuffices` goes through the fields that the chat and
the workflow call critical. For the strategy, `AudienceAlwaysAccepts` and `StrategistMostlyAccepts` show that an
analysis without errors passes the entry checks and tools downstream; `DecisionsHaveFoundations`
that each group of evidence a decision needs holds a kind that is always there, or both kinds of promise, of which
accepted evidence has one (`EvidenceIsCitable`); and `CompleteServes`, by induction over the groups with
the set as parameter, that serving one group never leaves another unserved. So canonicalisation leaves no
basis error (`CanonicalHasNoBasisError`). For the gates, `DimensionsAreExact` is arithmetic of quotients
and remainders, `CertifiedIsAllowed` compares the gates with the asset policies, and `SilenceHelps` shows each gate
to be monotonic in what the witness lists. `ApprovalRestsOnOneRender` rests on the entry check of each
reviewer: whatever was swapped in storage meanwhile, a report enters the next stage's input only with the
checksum of the draft (`OneDraftSeen`). `FindingsActedOn` unfolds which stages of the plan lie downstream of
which, shows for every kind of finding that its stage owns the fault, that the primary route of
an instruction is the earliest of its findings' stages and so rewrites all of them, and that a mean of scores
stays within their bounds, so that a failed decision always leaves a finding to file; it needs that a report which was let
through has no finding (`ReportsPassed`) and that the history is a list (`HistoryListed`).

`CompositionSound` holds for every spec that passed `design_spec`, every copy, and any number of originals of
any proportions. Its two assumptions repeat the code: `PlanningInputs` that the stages before planning
passed (a spec without errors, a headline and a call to action of at least one word, pixel coordinates, images with
sides, and one policy per asset, which the planner's schema demands), `PlateAnswers` that a generated
image has a checksum. The geometry is a chain of lemmas: a snapped region lies on the grid's lines within the
safe area (`PlacedWithin`); a fitted block keeps its region's edges and is at least one line high (`BlockFits`);
the texts of a group are stacked a baseline apart and use no more than they are given, by induction over the group
(`NextIsStacked`, `GroupFits`), where the remainder of the division goes to the last one; a group and single
regions are apart because the layout refuses a crowded flow (`FlowApart`); products are scaled into rooms that
do not meet (`RoomsApart`, `ContainedWithin`). An obstacle-free draft passed every gate the composer has (`NothingStops`), so the
lemmas apply to its parts (`PartsByKind`) and its assets satisfy the verifier's gates (`GatesPassed`). `PlannedInv` says what
the chain keeps for that: the parts of the input that no stage rewrites (`PlanReady`), that a scene is left out only
for an approved background (`SceneIsPlanned`), and that the cleared checksum is that of the bytes inspected
(`SeenIsCleared`), which neither lost originals nor a plate published meanwhile disturb (`WorldsStayReady`).

`ProductionEnds` says that no execution makes more calls than its budget, that each turn of the copywriter's loop shortens
the overlay, that a copy is refused only for what no repair may touch, and that the spec stage never fails.
`CallsInv` adds to the budget that a call is made only while one is left. `CopyInv` says what the copywriter keeps: of the first answer,
texts of the schema's types (`Typed`); of the repaired copy, that each text is within its limits and ends as a
sentence, and that offer and hashtags are as they were given (`CopyKept`). Normalising any answer yields such a copy, and a turn of
the loop keeps it one and makes it shorter (`NormalizedIsKept`, `ShrunkIsKept`); such a copy, if the validator still refuses it, has
one of the faults the property lists (`RefusedIsBlamed`). The deterministic layout passes every rule of the specs for any copy and
any direction whose texts fit (`FallbackIsSound`, by arithmetic of its regions). `CopyInputs` says that the offer and the approved claims
are part of the client's source, and that copy and art direction have their schemas' types.

`DirectionStands`. *Ranking:* of two candidates with different scorecards, which the validator demands, one is above the
other, and being above is transitive (`RankIsStrict`, `RankIsTransitive`); so one candidate is above all others
(`OneIsBest`), in whatever order the model listed them (`WinnerOfOrder`). *Texts:* each text of the published direction is
followed through normalisation, patches and corrections back to an answer (`TextsCome`, `NormalizedComes`,
`PatchedComes`), unless code has written it; what is stabilised holds no sentence that may not be said (`SafeIsClean`,
`StabilizedIsClean`), and a repair is announced among the limitations (`RepairAnnounced`), which are cut at a maximum:
`CreativeInputs` says that those of the strategy leave room for two more. They do, since the strategy lists at most two of the
audience, one for each category of research and one for the message. *Corrections:* `CreativeInv` says that a candidate kept for a
correction has lists of sentences as its texts, that from the second call on they hold nothing unsayable, and that what code wrote in it
is noted (`Remembered`). *Originality:* a concept that copies, repeats or is a commodity always has a finding that is
routed to the concept (`GuardFinds`), and the revision made of it reaches that stage (`ReferencesGuarded`).

Only model-checked: liveness (`EveryJobEnds`, `EveryRequestEnds`, `RunEnds`, `StageEnds`), which is
beyond the prover, and the plan's own facts, which TLC evaluates on the real plan. Every safety
property of the passing runs is stated by a theorem.

## 5. Not modelled

The table in `PROJECT.json` gives a reason for every part. In short: prompts, wording and the
providers behind them are outside, and a model's answer is any of a set that holds a sound one and
one for each fault; the drawing of pixels, fonts and colour contrast are floating point and
image files; `tools/assets/preservation.py` is used by no stage; traces are telemetry; a campaign's read-only
endpoints and its export, and the state endpoint of a chat, change nothing; uploads, the writing of semantic memory
and the web workspace are planned. When a framework commits a request's
transaction relative to its answer, and which objects an ORM session caches, is
outside the repository: the store's model commits before it answers and reads from
the database. What a specialist computes is checked over the enumerated answers, and proved, for what
the properties of `Specialists` say of it, over every answer that the assumptions of §4 admit.

## 6. Plan

1. Generation queue and its proofs - done.
2. Supervisor over the real plan - done.
3. Workflow store, its abstract specification and proofs - done.
4. Campaign lifecycle; posts chat - done.
5. Specialists, production, policies, review - done; what is left out is said above.
6. Agent runtime and external research - done.
7. Composition of the queue with the executors (a job completes only after its
   workflow did) and an abstract job lifecycle implemented by the queue.
8. Uploads (the object is written before its row), `remember_approved` as a side effect of a
   stage that may be retried; the web workspace's polling and late answers.
9. Proofs: queue, store, campaign, agent runtime, supervisor, chat, research with its evidence, and brief,
   strategy, direction, copy, gates, approval, revisions and composition of the specialists - done.
