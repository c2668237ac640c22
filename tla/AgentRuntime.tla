----------------------------- MODULE AgentRuntime -----------------------------
(***************************************************************************)
(* AgentRuntime.run with the tool registry, the traced providers and the       *)
(* trace recorder: one run of an agent, its attempts, the tools each attempt    *)
(* gathers concurrently, its model calls one after another, and the timeouts    *)
(* around all of them.  Time advances in units; the registered policies have    *)
(* no backoff.  asyncio.gather raises the first exception and leaves its other  *)
(* tools running, a timeout cancels what the attempt awaits.                   *)
(***************************************************************************)
EXTENDS Integers, Sequences, FiniteSets

CONSTANTS
    Tool,             \* names an agent may pass to its gateway
    Registered,       \* tools with a definition
    AllowedTools,     \* agent.allowed_tools
    AllowingTools,    \* tools whose allowed_agents name the agent
    Prohibited,       \* tools with a capability the agent is denied
    Plans,            \* the sets of tools a handler may gather
    MaxAttempts, ToolAttempts,     \* retry policies
    RetryOn,                       \* the failures a retry policy repeats
    AgentTimeout, ToolTimeout,     \* in units of time
    ProviderCeiling,               \* provider_timeout_seconds, in the same units
    MaxCalls,                      \* model calls of one execution of the handler
    None

ASSUME RuntimeConstants ==
    /\ Registered \cup AllowedTools \cup AllowingTools \cup Prohibited \subseteq Tool
    /\ Plans \subseteq SUBSET Tool
    /\ {MaxAttempts, ToolAttempts, AgentTimeout, ToolTimeout, ProviderCeiling} \subseteq Nat \ {0}
    /\ MaxCalls \in Nat /\ RetryOn \subseteq {"timeout", "error"}
    /\ None \notin {"succeeded", "failed", "timeout", "denied"}

VARIABLES
    phase,    \* of the run: "new", "starting", "gathering", "thinking", "calling", "ended"
    attempt,  \* 1 .. max_attempts
    elapsed,  \* time since the attempt began
    now,      \* time since the run began
    tools,    \* the tool invocations of every attempt
    calls,    \* model calls completed in this attempt
    age,      \* of the pending model call
    outcome,  \* what run returned or raised
    traces    \* what the recorder holds of every invocation

vars == <<phase, attempt, elapsed, now, tools, calls, age, outcome, traces>>

Attempts == 1 .. MaxAttempts
Agent == <<"agent", 0, 0>>
ToolCall(a, t) == <<"tool", a, t>>
ModelCall(a, n) == <<"provider", a, n>>
ToolCalls == {ToolCall(a, t) : a \in Attempts, t \in Tool}
ModelCalls == {ModelCall(a, n) : a \in Attempts, n \in 1 .. MaxCalls}

Reasons == {"timeout", "denied", "framework", "error"}
Live == {"invoked", "running"}
ToolFailures == {"missing", "denied", "invalid", "timeout", "failed"}
ToolStates == {"absent", "succeeded", "cancelled"} \cup Live \cup ToolFailures

\* How a tool's failure reaches the agent: ToolNotFoundError, InvocationTimeoutError
\* and InvocationFailedError are framework errors, a rejected input is not.
ReasonOf(state) ==
    CASE state = "denied" -> "denied"
      [] state = "invalid" -> "error"
      [] state \in {"missing", "timeout", "failed"} -> "framework"

\* ExecutionRunStatus
TraceOf(state) ==
    CASE state \in {"missing", "invalid", "failed", "framework", "error"} -> "failed"
      [] state \in {"succeeded", "timeout", "denied"} -> state

\* record: an error of the recorder is swallowed and the trace is lost.
Record(ids, status) ==
    \E kept \in {status, "lost"} :
       traces' = [i \in DOMAIN traces |-> IF i \in ids THEN Append(traces[i], kept) ELSE traces[i]]

Init ==
    /\ phase = "new" /\ attempt = 1 /\ elapsed = 0 /\ now = 0
    /\ tools = [i \in ToolCalls |-> [state |-> "absent", tries |-> 0, age |-> 0]]
    /\ calls = 0 /\ age = 0 /\ outcome = None
    /\ traces = [i \in {Agent} \cup ToolCalls \cup ModelCalls |-> <<>>]

----------------------------------------------------------------------------
\* Mutant: every failure is worth another attempt.
RetryAll(reason) == attempt < MaxAttempts

\* Mutant: the last attempt is repeated too.
RetryOnceMore(reason) == reason \in RetryOn /\ attempt <= MaxAttempts

\* _can_retry; a denial or another framework error is raised as it is.
CanRetry(reason) == reason \in RetryOn /\ attempt < MaxAttempts

Settle(status) == phase' = "ended" /\ outcome' = status /\ UNCHANGED <<attempt, elapsed, calls>>
StartOver == /\ phase' = "starting" /\ attempt' = attempt + 1 /\ elapsed' = 0 /\ calls' = 0
             /\ UNCHANGED outcome

\* Mutant: every attempt that fails is traced.
FailsTraced(reason) ==
    /\ Record({Agent}, TraceOf(reason))
    /\ IF CanRetry(reason) THEN StartOver ELSE Settle(TraceOf(reason))

\* The attempt ends with an exception: the next one begins, or the run is traced and
\* raises.
Fails(reason) ==
    IF CanRetry(reason) THEN StartOver /\ UNCHANGED traces
    ELSE Settle(TraceOf(reason)) /\ Record({Agent}, TraceOf(reason))

\* run: an unknown agent or an invalid payload is traced and raised.
Run ==
    /\ phase = "new"
    /\ \/ phase' = "starting" /\ UNCHANGED <<attempt, elapsed, calls, outcome, traces>>
       \/ Settle("failed") /\ Record({Agent}, "failed")
    /\ UNCHANGED <<now, tools, age>>

\* The handler begins by gathering the tools of its plan.
Gather ==
    /\ phase = "starting"
    /\ \E plan \in Plans :
          /\ tools' = [i \in ToolCalls |->
                IF i[2] = attempt /\ i[3] \in plan THEN [tools[i] EXCEPT !.state = "invoked"] ELSE tools[i]]
          /\ phase' = IF plan = {} THEN "thinking" ELSE "gathering"
    /\ UNCHANGED <<attempt, elapsed, now, calls, age, outcome, traces>>

----------------------------------------------------------------------------
\* Mutant: the lists decide, capabilities are not looked at.
AuthorizedByLists(t) == t \in AllowedTools \cap AllowingTools

\* _authorize; the gateway's own identity is bound by the runtime and always right.
Authorized(t) == t \in (AllowedTools \cap AllowingTools) \ Prohibited

Current(i) == i[2] = attempt /\ phase = "gathering"
Siblings(i) == {j \in ToolCalls : j[2] = i[2] /\ tools[j].state # "absent"} \ {i}

\* A tool invocation ends; the gather that waits for it, if one does, hears of it.
ToolEnds(i, state) ==
    /\ tools' = [tools EXCEPT ![i].state = state]
    /\ IF Current(i) /\ state \in ToolFailures
       THEN IF CanRetry(ReasonOf(state))
            THEN StartOver /\ Record({i}, TraceOf(state))
            ELSE /\ Settle(TraceOf(ReasonOf(state)))
                 /\ \E kept \in {TraceOf(state), "lost"}, mine \in {TraceOf(ReasonOf(state)), "lost"} :
                       traces' = [traces EXCEPT ![i] = Append(@, kept), ![Agent] = Append(@, mine)]
       ELSE /\ Record({i}, TraceOf(state))
            /\ phase' = IF Current(i) /\ \A j \in Siblings(i) : tools[j].state = "succeeded"
                        THEN "thinking" ELSE phase
            /\ UNCHANGED <<attempt, elapsed, calls, outcome>>
    /\ UNCHANGED <<now, age>>

\* _invoke up to the handler: lookup, authorisation, input.
InvokeTool(i) ==
    /\ tools[i].state = "invoked"
    /\ \/ i[3] \notin Registered /\ ToolEnds(i, "missing")
       \/ i[3] \in Registered /\ ~ Authorized(i[3]) /\ ToolEnds(i, "denied")
       \/ i[3] \in Registered /\ Authorized(i[3]) /\ ToolEnds(i, "invalid")
       \/ /\ i[3] \in Registered /\ Authorized(i[3])
          /\ tools' = [tools EXCEPT ![i] = [state |-> "running", tries |-> 1, age |-> 0]]
          /\ UNCHANGED <<phase, attempt, elapsed, now, calls, age, outcome, traces>>

ToolAgain(i) ==
    /\ tools' = [tools EXCEPT ![i].tries = @ + 1, ![i].age = 0]
    /\ UNCHANGED <<phase, attempt, elapsed, now, calls, age, outcome, traces>>

ToolReturns(i) == tools[i].state = "running" /\ ToolEnds(i, "succeeded")

\* The handler raises or its output is invalid; it outlives its timeout.
ToolErrs(i) ==
    /\ tools[i].state = "running"
    /\ IF "error" \in RetryOn /\ tools[i].tries < ToolAttempts THEN ToolAgain(i) ELSE ToolEnds(i, "failed")

\* Mutant: nobody minds a tool that nobody awaits.
ToolTimesOutAwaited(i) ==
    /\ Current(i) /\ tools[i].state = "running" /\ tools[i].age = ToolTimeout
    /\ IF "timeout" \in RetryOn /\ tools[i].tries < ToolAttempts THEN ToolAgain(i) ELSE ToolEnds(i, "timeout")

ToolTimesOut(i) ==
    /\ tools[i].state = "running" /\ tools[i].age = ToolTimeout
    /\ IF "timeout" \in RetryOn /\ tools[i].tries < ToolAttempts THEN ToolAgain(i) ELSE ToolEnds(i, "timeout")

----------------------------------------------------------------------------
CallModel ==
    /\ phase = "thinking" /\ calls < MaxCalls
    /\ phase' = "calling" /\ age' = 0
    /\ UNCHANGED <<attempt, elapsed, now, tools, calls, outcome, traces>>

ModelAnswers ==
    /\ phase = "calling" /\ phase' = "thinking" /\ calls' = calls + 1
    /\ Record({ModelCall(attempt, calls + 1)}, "succeeded")
    /\ UNCHANGED <<attempt, elapsed, now, tools, age, outcome>>

\* The provider's error, its own timeout among them, is traced and leaves the handler.
ModelFails ==
    /\ phase = "calling"
    /\ IF CanRetry("error") THEN StartOver /\ Record({ModelCall(attempt, calls + 1)}, "failed")
       ELSE /\ Settle("failed")
            /\ \E kept, mine \in {"failed", "lost"} :
                  traces' = [traces EXCEPT ![ModelCall(attempt, calls + 1)] = Append(@, kept),
                                           ![Agent] = Append(@, mine)]
    /\ UNCHANGED <<now, tools, age>>
ModelTimesOut == age = ProviderCeiling /\ ModelFails

\* The handler returns: its output meets the schema, or that is an error.
Returns ==
    /\ phase = "thinking"
    /\ \/ Settle("succeeded") /\ Record({Agent}, "succeeded")
       \/ Fails("error")
    /\ UNCHANGED <<now, tools, age>>

\* Mutant: what the attempt awaits goes on.
NothingCancelled == UNCHANGED tools

\* wait_for cancels the handler, and with it the tools it awaits or the model call.
CancelTools ==
    tools' = [i \in ToolCalls |->
        IF Current(i) /\ tools[i].state \in Live THEN [tools[i] EXCEPT !.state = "cancelled"] ELSE tools[i]]

AgentTimesOut ==
    /\ phase \in {"gathering", "thinking", "calling"} /\ elapsed = AgentTimeout
    /\ CancelTools /\ Fails("timeout")
    /\ UNCHANGED <<now, age>>

\* Mutant: an agent that waits for a model call is not on the clock.
TickOffTheClock ==
    /\ phase \in {"gathering", "calling"} /\ elapsed < AgentTimeout
    /\ phase = "calling" => age < ProviderCeiling
    /\ \A i \in ToolCalls : tools[i].state # "invoked"
    /\ \A i \in ToolCalls : tools[i].state = "running" => tools[i].age < ToolTimeout
    /\ elapsed' = IF phase = "calling" THEN elapsed ELSE elapsed + 1
    /\ now' = now + 1
    /\ age' = IF phase = "calling" THEN age + 1 ELSE age
    /\ tools' = [i \in ToolCalls |->
          IF tools[i].state = "running" THEN [tools[i] EXCEPT !.age = @ + 1] ELSE tools[i]]
    /\ UNCHANGED <<phase, attempt, calls, outcome, traces>>

\* Time does not pass a deadline, and only matters while something waits.
Tick ==
    /\ phase \in {"gathering", "calling"} \/ \E i \in ToolCalls : tools[i].state = "running"
    /\ phase \notin {"new", "starting", "thinking"}
    /\ phase # "ended" => elapsed < AgentTimeout
    /\ phase = "calling" => age < ProviderCeiling
    /\ \A i \in ToolCalls : tools[i].state # "invoked"
    /\ \A i \in ToolCalls : tools[i].state = "running" => tools[i].age < ToolTimeout
    /\ elapsed' = IF phase = "ended" THEN elapsed ELSE elapsed + 1
    /\ now' = IF phase = "ended" THEN now ELSE now + 1
    /\ age' = IF phase = "calling" THEN age + 1 ELSE age
    /\ tools' = [i \in ToolCalls |->
          IF tools[i].state = "running" THEN [tools[i] EXCEPT !.age = @ + 1] ELSE tools[i]]
    /\ UNCHANGED <<phase, attempt, calls, outcome, traces>>

\* What the event loop does by itself, whatever tools and providers do.
Loop ==
    \/ Run \/ Gather \/ CallModel \/ Returns \/ ModelTimesOut \/ AgentTimesOut
    \/ \E i \in ToolCalls : InvokeTool(i) \/ ToolTimesOut(i)

Next ==
    \/ Loop \/ Tick \/ ModelAnswers \/ ModelFails
    \/ \E i \in ToolCalls : ToolReturns(i) \/ ToolErrs(i)

\* Deadlines are kept and the handler computes; nobody promises that a tool or a
\* provider ever answers.
Spec == Init /\ [][Next]_vars /\ WF_vars(Loop) /\ WF_vars(Tick)

----------------------------------------------------------------------------
TypeOK ==
    /\ phase \in {"new", "starting", "gathering", "thinking", "calling", "ended"}
    /\ attempt \in Attempts /\ elapsed \in 0 .. AgentTimeout /\ now \in Nat
    /\ calls \in 0 .. MaxCalls /\ age \in 0 .. ProviderCeiling
    /\ tools \in [ToolCalls -> [state: ToolStates, tries: 0 .. ToolAttempts, age: 0 .. ToolTimeout]]
    /\ outcome \in {None, "succeeded", "failed", "timeout", "denied"}

\* Every invocation that ended has exactly one trace, with the status it ended with
\* unless the recorder lost it; what still runs, or was cancelled, has none.  A run of
\* an agent that was retried has one trace for all of its attempts.
TracesAreTruthful ==
    /\ \A i \in ToolCalls :
          IF tools[i].state \in {"absent", "cancelled"} \cup Live THEN traces[i] = <<>>
          ELSE traces[i] \in {<<TraceOf(tools[i].state)>>, <<"lost">>}
    /\ IF phase = "ended" THEN traces[Agent] \in {<<outcome>>, <<"lost">>} ELSE traces[Agent] = <<>>
    /\ \A i \in ModelCalls : Len(traces[i]) <= 1

\* A run succeeds on a whole attempt: all of its tools succeeded, and no failure that
\* must not be repeated ended an attempt before it.
SuccessIsWhole ==
    outcome = "succeeded" =>
        /\ \A i \in ToolCalls : i[2] = attempt => tools[i].state \in {"absent", "succeeded"}
        /\ \A a \in 1 .. attempt - 1 : \A i \in ToolCalls :
              i[2] = a /\ tools[i].state \in {"denied", "missing", "failed", "timeout"} =>
                 \E j \in ToolCalls : j[2] = a /\ tools[j].state = "invalid"

\* No handler of a tool the agent may not use ever runs, also in the attempts that were
\* given up and whose tools are still being invoked.
DeniedNeverRuns ==
    \A i \in ToolCalls : tools[i].tries > 0 => i[3] \in (AllowedTools \cap AllowingTools) \ Prohibited

\* After a timeout nothing of that attempt is left running: only a gather that raised
\* leaves tools behind.
TimeoutLeavesNothing ==
    outcome = "timeout" =>
        \A i \in ToolCalls : i[2] = attempt => tools[i].state \notin Live

\* A stage is never held longer than the timeouts of the attempts it has used, however
\* its tools and model calls hang, are retried or are left behind.
RunIsBounded == now <= attempt * AgentTimeout

\* Every run ends and every tool it started comes to rest, though no tool and no
\* provider may ever answer.
RunEnds == <>[](phase = "ended" /\ \A i \in ToolCalls : tools[i].state \notin Live)

\* What the recorder and the caller are told about a run is what happened, over all of
\* its attempts.
ToldAsItWas == TracesAreTruthful /\ SuccessIsWhole

\* Whatever fails or hangs, a run starts no tool it may not use, stays within the time
\* of its attempts and leaves nothing running after a timeout.
RunIsContained == TypeOK /\ DeniedNeverRuns /\ TimeoutLeavesNothing /\ RunIsBounded
=============================================================================
