------------------------- MODULE AgentRuntimeProofs --------------------------
(***************************************************************************)
(* One run of an agent is contained for any tools, lists, retry policies and *)
(* timeouts: no tool runs that the agent may not use, a timeout leaves       *)
(* nothing of its attempt running, and time is bounded by the attempts.      *)
(***************************************************************************)
EXTENDS AgentRuntime, TLAPS

Invocation == [state: ToolStates, tries: 0 .. ToolAttempts, age: 0 .. ToolTimeout]

\* Nothing of a later attempt exists, nor of this one before it gathers.
Unstarted ==
    \A i \in ToolCalls :
        i[2] > attempt \/ (i[2] = attempt /\ phase \in {"new", "starting"}) =>
            tools[i].state = "absent"

\* A handler that goes on has heard of all the tools it gathered.
Heard ==
    phase \in {"thinking", "calling"} =>
        \A i \in ToolCalls : i[2] = attempt => tools[i].state \notin Live

\* Only an authorised tool is running.
RunningIsAllowed == \A i \in ToolCalls : tools[i].state = "running" => Authorized(i[3])

\* What ended has an outcome, and only that; a pending call is one of MaxCalls.
Undecided == /\ phase # "ended" => outcome = None
             /\ phase = "calling" => calls < MaxCalls

\* Earlier attempts took a timeout each at most, this one what has elapsed.
Clocked == now <= (attempt - 1) * AgentTimeout + elapsed

Contained ==
    /\ TypeOK /\ DeniedNeverRuns /\ TimeoutLeavesNothing
    /\ Unstarted /\ Heard /\ RunningIsAllowed /\ Undecided /\ Clocked

LEMMA Constants ==
    /\ MaxAttempts \in Nat /\ MaxAttempts > 0 /\ ToolAttempts \in Nat /\ ToolAttempts > 0
    /\ AgentTimeout \in Nat /\ AgentTimeout > 0 /\ ToolTimeout \in Nat /\ ToolTimeout > 0
    /\ ProviderCeiling \in Nat /\ ProviderCeiling > 0 /\ MaxCalls \in Nat
    /\ None \notin {"succeeded", "failed", "timeout", "denied"}
BY RuntimeConstants

\* An invocation belongs to one attempt.
LEMMA CallParts ==
    ASSUME NEW i \in ToolCalls
    PROVE  i[2] \in Attempts /\ i[2] \in Nat /\ i[3] \in Tool
BY Constants DEF ToolCalls, ToolCall, Attempts

\* How a tool's failure ends the run; it is never the timeout of the agent.
LEMMA FailureOutcome ==
    ASSUME NEW s \in ToolFailures
    PROVE  TraceOf(ReasonOf(s)) \in {"failed", "denied"}
BY DEF ToolFailures, TraceOf, ReasonOf

----------------------------------------------------------------------------
\* What every step but a gather does to the invocations: none begins, none comes back
\* to life, and what runs or has run is authorised.
Quiet ==
    /\ tools' \in [ToolCalls -> Invocation]
    /\ \A i \in ToolCalls :
          /\ tools'[i].state \in Live => tools[i].state \in Live
          /\ tools[i].state = "absent" => tools'[i].state = "absent"
          /\ tools'[i].tries > 0 \/ tools'[i].state = "running" => Authorized(i[3])

Counted ==
    /\ calls' \in 0 .. MaxCalls /\ age' \in 0 .. ProviderCeiling
    /\ phase' = "calling" => calls' < MaxCalls

\* Leaving the invocations alone is quiet.
LEMMA StillIsQuiet ==
    ASSUME Contained, UNCHANGED tools
    PROVE  Quiet
BY DEF Contained, TypeOK, DeniedNeverRuns, RunningIsAllowed, Quiet, Invocation, Authorized

\* The next attempt begins where the time of the ones before is bounded.
LEMMA RestartKeeps ==
    ASSUME Contained, Quiet, Counted, phase # "ended", StartOver, now' = now, attempt < MaxAttempts
    PROVE  Contained'
<1>1. attempt \in 1 .. MaxAttempts /\ elapsed \in 0 .. AgentTimeout /\ now \in Nat /\ outcome = None
  BY Constants DEF Contained, TypeOK, Attempts, Undecided
<1>2. phase' = "starting" /\ attempt' = attempt + 1 /\ elapsed' = 0 /\ outcome' = None
  BY <1>1 DEF StartOver
<1>3. TypeOK'
  BY <1>1, <1>2, Constants DEF TypeOK, Attempts, Quiet, Counted, Invocation
<1>4. DeniedNeverRuns' /\ RunningIsAllowed'
  BY DEF DeniedNeverRuns, RunningIsAllowed, Quiet, Authorized
<1>5. TimeoutLeavesNothing' /\ Heard' /\ Undecided'
  BY <1>2, Constants DEF TimeoutLeavesNothing, Heard, Undecided
<1>6. Unstarted'
  BY <1>1, <1>2, CallParts DEF Contained, Unstarted, Quiet
<1>7. Clocked'
  <2>1. (attempt - 1) * AgentTimeout + AgentTimeout = attempt * AgentTimeout
    BY <1>1, Constants
  <2>2. (attempt - 1) * AgentTimeout \in Int /\ attempt * AgentTimeout \in Int
    BY <1>1, Constants
  <2>3. now <= (attempt - 1) * AgentTimeout + elapsed
    BY DEF Contained, Clocked
  <2>4. now <= attempt * AgentTimeout
    BY <1>1, <2>1, <2>2, <2>3, Constants
  <2>5. attempt' - 1 = attempt
    BY <1>1, <1>2
  <2> QED BY <1>2, <2>2, <2>4, <2>5 DEF Clocked
<1> QED BY <1>3, <1>4, <1>5, <1>6, <1>7 DEF Contained

\* A run that settles with "timeout" has to show that nothing is left.
LEMMA SettlingKeeps ==
    ASSUME Contained, Quiet, Counted, NEW s \in {"succeeded", "failed", "timeout", "denied"},
           Settle(s), now' = now,
           s = "timeout" => \A i \in ToolCalls : i[2] = attempt => tools'[i].state \notin Live
    PROVE  Contained'
<1>1. phase' = "ended" /\ outcome' = s /\ attempt' = attempt /\ elapsed' = elapsed
  BY DEF Settle
<1>2. TypeOK'
  BY <1>1 DEF Contained, TypeOK, Quiet, Counted, Invocation
<1>3. DeniedNeverRuns' /\ RunningIsAllowed'
  BY DEF DeniedNeverRuns, RunningIsAllowed, Quiet, Authorized
<1>4. TimeoutLeavesNothing' /\ Heard' /\ Undecided' /\ Clocked'
  BY <1>1 DEF Contained, TimeoutLeavesNothing, Heard, Undecided, Clocked
<1>5. Unstarted'
  BY <1>1 DEF Contained, Unstarted, Quiet
<1> QED BY <1>2, <1>3, <1>4, <1>5 DEF Contained

\* A step within an attempt: a handler that goes on has heard of its tools.
LEMMA MovingKeeps ==
    ASSUME Contained, Quiet, Counted, UNCHANGED <<attempt, elapsed, now, outcome>>,
           \/ phase' = phase
           \/ phase = "new" /\ phase' = "starting"
           \/ /\ phase # "ended" /\ phase' \in {"thinking", "calling"}
              /\ \A i \in ToolCalls : i[2] = attempt => tools'[i].state \notin Live
    PROVE  Contained'
<1>1. TypeOK'
  BY DEF Contained, TypeOK, Quiet, Counted, Invocation
<1>2. DeniedNeverRuns' /\ RunningIsAllowed'
  BY DEF DeniedNeverRuns, RunningIsAllowed, Quiet, Authorized
<1>3. TimeoutLeavesNothing' /\ Clocked'
  BY DEF Contained, TimeoutLeavesNothing, Clocked, Quiet
<1>4. Heard' /\ Unstarted'
  BY DEF Contained, Heard, Unstarted, Quiet
<1>5. Undecided'
  BY DEF Contained, Undecided, Counted
<1> QED BY <1>1, <1>2, <1>3, <1>4, <1>5 DEF Contained

\* An attempt that fails is followed by another or ends the run.
LEMMA FailingKeeps ==
    ASSUME Contained, Quiet, UNCHANGED <<now, age>>, phase # "ended",
           NEW reason \in {"timeout", "error"}, Fails(reason),
           reason = "timeout" => \A i \in ToolCalls : i[2] = attempt => tools'[i].state \notin Live
    PROVE  Contained'
<1>1. calls \in 0 .. MaxCalls /\ age \in 0 .. ProviderCeiling
  BY DEF Contained, TypeOK
<1>2. CASE CanRetry(reason)
  <2>1. StartOver /\ attempt < MaxAttempts
    BY <1>2 DEF Fails, CanRetry
  <2>2. Counted
    BY <1>1, <2>1, Constants DEF Counted, StartOver
  <2> QED BY <2>1, <2>2, RestartKeeps
<1>3. CASE ~ CanRetry(reason)
  <2>1. Settle(TraceOf(reason))
    BY <1>3 DEF Fails
  <2>2. TraceOf(reason) \in {"failed", "timeout"} /\ (TraceOf(reason) = "timeout" => reason = "timeout")
    BY DEF TraceOf
  <2>3. Counted
    BY <1>1, <2>1 DEF Counted, Settle
  <2> QED BY <2>1, <2>2, <2>3, SettlingKeeps
<1> QED BY <1>2, <1>3

----------------------------------------------------------------------------
\* One invocation changes.
LEMMA OneChanges ==
    ASSUME Contained, NEW i \in ToolCalls, NEW r \in Invocation, tools' = [tools EXCEPT ![i] = r],
           tools[i].state \in Live, r.tries > 0 \/ r.state = "running" => Authorized(i[3])
    PROVE  Quiet
BY DEF Contained, TypeOK, DeniedNeverRuns, RunningIsAllowed, Quiet, Invocation, Authorized, Live

\* The end of an invocation, awaited or left behind.
LEMMA EndingKeeps ==
    ASSUME Contained, NEW i \in ToolCalls, NEW s \in ToolFailures \cup {"succeeded"},
           tools[i].state \in Live, ToolEnds(i, s)
    PROVE  Contained'
<1>1. tools \in [ToolCalls -> Invocation] /\ calls \in 0 .. MaxCalls /\ age \in 0 .. ProviderCeiling
  BY DEF Contained, TypeOK, Invocation
<1>2. tools' = [tools EXCEPT ![i].state = s] /\ now' = now /\ age' = age
  BY DEF ToolEnds
<1> DEFINE r == [tools[i] EXCEPT !.state = s]
<1>3. r \in Invocation /\ r.state = s /\ r.tries = tools[i].tries /\ s \notin Live /\ s # "running"
  BY <1>1 DEF Invocation, ToolStates, ToolFailures, Live
<1>4. Quiet
  <2>1. tools' = [tools EXCEPT ![i] = r]
    BY <1>1, <1>2 DEF Invocation
  <2>2. r.tries > 0 \/ r.state = "running" => Authorized(i[3])
    BY <1>3 DEF Contained, DeniedNeverRuns, Authorized
  <2> HIDE DEF r
  <2> QED BY <1>3, <2>1, <2>2, OneChanges
<1>5. \A j \in ToolCalls : tools'[j].state = IF j = i THEN s ELSE tools[j].state
  BY <1>1, <1>2 DEF Invocation
<1>6. CASE Current(i) /\ s \in ToolFailures /\ CanRetry(ReasonOf(s))
  <2>1. StartOver /\ attempt < MaxAttempts /\ phase = "gathering"
    BY <1>6 DEF ToolEnds, CanRetry, Current
  <2>2. Counted
    BY <1>1, <1>2, <2>1, Constants DEF Counted, StartOver
  <2> QED BY <1>2, <1>4, <2>1, <2>2, RestartKeeps
<1>7. CASE Current(i) /\ s \in ToolFailures /\ ~ CanRetry(ReasonOf(s))
  <2>1. Settle(TraceOf(ReasonOf(s)))
    BY <1>7 DEF ToolEnds
  <2>2. TraceOf(ReasonOf(s)) \in {"failed", "denied"}
    BY <1>7, FailureOutcome
  <2>3. Counted
    BY <1>1, <1>2, <2>1 DEF Counted, Settle
  <2> QED BY <1>2, <1>4, <2>1, <2>2, <2>3, SettlingKeeps
<1>8. CASE ~ (Current(i) /\ s \in ToolFailures)
  <2>1. /\ phase' = IF Current(i) /\ \A j \in Siblings(i) : tools[j].state = "succeeded"
                    THEN "thinking" ELSE phase
        /\ UNCHANGED <<attempt, elapsed, calls, outcome>>
    BY <1>8 DEF ToolEnds
  <2>2. Counted
    BY <1>1, <1>2, <2>1 DEF Counted, Contained, Undecided
  <2>3. CASE Current(i) /\ \A j \in Siblings(i) : tools[j].state = "succeeded"
    <3>1. phase' = "thinking" /\ phase = "gathering" /\ i[2] = attempt
      BY <2>1, <2>3 DEF Current
    <3>2. ASSUME NEW j \in ToolCalls, j[2] = attempt PROVE tools'[j].state \notin Live
      BY <1>3, <1>5, <2>3, <3>1, <3>2 DEF Siblings, Live
    <3> QED BY <1>2, <1>4, <2>1, <2>2, <3>1, <3>2, MovingKeeps
  <2>4. CASE ~ (Current(i) /\ \A j \in Siblings(i) : tools[j].state = "succeeded")
    BY <1>2, <1>4, <2>1, <2>2, <2>4, MovingKeeps
  <2> QED BY <2>3, <2>4
<1> QED BY <1>6, <1>7, <1>8

\* A tool is tried again: it was allowed to run before.
LEMMA AgainKeeps ==
    ASSUME Contained, NEW i \in ToolCalls, tools[i].state = "running",
           tools[i].tries < ToolAttempts, ToolAgain(i)
    PROVE  Contained'
<1>1. tools \in [ToolCalls -> Invocation] /\ calls \in 0 .. MaxCalls /\ age \in 0 .. ProviderCeiling
  BY DEF Contained, TypeOK, Invocation
<1> DEFINE r == [[tools[i] EXCEPT !.tries = tools[i].tries + 1] EXCEPT !.age = 0]
<1>2. r \in Invocation
  <2>1. tools[i] \in Invocation /\ tools[i].tries + 1 \in 0 .. ToolAttempts
    BY <1>1, Constants DEF Invocation
  <2>2. [tools[i] EXCEPT !.tries = tools[i].tries + 1] \in Invocation
    BY <2>1 DEF Invocation
  <2>3. 0 \in 0 .. ToolTimeout
    BY Constants
  <2>4. \A x \in Invocation : [x EXCEPT !.age = 0] \in Invocation
    BY <2>3 DEF Invocation
  <2> QED BY <2>2, <2>4
<1>3. tools' = [tools EXCEPT ![i] = r]
  BY <1>1 DEF ToolAgain, Invocation
<1>4. Authorized(i[3])
  BY DEF Contained, RunningIsAllowed
<1>5. Quiet
  <2> HIDE DEF r
  <2> QED BY <1>2, <1>3, <1>4, OneChanges DEF Live
<1>6. UNCHANGED <<phase, attempt, elapsed, now, calls, age, outcome>>
  BY DEF ToolAgain
<1>7. Counted
  BY <1>1, <1>6 DEF Counted, Contained, Undecided
<1> QED BY <1>5, <1>6, <1>7, MovingKeeps

\* Lookup, authorisation and input of an invocation.
LEMMA InvokingKeeps ==
    ASSUME Contained, NEW i \in ToolCalls, InvokeTool(i)
    PROVE  Contained'
<1>1. tools[i].state \in Live
  BY DEF InvokeTool, Live
<1>2. CASE ToolEnds(i, "missing") \/ ToolEnds(i, "denied") \/ ToolEnds(i, "invalid")
  BY <1>1, <1>2, EndingKeeps DEF ToolFailures
<1>3. CASE /\ Authorized(i[3])
           /\ tools' = [tools EXCEPT ![i] = [state |-> "running", tries |-> 1, age |-> 0]]
           /\ UNCHANGED <<phase, attempt, elapsed, now, calls, age, outcome, traces>>
  <2>1. [state |-> "running", tries |-> 1, age |-> 0] \in Invocation
    BY Constants DEF Invocation, ToolStates, Live
  <2>2. Quiet
    BY <1>1, <1>3, <2>1, OneChanges
  <2>3. Counted
    BY <1>3 DEF Counted, Contained, TypeOK, Undecided
  <2> QED BY <1>3, <2>2, <2>3, MovingKeeps
<1> QED BY <1>2, <1>3 DEF InvokeTool

\* An error or a timeout of a tool is repeated or ends it.
LEMMA ToolFailureKeeps ==
    ASSUME Contained, NEW i \in ToolCalls, ToolErrs(i) \/ ToolTimesOut(i)
    PROVE  Contained'
<1>1. tools[i].state = "running" /\ tools[i].state \in Live
  BY DEF ToolErrs, ToolTimesOut, Live
<1>2. \/ ToolAgain(i) /\ tools[i].tries < ToolAttempts
      \/ ToolEnds(i, "failed") \/ ToolEnds(i, "timeout")
  BY DEF ToolErrs, ToolTimesOut
<1> QED BY <1>1, <1>2, AgainKeeps, EndingKeeps DEF ToolFailures

----------------------------------------------------------------------------
\* The plan's tools are invoked; an empty plan has nothing to wait for.
LEMMA GatheringKeeps ==
    ASSUME Contained, Gather
    PROVE  Contained'
<1>1. PICK plan \in Plans :
        /\ tools' = [i \in ToolCalls |->
              IF i[2] = attempt /\ i[3] \in plan THEN [tools[i] EXCEPT !.state = "invoked"] ELSE tools[i]]
        /\ phase' = IF plan = {} THEN "thinking" ELSE "gathering"
  BY DEF Gather
<1>2. phase = "starting" /\ UNCHANGED <<attempt, elapsed, now, calls, age, outcome>>
  BY DEF Gather
<1>3. tools \in [ToolCalls -> Invocation]
  BY DEF Contained, TypeOK, Invocation
<1>4. tools' \in [ToolCalls -> Invocation]
  <2>1. ASSUME NEW i \in ToolCalls PROVE [tools[i] EXCEPT !.state = "invoked"] \in Invocation
    BY <1>3 DEF Invocation, ToolStates, Live
  <2> QED BY <1>1, <1>3, <2>1
<1>5. ASSUME NEW i \in ToolCalls
      PROVE  /\ tools'[i].tries = tools[i].tries
             /\ tools'[i].state = "running" => tools[i].state = "running"
             /\ i[2] # attempt \/ plan = {} => tools'[i] = tools[i]
  BY <1>1, <1>3 DEF Invocation
<1>6. TypeOK'
  BY <1>1, <1>2, <1>4 DEF Contained, TypeOK, Invocation
<1>7. DeniedNeverRuns' /\ RunningIsAllowed'
  BY <1>5 DEF Contained, DeniedNeverRuns, RunningIsAllowed
<1>8. TimeoutLeavesNothing' /\ Undecided' /\ Clocked'
  BY <1>1, <1>2, Constants DEF Contained, TimeoutLeavesNothing, Undecided, Clocked
<1>9. Unstarted'
  <2>1. attempt \in Nat
    BY Constants DEF Contained, TypeOK, Attempts
  <2> QED BY <1>1, <1>2, <1>5, <2>1, CallParts DEF Contained, Unstarted
<1>10. Heard'
  BY <1>1, <1>2, <1>5 DEF Contained, Unstarted, Heard, Live
<1> QED BY <1>6, <1>7, <1>8, <1>9, <1>10 DEF Contained

\* The attempt's timeout cancels what it awaits.
LEMMA TimeoutKeeps ==
    ASSUME Contained, AgentTimesOut
    PROVE  Contained'
<1>1. phase \in {"gathering", "thinking", "calling"} /\ CancelTools /\ Fails("timeout")
      /\ UNCHANGED <<now, age>>
  BY DEF AgentTimesOut
<1>2. tools \in [ToolCalls -> Invocation]
  BY DEF Contained, TypeOK, Invocation
<1>3. ASSUME NEW i \in ToolCalls
      PROVE  /\ [tools[i] EXCEPT !.state = "cancelled"] \in Invocation
             /\ [tools[i] EXCEPT !.state = "cancelled"].state = "cancelled"
             /\ [tools[i] EXCEPT !.state = "cancelled"].tries = tools[i].tries
  BY <1>2 DEF Invocation, ToolStates
<1>4. tools' = [i \in ToolCalls |->
        IF Current(i) /\ tools[i].state \in Live THEN [tools[i] EXCEPT !.state = "cancelled"] ELSE tools[i]]
  BY <1>1 DEF CancelTools
<1>5. tools' \in [ToolCalls -> Invocation]
  BY <1>2, <1>3, <1>4
<1>6. ASSUME NEW i \in ToolCalls
      PROVE  IF Current(i) /\ tools[i].state \in Live
             THEN tools'[i].state = "cancelled" /\ tools'[i].tries = tools[i].tries
             ELSE tools'[i] = tools[i]
  BY <1>3, <1>4
<1>7. Quiet
  BY <1>5, <1>6 DEF Contained, DeniedNeverRuns, RunningIsAllowed, Quiet, Authorized, Live
<1>8. ASSUME NEW i \in ToolCalls, i[2] = attempt PROVE tools'[i].state \notin Live
  BY <1>1, <1>6, <1>8 DEF Contained, Heard, Current, Live
<1> QED BY <1>1, <1>7, <1>8, FailingKeeps

\* Time passes within the attempt's timeout, for the tools left behind as well.
LEMMA TickKeeps ==
    ASSUME Contained, Tick
    PROVE  Contained'
<1>1. tools \in [ToolCalls -> Invocation]
  BY DEF Contained, TypeOK, Invocation
<1>2. ASSUME NEW i \in ToolCalls, tools[i].state = "running"
      PROVE  /\ [tools[i] EXCEPT !.age = tools[i].age + 1] \in Invocation
             /\ [tools[i] EXCEPT !.age = tools[i].age + 1].state = tools[i].state
             /\ [tools[i] EXCEPT !.age = tools[i].age + 1].tries = tools[i].tries
  <2>1. tools[i].age < ToolTimeout
    BY <1>2 DEF Tick
  <2> QED BY <1>1, <2>1, Constants DEF Invocation
<1>3. tools' = [i \in ToolCalls |->
        IF tools[i].state = "running" THEN [tools[i] EXCEPT !.age = tools[i].age + 1] ELSE tools[i]]
  BY DEF Tick
<1>4. tools' \in [ToolCalls -> Invocation]
  BY <1>1, <1>2, <1>3
<1>5. ASSUME NEW i \in ToolCalls
      PROVE  tools'[i].state = tools[i].state /\ tools'[i].tries = tools[i].tries
  BY <1>2, <1>3
<1>6. UNCHANGED <<phase, attempt, calls, outcome>>
  BY DEF Tick
<1>7. /\ phase # "ended" => elapsed < AgentTimeout
      /\ phase = "calling" => age < ProviderCeiling
      /\ elapsed' = IF phase = "ended" THEN elapsed ELSE elapsed + 1
      /\ now' = IF phase = "ended" THEN now ELSE now + 1
      /\ age' = IF phase = "calling" THEN age + 1 ELSE age
  BY DEF Tick
<1>8. TypeOK'
  BY <1>4, <1>6, <1>7, Constants DEF Contained, TypeOK, Invocation
<1>9. DeniedNeverRuns' /\ RunningIsAllowed' /\ TimeoutLeavesNothing' /\ Unstarted' /\ Heard' /\ Undecided'
  BY <1>5, <1>6 DEF Contained, DeniedNeverRuns, RunningIsAllowed, TimeoutLeavesNothing, Unstarted,
                    Heard, Undecided
<1>10. Clocked'
  <2>1. now \in Nat /\ elapsed \in Nat /\ attempt \in Nat
    BY Constants DEF Contained, TypeOK, Attempts
  <2>2. (attempt - 1) * AgentTimeout \in Int
    BY <2>1, Constants
  <2>3. now <= (attempt - 1) * AgentTimeout + elapsed
    BY DEF Contained, Clocked
  <2>4. now' <= (attempt - 1) * AgentTimeout + elapsed'
    BY <1>7, <2>1, <2>2, <2>3
  <2> QED BY <1>6, <2>4 DEF Clocked
<1> QED BY <1>8, <1>9, <1>10 DEF Contained

\* The steps of the run and of its model calls leave the invocations alone.
LEMMA HandlerKeeps ==
    ASSUME Contained, Run \/ CallModel \/ ModelAnswers \/ ModelFails \/ Returns
    PROVE  Contained'
<1>1. /\ calls \in 0 .. MaxCalls /\ age \in 0 .. ProviderCeiling
      /\ phase = "calling" => calls < MaxCalls
  BY DEF Contained, TypeOK, Undecided
<1>2. UNCHANGED tools /\ now' = now
  BY DEF Run, CallModel, ModelAnswers, ModelFails, Returns
<1>3. Quiet
  BY <1>2, StillIsQuiet
<1>4. phase \in {"thinking", "calling"} =>
        \A i \in ToolCalls : i[2] = attempt => tools'[i].state \notin Live
  BY <1>2 DEF Contained, Heard
<1>5. CASE Run
  <2>1. phase = "new" /\ age' = age /\ calls' = calls
    BY <1>5 DEF Run, Settle
  <2>2. \/ phase' = "starting" /\ UNCHANGED <<attempt, elapsed, calls, outcome>>
        \/ Settle("failed")
    BY <1>5 DEF Run
  <2>3. Counted
    BY <1>1, <2>1, <2>2 DEF Counted, Settle
  <2> QED BY <1>2, <1>3, <2>1, <2>2, <2>3, MovingKeeps, SettlingKeeps
<1>6. CASE CallModel
  <2>1. /\ phase = "thinking" /\ calls < MaxCalls /\ phase' = "calling" /\ age' = 0
        /\ UNCHANGED <<attempt, elapsed, now, calls, outcome>>
    BY <1>6 DEF CallModel
  <2>2. Counted
    BY <1>1, <2>1, Constants DEF Counted
  <2> QED BY <1>3, <1>4, <2>1, <2>2, MovingKeeps
<1>7. CASE ModelAnswers
  <2>1. /\ phase = "calling" /\ phase' = "thinking" /\ calls' = calls + 1
        /\ UNCHANGED <<attempt, elapsed, now, age, outcome>>
    BY <1>7 DEF ModelAnswers
  <2>2. Counted
    BY <1>1, <2>1, Constants DEF Counted
  <2> QED BY <1>3, <1>4, <2>1, <2>2, MovingKeeps
<1>8. CASE ModelFails
  <2>1. phase = "calling" /\ age' = age
    BY <1>8 DEF ModelFails
  <2>2. (StartOver /\ attempt < MaxAttempts) \/ Settle("failed")
    BY <1>8 DEF ModelFails, CanRetry
  <2>3. Counted
    BY <1>1, <2>1, <2>2, Constants DEF Counted, StartOver, Settle
  <2> QED BY <1>2, <1>3, <2>1, <2>2, <2>3, RestartKeeps, SettlingKeeps
<1>9. CASE Returns
  <2>1. phase = "thinking" /\ UNCHANGED <<now, age>>
    BY <1>9 DEF Returns
  <2>2. Settle("succeeded") \/ Fails("error")
    BY <1>9 DEF Returns
  <2>3. CASE Settle("succeeded")
    <3>1. Counted
      BY <1>1, <2>1, <2>3 DEF Counted, Settle
    <3> QED BY <1>2, <1>3, <2>3, <3>1, SettlingKeeps
  <2>4. CASE Fails("error")
    BY <1>3, <2>1, <2>4, FailingKeeps
  <2> QED BY <2>2, <2>3, <2>4
<1> QED BY <1>5, <1>6, <1>7, <1>8, <1>9
----------------------------------------------------------------------------
LEMMA ContainedInitially == Init => Contained
<1> SUFFICES ASSUME Init PROVE Contained
  OBVIOUS
<1>1. [state |-> "absent", tries |-> 0, age |-> 0] \in Invocation
  BY Constants DEF Invocation, ToolStates
<1>2. TypeOK
  BY <1>1, Constants DEF Init, TypeOK, Attempts, Invocation
<1>3. DeniedNeverRuns /\ TimeoutLeavesNothing /\ Unstarted /\ Heard /\ RunningIsAllowed /\ Undecided
  BY Constants DEF Init, DeniedNeverRuns, TimeoutLeavesNothing, Unstarted, Heard,
                   RunningIsAllowed, Undecided
<1>4. Clocked
  BY Constants DEF Init, Clocked
<1> QED BY <1>2, <1>3, <1>4 DEF Contained

LEMMA ContainedStep == Contained /\ [Next]_vars => Contained'
<1> SUFFICES ASSUME Contained, [Next]_vars PROVE Contained'
  OBVIOUS
<1>1. CASE Next
  <2>1. CASE \E i \in ToolCalls : InvokeTool(i) \/ ToolTimesOut(i) \/ ToolReturns(i) \/ ToolErrs(i)
    <3> PICK i \in ToolCalls : InvokeTool(i) \/ ToolTimesOut(i) \/ ToolReturns(i) \/ ToolErrs(i)
      BY <2>1
    <3>1. CASE InvokeTool(i)
      BY <3>1, InvokingKeeps
    <3>2. CASE ToolTimesOut(i) \/ ToolErrs(i)
      BY <3>2, ToolFailureKeeps
    <3>3. CASE ToolReturns(i)
      BY <3>3, EndingKeeps DEF ToolReturns, Live
    <3> QED BY <3>1, <3>2, <3>3
  <2>2. CASE Run \/ CallModel \/ ModelAnswers \/ ModelFails \/ Returns
    BY <2>2, HandlerKeeps
  <2>3. CASE ModelTimesOut
    BY <2>3, HandlerKeeps DEF ModelTimesOut
  <2>4. CASE Gather
    BY <2>4, GatheringKeeps
  <2>5. CASE AgentTimesOut
    BY <2>5, TimeoutKeeps
  <2>6. CASE Tick
    BY <2>6, TickKeeps
  <2> QED BY <1>1, <2>1, <2>2, <2>3, <2>4, <2>5, <2>6 DEF Next, Loop
<1>2. CASE UNCHANGED vars
  <2>1. Quiet
    BY <1>2, StillIsQuiet DEF vars
  <2>2. Counted
    BY <1>2 DEF vars, Counted, Contained, TypeOK, Undecided
  <2> QED BY <1>2, <2>1, <2>2, MovingKeeps DEF vars
<1> QED BY <1>1, <1>2

\* What is elapsed of an attempt is within its timeout, so the attempts bound the run.
LEMMA ContainedBounds == Contained => RunIsContained
<1> SUFFICES ASSUME Contained PROVE RunIsContained
  OBVIOUS
<1>1. now \in Nat /\ elapsed \in 0 .. AgentTimeout /\ attempt \in Nat
  BY Constants DEF Contained, TypeOK, Attempts
<1>2. (attempt - 1) * AgentTimeout + AgentTimeout = attempt * AgentTimeout
  BY <1>1, Constants
<1>3. (attempt - 1) * AgentTimeout \in Int /\ attempt * AgentTimeout \in Int
  BY <1>1, Constants
<1>4. RunIsBounded
  BY <1>1, <1>2, <1>3, Constants DEF Contained, Clocked, RunIsBounded
<1> QED BY <1>4 DEF Contained, RunIsContained

\* A run is contained whatever its tools, lists, retries and timeouts: no denied tool is
\* ever run, a timeout leaves nothing of its attempt running, and the run takes at most
\* its attempts' timeouts.
THEOREM RunContained == Spec => []RunIsContained
<1>1. Init => Contained
  BY ContainedInitially
<1>2. Contained /\ [Next]_vars => Contained'
  BY ContainedStep
<1>3. Contained => RunIsContained
  BY ContainedBounds
<1> QED BY <1>1, <1>2, <1>3, PTL DEF Spec

----------------------------------------------------------------------------
\* What a run knows of the tools of its attempts: an attempt that goes on has seen no
\* failure; one that was given up while tools were pending or failing met an input
\* that was refused; and a success stands on tools that all succeeded.
Whole ==
    /\ \A i \in ToolCalls : i[2] = attempt /\ phase # "ended" =>
          \/ tools[i].state \in {"absent", "succeeded"}
          \/ phase = "gathering" /\ tools[i].state \in Live
    /\ \A i \in ToolCalls : i[2] < attempt /\ tools[i].state \in Live \cup ToolFailures =>
          \E j \in ToolCalls : j[2] = i[2] /\ tools[j].state = "invalid"
    /\ outcome = "succeeded" =>
          \A i \in ToolCalls : i[2] = attempt => tools[i].state \in {"absent", "succeeded"}

\* What has come to rest stays as it is.
Forward == \A i \in ToolCalls : tools[i].state \notin Live => tools'[i].state = tools[i].state

\* A refused input, or tools that are all at rest, before another attempt.
LEMMA RestartIsWhole ==
    ASSUME Contained, Whole, Forward, phase # "ended", StartOver,
           \/ \A i \in ToolCalls : i[2] = attempt => tools'[i].state \in {"absent", "succeeded", "cancelled"}
           \/ \E i \in ToolCalls : i[2] = attempt /\ tools'[i].state = "invalid"
    PROVE  Whole'
<1>1. attempt \in Nat /\ outcome = None
  BY Constants DEF Contained, TypeOK, Attempts, Undecided
<1>2. phase' = "starting" /\ attempt' = attempt + 1 /\ outcome' = None
  BY <1>1 DEF StartOver
<1>3. ASSUME NEW i \in ToolCalls, i[2] = attempt + 1 PROVE tools'[i].state = "absent"
  BY <1>1, <1>3, CallParts DEF Contained, Unstarted, Forward, Live
<1>4. ASSUME NEW i \in ToolCalls, i[2] < attempt + 1, tools'[i].state \in Live \cup ToolFailures
      PROVE  \E j \in ToolCalls : j[2] = i[2] /\ tools'[j].state = "invalid"
  <2>1. i[2] \in Nat
    BY CallParts
  <2>2. CASE i[2] = attempt
    BY <1>4, <2>2 DEF Live, ToolFailures
  <2>3. CASE i[2] < attempt
    <3>1. tools[i].state \in Live \cup ToolFailures
      BY <1>4 DEF Forward
    <3>2. PICK j \in ToolCalls : j[2] = i[2] /\ tools[j].state = "invalid"
      BY <2>3, <3>1 DEF Whole
    <3> QED BY <3>2 DEF Forward, Live
  <2> QED BY <1>1, <1>4, <2>1, <2>2, <2>3
<1> QED BY <1>1, <1>2, <1>3, <1>4, Constants DEF Whole

\* Within an attempt, or at its end.
LEMMA StayingIsWhole ==
    ASSUME Contained, Whole, Forward, attempt' = attempt,
           phase' # "ended" => \A i \in ToolCalls : i[2] = attempt =>
               \/ tools'[i].state \in {"absent", "succeeded"}
               \/ phase' = "gathering" /\ tools'[i].state \in Live,
           \/ outcome' = outcome
           \/ outcome' # "succeeded"
           \/ \A i \in ToolCalls : i[2] = attempt => tools[i].state \in {"absent", "succeeded"}
    PROVE  Whole'
<1>1. ASSUME NEW i \in ToolCalls, i[2] < attempt, tools'[i].state \in Live \cup ToolFailures
      PROVE  \E j \in ToolCalls : j[2] = i[2] /\ tools'[j].state = "invalid"
  <2>1. tools[i].state \in Live \cup ToolFailures
    BY <1>1 DEF Forward
  <2>2. PICK j \in ToolCalls : j[2] = i[2] /\ tools[j].state = "invalid"
    BY <1>1, <2>1 DEF Whole
  <2> QED BY <2>2 DEF Forward, Live
<1>2. outcome' = "succeeded" =>
        \A i \in ToolCalls : i[2] = attempt => tools'[i].state \in {"absent", "succeeded"}
  BY DEF Whole, Forward, Live
<1> QED BY <1>1, <1>2 DEF Whole

LEMMA EndingIsWhole ==
    ASSUME Contained, Whole, NEW i \in ToolCalls, NEW s \in ToolFailures \cup {"succeeded"},
           tools[i].state \in Live, ToolEnds(i, s)
    PROVE  Whole'
<1>1. tools \in [ToolCalls -> Invocation] /\ attempt \in Nat
  BY Constants DEF Contained, TypeOK, Invocation, Attempts
<1>2. \A j \in ToolCalls : tools'[j].state = IF j = i THEN s ELSE tools[j].state
  BY <1>1 DEF ToolEnds, Invocation
<1>3. Forward
  BY <1>2 DEF Forward
<1>4. CASE Current(i) /\ s \in ToolFailures /\ CanRetry(ReasonOf(s))
  <2>1. s = "invalid"
    <3>1. ReasonOf(s) \in {"timeout", "error"}
      BY <1>4, RuntimeConstants DEF CanRetry
    <3>2. s # "invalid" => ReasonOf(s) \in {"denied", "framework"}
      BY <1>4 DEF ReasonOf, ToolFailures
    <3> QED BY <3>1, <3>2
  <2>2. StartOver /\ phase = "gathering" /\ i[2] = attempt
    BY <1>4 DEF ToolEnds, Current
  <2> QED BY <1>2, <1>3, <2>1, <2>2, RestartIsWhole
<1>5. CASE Current(i) /\ s \in ToolFailures /\ ~ CanRetry(ReasonOf(s))
  <2>1. Settle(TraceOf(ReasonOf(s)))
    BY <1>5 DEF ToolEnds
  <2>2. TraceOf(ReasonOf(s)) # "succeeded"
    BY <1>5, FailureOutcome
  <2>3. attempt' = attempt /\ phase' = "ended" /\ outcome' # "succeeded"
    BY <2>1, <2>2 DEF Settle
  <2> QED BY <1>3, <2>3, StayingIsWhole
<1>6. CASE ~ (Current(i) /\ s \in ToolFailures)
  <2>1. /\ phase' = IF Current(i) /\ \A j \in Siblings(i) : tools[j].state = "succeeded"
                    THEN "thinking" ELSE phase
        /\ attempt' = attempt /\ outcome' = outcome
    BY <1>6 DEF ToolEnds
  <2>2. ASSUME phase' # "ended", NEW j \in ToolCalls, j[2] = attempt
        PROVE  \/ tools'[j].state \in {"absent", "succeeded"}
               \/ phase' = "gathering" /\ tools'[j].state \in Live
    <3>1. phase # "ended"
      BY <2>1, <2>2 DEF Current
    <3>2. CASE j = i
      <4>1. phase = "gathering"
        BY <2>2, <3>1, <3>2 DEF Whole, Live
      <4> QED BY <1>2, <1>6, <2>2, <3>2, <4>1 DEF Current
    <3>3. CASE j # i /\ Current(i) /\ \A k \in Siblings(i) : tools[k].state = "succeeded"
      BY <1>2, <2>2, <3>3 DEF Siblings, Current
    <3>4. CASE j # i /\ ~ (Current(i) /\ \A k \in Siblings(i) : tools[k].state = "succeeded")
      BY <1>2, <2>1, <2>2, <3>1, <3>4 DEF Whole
    <3> QED BY <3>2, <3>3, <3>4
  <2> QED BY <1>3, <2>1, <2>2, StayingIsWhole
<1> QED BY <1>4, <1>5, <1>6

\* Tools that go on running change nothing of this.
LEMMA SameStatesAreWhole ==
    ASSUME Contained, Whole, phase' = phase, attempt' = attempt, outcome' = outcome,
           \A j \in ToolCalls :
              tools'[j].state = tools[j].state \/ {tools[j].state, tools'[j].state} \subseteq Live
    PROVE  Whole'
<1>1. Forward
  BY DEF Forward
<1>2. phase' # "ended" => \A i \in ToolCalls : i[2] = attempt =>
        \/ tools'[i].state \in {"absent", "succeeded"}
        \/ phase' = "gathering" /\ tools'[i].state \in Live
  BY DEF Whole, Live
<1> QED BY <1>1, <1>2, StayingIsWhole

LEMMA WholeStep == Contained /\ Whole /\ [Next]_vars => Whole'
<1> SUFFICES ASSUME Contained, Whole, [Next]_vars PROVE Whole'
  OBVIOUS
<1>1. tools \in [ToolCalls -> Invocation]
  BY DEF Contained, TypeOK, Invocation
<1>2. phase \in {"thinking", "calling"} =>
        \A i \in ToolCalls : i[2] = attempt => tools[i].state \in {"absent", "succeeded"}
  BY DEF Whole
<1>3. ASSUME UNCHANGED tools PROVE Forward
  BY <1>3 DEF Forward
<1>4. ASSUME NEW i \in ToolCalls, InvokeTool(i) PROVE Whole'
  <2>1. tools[i].state \in Live
    BY <1>4 DEF InvokeTool, Live
  <2>2. CASE ToolEnds(i, "missing") \/ ToolEnds(i, "denied") \/ ToolEnds(i, "invalid")
    BY <2>1, <2>2, EndingIsWhole DEF ToolFailures
  <2>3. CASE /\ tools' = [tools EXCEPT ![i] = [state |-> "running", tries |-> 1, age |-> 0]]
             /\ UNCHANGED <<phase, attempt, elapsed, now, calls, age, outcome, traces>>
    <3>1. \A j \in ToolCalls :
            tools'[j].state = tools[j].state \/ {tools[j].state, tools'[j].state} \subseteq Live
      BY <1>1, <2>1, <2>3 DEF Live
    <3>2. phase' = phase /\ attempt' = attempt /\ outcome' = outcome
      BY <2>3
    <3> QED BY <3>1, <3>2, SameStatesAreWhole
  <2> QED BY <1>4, <2>2, <2>3 DEF InvokeTool
<1>5. ASSUME NEW i \in ToolCalls, ToolReturns(i) \/ ToolErrs(i) \/ ToolTimesOut(i) PROVE Whole'
  <2>1. tools[i].state \in Live
    BY <1>5 DEF ToolReturns, ToolErrs, ToolTimesOut, Live
  <2>2. ToolAgain(i) \/ ToolEnds(i, "succeeded") \/ ToolEnds(i, "failed") \/ ToolEnds(i, "timeout")
    BY <1>5 DEF ToolReturns, ToolErrs, ToolTimesOut
  <2>3. CASE ToolAgain(i)
    <3>1. \A j \in ToolCalls : tools'[j].state = tools[j].state
      BY <1>1, <2>3 DEF ToolAgain, Invocation
    <3>2. phase' = phase /\ attempt' = attempt /\ outcome' = outcome
      BY <2>3 DEF ToolAgain
    <3> QED BY <3>1, <3>2, SameStatesAreWhole
  <2> QED BY <2>1, <2>2, <2>3, EndingIsWhole DEF ToolFailures
<1>6. CASE Run
  <2>1. UNCHANGED tools /\ attempt' = attempt /\ phase = "new"
    BY <1>6 DEF Run, Settle
  <2>2. (phase' = "starting" /\ outcome' = outcome) \/ (phase' = "ended" /\ outcome' = "failed")
    BY <1>6 DEF Run, Settle
  <2>3. \A i \in ToolCalls : i[2] = attempt => tools'[i].state \in {"absent", "succeeded"}
    BY <2>1 DEF Whole
  <2> QED BY <1>3, <2>1, <2>2, <2>3, StayingIsWhole
<1>7. CASE Gather
  <2>1. PICK plan \in Plans :
          /\ tools' = [i \in ToolCalls |->
                IF i[2] = attempt /\ i[3] \in plan THEN [tools[i] EXCEPT !.state = "invoked"] ELSE tools[i]]
          /\ phase' = IF plan = {} THEN "thinking" ELSE "gathering"
    BY <1>7 DEF Gather
  <2>2. phase = "starting" /\ attempt' = attempt /\ outcome' = outcome /\ outcome = None
    BY <1>7 DEF Gather, Contained, Undecided
  <2>3. ASSUME NEW i \in ToolCalls
        PROVE  /\ i[2] # attempt => tools'[i] = tools[i]
               /\ tools'[i].state = IF i[2] = attempt /\ i[3] \in plan THEN "invoked" ELSE tools[i].state
    BY <1>1, <2>1 DEF Invocation
  <2>4. ASSUME NEW i \in ToolCalls, i[2] = attempt
        PROVE  \/ tools'[i].state \in {"absent", "succeeded"}
               \/ phase' = "gathering" /\ tools'[i].state \in Live
    BY <2>1, <2>2, <2>3, <2>4 DEF Whole, Live
  <2>5. ASSUME NEW i \in ToolCalls, i[2] < attempt, tools'[i].state \in Live \cup ToolFailures
        PROVE  \E j \in ToolCalls : j[2] = i[2] /\ tools'[j].state = "invalid"
    <3>1. attempt \in Nat /\ i[2] \in Nat
      BY CallParts, Constants DEF Contained, TypeOK, Attempts
    <3>2. tools'[i] = tools[i]
      BY <2>3, <2>5, <3>1
    <3>3. PICK j \in ToolCalls : j[2] = i[2] /\ tools[j].state = "invalid"
      BY <2>5, <3>2 DEF Whole
    <3>4. tools'[j] = tools[j]
      BY <2>3, <2>5, <3>1, <3>3
    <3> QED BY <3>3, <3>4
  <2> QED BY <2>2, <2>4, <2>5, Constants DEF Whole
<1>8. CASE CallModel \/ ModelAnswers
  <2>1. /\ UNCHANGED <<tools, attempt, outcome>>
        /\ phase \in {"thinking", "calling"} /\ phase' \in {"thinking", "calling"}
    BY <1>8 DEF CallModel, ModelAnswers
  <2> QED BY <1>2, <1>3, <2>1, StayingIsWhole
<1>9. CASE ModelFails \/ Returns
  <2>1. UNCHANGED tools /\ phase \in {"thinking", "calling"}
    BY <1>9 DEF ModelFails, Returns
  <2>2. StartOver \/ Settle("failed") \/ Settle("succeeded")
    <3>1. TraceOf("error") = "failed"
      BY DEF TraceOf
    <3> QED BY <1>9, <3>1 DEF ModelFails, Returns, Fails
  <2>3. CASE StartOver
    BY <1>2, <1>3, <2>1, <2>3, RestartIsWhole
  <2>4. CASE Settle("failed") \/ Settle("succeeded")
    <3>1. attempt' = attempt /\ phase' = "ended"
      BY <2>4 DEF Settle
    <3> QED BY <1>2, <1>3, <2>1, <3>1, StayingIsWhole
  <2> QED BY <2>2, <2>3, <2>4
<1>10. CASE AgentTimesOut
  <2>1. phase \in {"gathering", "thinking", "calling"}
    BY <1>10 DEF AgentTimesOut
  <2>2. \A i \in ToolCalls :
          tools'[i].state = IF Current(i) /\ tools[i].state \in Live THEN "cancelled" ELSE tools[i].state
    BY <1>1, <1>10 DEF AgentTimesOut, CancelTools, Invocation
  <2>3. Forward
    BY <2>2 DEF Forward
  <2>4. \A i \in ToolCalls : i[2] = attempt => tools'[i].state \in {"absent", "succeeded", "cancelled"}
    BY <2>1, <2>2 DEF Whole, Current
  <2>5. StartOver \/ Settle("timeout")
    <3>1. TraceOf("timeout") = "timeout"
      BY DEF TraceOf
    <3> QED BY <1>10, <3>1 DEF AgentTimesOut, Fails
  <2>6. CASE StartOver
    BY <2>1, <2>3, <2>4, <2>6, RestartIsWhole
  <2>7. CASE Settle("timeout")
    <3>1. attempt' = attempt /\ phase' = "ended" /\ outcome' # "succeeded"
      BY <2>7 DEF Settle
    <3> QED BY <2>3, <3>1, StayingIsWhole
  <2> QED BY <2>5, <2>6, <2>7
<1>11. CASE Tick
  <2>1. \A j \in ToolCalls : tools'[j].state = tools[j].state
    BY <1>1, <1>11 DEF Tick, Invocation
  <2>2. phase' = phase /\ attempt' = attempt /\ outcome' = outcome
    BY <1>11 DEF Tick
  <2> QED BY <2>1, <2>2, SameStatesAreWhole
<1>12. CASE UNCHANGED vars
  <2>1. tools' = tools /\ phase' = phase /\ attempt' = attempt /\ outcome' = outcome
    BY <1>12 DEF vars
  <2> QED BY <2>1, SameStatesAreWhole
<1> QED
  BY <1>4, <1>5, <1>6, <1>7, <1>8, <1>9, <1>10, <1>11, <1>12 DEF Next, Loop, ModelTimesOut

----------------------------------------------------------------------------
Ids == {Agent} \cup ToolCalls \cup ModelCalls

ToolTold(i) ==
    IF tools[i].state \in {"absent", "cancelled"} \cup Live THEN traces[i] = <<>>
    ELSE traces[i] \in {<<TraceOf(tools[i].state)>>, <<"lost">>}
AgentTold == IF phase = "ended" THEN traces[Agent] \in {<<outcome>>, <<"lost">>} ELSE traces[Agent] = <<>>

\* A model call has no trace before it is made, and one at most afterwards.
CallTold(a, n) ==
    /\ traces[ModelCall(a, n)] = <<>> \/ \E x : traces[ModelCall(a, n)] = <<x>>
    /\ a > attempt \/ (a = attempt /\ n > calls /\ phase # "ended") => traces[ModelCall(a, n)] = <<>>

Told ==
    /\ DOMAIN traces = Ids
    /\ \A i \in ToolCalls : ToolTold(i)
    /\ AgentTold
    /\ \A a \in Attempts, n \in 1 .. MaxCalls : CallTold(a, n)

\* The three kinds of identifiers are apart, and a model call's is its own.
LEMMA IdsApart ==
    /\ Agent \notin ToolCalls /\ Agent \notin ModelCalls
    /\ \A i \in ToolCalls : i \notin ModelCalls /\ i # Agent
    /\ \A a \in Attempts, n \in 1 .. MaxCalls : ModelCall(a, n) \in ModelCalls
    /\ \A a \in Attempts, n \in 1 .. MaxCalls : ModelCall(a, n) # Agent /\ ModelCall(a, n) \notin ToolCalls
    /\ \A a, b \in Attempts, m, n \in 1 .. MaxCalls : ModelCall(a, m) = ModelCall(b, n) => a = b /\ m = n
<1>1. /\ Agent \notin ToolCalls /\ Agent \notin ModelCalls
      /\ \A i \in ToolCalls : i \notin ModelCalls /\ i # Agent
  BY DEF Agent, ToolCalls, ToolCall, ModelCalls, ModelCall
<1>2. \A a \in Attempts, n \in 1 .. MaxCalls : ModelCall(a, n) \in ModelCalls
  BY DEF ModelCalls
<1>3. \A a, b \in Attempts, m, n \in 1 .. MaxCalls : ModelCall(a, m) = ModelCall(b, n) => a = b /\ m = n
  BY DEF ModelCall
<1> QED BY <1>1, <1>2, <1>3

LEMMA AppendToEmpty == \A x : Append(<<>>, x) = <<x>>
OBVIOUS

\* What Record writes, and where.
LEMMA Recorded ==
    ASSUME NEW j, NEW status, DOMAIN traces = Ids, j \in Ids, traces[j] = <<>>, Record({j}, status)
    PROVE  /\ DOMAIN traces' = Ids
           /\ traces'[j] \in {<<status>>, <<"lost">>}
           /\ \A k \in Ids : k # j => traces'[k] = traces[k]
BY AppendToEmpty DEF Record

\* Two traces at once: of what failed, and of the run it ended.
LEMMA RecordedBoth ==
    ASSUME NEW j, NEW first, NEW second, DOMAIN traces = Ids, j \in Ids, j # Agent,
           traces[j] = <<>>, traces[Agent] = <<>>,
           \E kept \in {first, "lost"}, mine \in {second, "lost"} :
              traces' = [traces EXCEPT ![j] = Append(@, kept), ![Agent] = Append(@, mine)]
    PROVE  /\ DOMAIN traces' = Ids
           /\ traces'[j] \in {<<first>>, <<"lost">>}
           /\ traces'[Agent] \in {<<second>>, <<"lost">>}
           /\ \A k \in Ids : k \notin {j, Agent} => traces'[k] = traces[k]
<1>1. PICK kept \in {first, "lost"}, mine \in {second, "lost"} :
        traces' = [traces EXCEPT ![j] = Append(@, kept), ![Agent] = Append(@, mine)]
  OBVIOUS
<1>2. Agent \in Ids
  BY DEF Ids
<1>3. traces' = [[traces EXCEPT ![j] = Append(traces[j], kept)] EXCEPT ![Agent] = Append(traces[Agent], mine)]
  BY <1>1
<1>4. traces'[j] = Append(traces[j], kept) /\ traces'[Agent] = Append(traces[Agent], mine)
  BY <1>2, <1>3
<1> QED BY <1>2, <1>3, <1>4, AppendToEmpty

LEMMA ToolsAsBefore ==
    ASSUME Told, \A i \in ToolCalls : traces'[i] = traces[i],
           \A i \in ToolCalls : \/ tools'[i].state = tools[i].state
                                \/ {tools[i].state, tools'[i].state} \subseteq {"absent", "cancelled"} \cup Live
    PROVE  \A i \in ToolCalls : ToolTold(i)'
BY DEF Told, ToolTold

LEMMA CallsAsBefore ==
    ASSUME Told, \A i \in ModelCalls : traces'[i] = traces[i],
           attempt \in Nat, calls \in Nat,
           \/ StartOver
           \/ attempt' = attempt /\ calls' = calls /\ (phase = "ended" => phase' = "ended")
    PROVE  \A a \in Attempts, n \in 1 .. MaxCalls : CallTold(a, n)'
<1> SUFFICES ASSUME NEW a \in Attempts, NEW n \in 1 .. MaxCalls PROVE CallTold(a, n)'
  OBVIOUS
<1>1. a \in Nat /\ n \in Nat
  BY Constants DEF Attempts
<1>2. traces'[ModelCall(a, n)] = traces[ModelCall(a, n)]
  BY IdsApart
<1>3. a > attempt' \/ (a = attempt' /\ n > calls' /\ phase' # "ended") =>
        a > attempt \/ (a = attempt /\ n > calls /\ phase # "ended")
  BY <1>1 DEF StartOver
<1>4. CallTold(a, n)
  BY DEF Told
<1>5. ModelCall(a, n)' = ModelCall(a, n)
  BY DEF ModelCall
<1> QED BY <1>2, <1>3, <1>4, <1>5 DEF CallTold

LEMMA EndingIsTold ==
    ASSUME Contained, Told, NEW i \in ToolCalls, NEW s \in ToolFailures \cup {"succeeded"},
           tools[i].state \in Live, ToolEnds(i, s)
    PROVE  Told'
<1>1. tools \in [ToolCalls -> Invocation] /\ attempt \in Nat /\ calls \in Nat
  BY Constants DEF Contained, TypeOK, Invocation, Attempts
<1>2. \A j \in ToolCalls : tools'[j].state = IF j = i THEN s ELSE tools[j].state
  BY <1>1 DEF ToolEnds, Invocation
<1>3. DOMAIN traces = Ids /\ traces[i] = <<>> /\ i \in Ids /\ Agent \in Ids /\ i # Agent
  BY IdsApart DEF Told, ToolTold, Ids
<1>4. s \notin {"absent", "cancelled"} \cup Live
  BY DEF ToolFailures, Live
<1>5. ASSUME traces'[i] \in {<<TraceOf(s)>>, <<"lost">>},
             \A k \in Ids : k \notin {i, Agent} => traces'[k] = traces[k]
      PROVE  /\ \A j \in ToolCalls : ToolTold(j)'
             /\ \A j \in ModelCalls : traces'[j] = traces[j]
  <2>1. ASSUME NEW j \in ToolCalls PROVE ToolTold(j)'
    <3>1. CASE j = i
      BY <1>2, <1>4, <1>5, <3>1 DEF ToolTold
    <3>2. CASE j # i
      <4>1. traces'[j] = traces[j] /\ tools'[j].state = tools[j].state
        BY <1>2, <1>5, <3>2, IdsApart DEF Ids
      <4> QED BY <4>1 DEF Told, ToolTold
    <3> QED BY <3>1, <3>2
  <2> QED BY <1>5, <2>1, IdsApart DEF Ids
<1>6. CASE Current(i) /\ s \in ToolFailures /\ ~ CanRetry(ReasonOf(s))
  <2>1. Settle(TraceOf(ReasonOf(s))) /\ phase = "gathering"
    BY <1>6 DEF ToolEnds, Current
  <2>2. traces[Agent] = <<>>
    BY <2>1 DEF Told, AgentTold
  <2>3. \E kept \in {TraceOf(s), "lost"}, mine \in {TraceOf(ReasonOf(s)), "lost"} :
          traces' = [traces EXCEPT ![i] = Append(@, kept), ![Agent] = Append(@, mine)]
    BY <1>6 DEF ToolEnds
  <2>4. /\ DOMAIN traces' = Ids
        /\ traces'[i] \in {<<TraceOf(s)>>, <<"lost">>}
        /\ traces'[Agent] \in {<<TraceOf(ReasonOf(s))>>, <<"lost">>}
        /\ \A k \in Ids : k \notin {i, Agent} => traces'[k] = traces[k]
    BY <1>3, <2>2, <2>3, RecordedBoth
  <2>5. AgentTold'
    BY <2>1, <2>4 DEF AgentTold, Settle, Agent
  <2>6. attempt' = attempt /\ calls' = calls /\ phase' = "ended"
    BY <2>1 DEF Settle
  <2> QED BY <1>1, <1>5, <2>4, <2>5, <2>6, CallsAsBefore DEF Told, Ids
<1>7. CASE ~ (Current(i) /\ s \in ToolFailures /\ ~ CanRetry(ReasonOf(s)))
  <2>1. Record({i}, TraceOf(s))
    BY <1>7 DEF ToolEnds
  <2>2. /\ DOMAIN traces' = Ids
        /\ traces'[i] \in {<<TraceOf(s)>>, <<"lost">>}
        /\ \A k \in Ids : k # i => traces'[k] = traces[k]
    BY <1>3, <2>1, Recorded
  <2>3. \/ StartOver /\ phase = "gathering"
        \/ /\ attempt' = attempt /\ calls' = calls /\ outcome' = outcome
           /\ phase' = phase \/ (phase = "gathering" /\ phase' = "thinking")
    BY <1>7 DEF ToolEnds, Current
  <2>4. AgentTold'
    BY <1>3, <2>2, <2>3 DEF Told, AgentTold, StartOver, Agent
  <2>5. \A a \in Attempts, n \in 1 .. MaxCalls : CallTold(a, n)'
    BY <1>1, <1>5, <2>2, <2>3, CallsAsBefore
  <2> QED BY <1>5, <2>2, <2>4, <2>5 DEF Told, Ids
<1> QED BY <1>6, <1>7

\* Steps that write no trace and do not end the run.
LEMMA SilentIsTold ==
    ASSUME Contained, Told, traces' = traces, phase # "ended" => phase' # "ended",
           \/ StartOver /\ phase # "ended"
           \/ /\ attempt' = attempt /\ calls' = calls /\ outcome' = outcome
              /\ phase = "ended" => phase' = "ended",
           \A i \in ToolCalls : \/ tools'[i].state = tools[i].state
                                \/ {tools[i].state, tools'[i].state} \subseteq {"absent", "cancelled"} \cup Live
    PROVE  Told'
<1>1. attempt \in Nat /\ calls \in Nat
  BY Constants DEF Contained, TypeOK, Attempts
<1>2. \A i \in ToolCalls : ToolTold(i)'
  BY ToolsAsBefore
<1>3. \A a \in Attempts, n \in 1 .. MaxCalls : CallTold(a, n)'
  BY <1>1, CallsAsBefore
<1>4. AgentTold'
  BY DEF Told, AgentTold, StartOver, Agent
<1>5. DOMAIN traces' = Ids'
  BY DEF Told, Ids, Agent, ToolCalls, ToolCall, ModelCalls, ModelCall, Attempts
<1> QED BY <1>2, <1>3, <1>4, <1>5 DEF Told

\* The run ends with its own trace; its tools are cancelled at most.
LEMMA SettlingIsTold ==
    ASSUME Contained, Told, phase # "ended", NEW s, Settle(s), Record({Agent}, s),
           \A i \in ToolCalls : \/ tools'[i].state = tools[i].state
                                \/ {tools[i].state, tools'[i].state} \subseteq {"absent", "cancelled"} \cup Live
    PROVE  Told'
<1>1. attempt \in Nat /\ calls \in Nat
  BY Constants DEF Contained, TypeOK, Attempts
<1>2. DOMAIN traces = Ids /\ traces[Agent] = <<>> /\ Agent \in Ids
  BY DEF Told, AgentTold, Ids
<1>3. /\ DOMAIN traces' = Ids
      /\ traces'[Agent] \in {<<s>>, <<"lost">>}
      /\ \A k \in Ids : k # Agent => traces'[k] = traces[k]
  BY <1>2, Recorded
<1>4. /\ \A i \in ToolCalls : traces'[i] = traces[i]
      /\ \A i \in ModelCalls : traces'[i] = traces[i]
  BY <1>3, IdsApart DEF Ids
<1>5. phase' = "ended" /\ outcome' = s /\ attempt' = attempt /\ calls' = calls
  BY DEF Settle
<1>6. \A i \in ToolCalls : ToolTold(i)'
  BY <1>4, ToolsAsBefore
<1>7. \A a \in Attempts, n \in 1 .. MaxCalls : CallTold(a, n)'
  BY <1>1, <1>4, <1>5, CallsAsBefore
<1>8. AgentTold'
  BY <1>3, <1>5 DEF AgentTold, Agent
<1> QED BY <1>3, <1>6, <1>7, <1>8 DEF Told, Ids

LEMMA FailingIsTold ==
    ASSUME Contained, Told, phase # "ended", NEW reason, Fails(reason),
           \A i \in ToolCalls : \/ tools'[i].state = tools[i].state
                                \/ {tools[i].state, tools'[i].state} \subseteq {"absent", "cancelled"} \cup Live
    PROVE  Told'
<1>1. CASE CanRetry(reason)
  <2>1. StartOver /\ traces' = traces /\ phase' = "starting"
    BY <1>1 DEF Fails, StartOver
  <2> QED BY <2>1, SilentIsTold
<1>2. CASE ~ CanRetry(reason)
  <2>1. Settle(TraceOf(reason)) /\ Record({Agent}, TraceOf(reason))
    BY <1>2 DEF Fails
  <2> QED BY <2>1, SettlingIsTold
<1> QED BY <1>1, <1>2

\* A model call is traced once, before or with the end of the run.
LEMMA CallIsTold ==
    ASSUME Contained, Told, ModelAnswers \/ ModelFails
    PROVE  Told'
<1> DEFINE m == ModelCall(attempt, calls + 1)
<1>1. /\ attempt \in Attempts /\ attempt \in Nat /\ calls \in Nat /\ calls + 1 \in 1 .. MaxCalls
      /\ phase = "calling"
  BY Constants DEF Contained, TypeOK, Attempts, Undecided, ModelAnswers, ModelFails
<1>2. m \in ModelCalls /\ m \in Ids /\ m # Agent /\ m \notin ToolCalls /\ Agent \in Ids
  BY <1>1, IdsApart DEF Ids
<1>3. DOMAIN traces = Ids /\ traces[m] = <<>> /\ traces[Agent] = <<>>
  BY <1>1 DEF Told, AgentTold, CallTold
<1>4. UNCHANGED tools
  BY DEF ModelAnswers, ModelFails
<1>5. ASSUME traces'[m] = <<>> \/ \E x : traces'[m] = <<x>>,
             \A k \in Ids : k \notin {m, Agent} => traces'[k] = traces[k],
             \/ StartOver
             \/ attempt' = attempt /\ calls' = calls + 1
             \/ attempt' = attempt /\ phase' = "ended"
      PROVE  /\ \A i \in ToolCalls : ToolTold(i)'
             /\ \A a \in Attempts, n \in 1 .. MaxCalls : CallTold(a, n)'
  <2>1. \A i \in ToolCalls : traces'[i] = traces[i]
    BY <1>2, <1>5, IdsApart DEF Ids
  <2>2. \A i \in ToolCalls : ToolTold(i)'
    BY <1>4, <2>1, ToolsAsBefore
  <2>3. ASSUME NEW a \in Attempts, NEW n \in 1 .. MaxCalls PROVE CallTold(a, n)'
    <3>1. a \in Nat /\ n \in Nat /\ ModelCall(a, n)' = ModelCall(a, n)
      BY Constants DEF Attempts, ModelCall
    <3>2. CASE ModelCall(a, n) = m
      <4>1. a = attempt /\ n = calls + 1
        BY <1>1, <3>2, IdsApart
      <4>2. ~ (a > attempt' \/ (a = attempt' /\ n > calls' /\ phase' # "ended"))
        BY <1>1, <1>5, <4>1 DEF StartOver
      <4>3. traces'[ModelCall(a, n)] = <<>> \/ \E x : traces'[ModelCall(a, n)] = <<x>>
        BY <1>5, <3>2
      <4> QED BY <3>1, <4>2, <4>3 DEF CallTold
    <3>3. CASE ModelCall(a, n) # m
      <4>1. traces'[ModelCall(a, n)] = traces[ModelCall(a, n)]
        BY <1>5, <3>3, IdsApart DEF Ids
      <4>2. a > attempt' \/ (a = attempt' /\ n > calls' /\ phase' # "ended") =>
              a > attempt \/ (a = attempt /\ n > calls /\ phase # "ended")
        BY <1>1, <1>5, <3>1 DEF StartOver
      <4>3. CallTold(a, n)
        BY DEF Told
      <4> HIDE DEF m
      <4> QED BY <3>1, <4>1, <4>2, <4>3 DEF CallTold
    <3> QED BY <3>2, <3>3
  <2> QED BY <2>2, <2>3
<1>6. CASE ModelAnswers \/ CanRetry("error")
  <2>1. \E status : Record({m}, status)
    BY <1>6 DEF ModelAnswers, ModelFails
  <2>2. /\ DOMAIN traces' = Ids
        /\ \E x : traces'[m] = <<x>>
        /\ \A k \in Ids : k # m => traces'[k] = traces[k]
    <3> HIDE DEF m
    <3> QED BY <1>2, <1>3, <2>1, Recorded
  <2>3. /\ StartOver \/ (attempt' = attempt /\ calls' = calls + 1)
        /\ phase' # "ended"
    BY <1>6 DEF ModelAnswers, ModelFails, StartOver
  <2>4. AgentTold'
    <3>1. traces'[Agent] = <<>>
      BY <1>2, <1>3, <2>2
    <3> QED BY <2>3, <3>1 DEF AgentTold, Agent
  <2>5. /\ \A i \in ToolCalls : ToolTold(i)'
        /\ \A a \in Attempts, n \in 1 .. MaxCalls : CallTold(a, n)'
    <3> HIDE DEF m
    <3> QED BY <1>5, <2>2, <2>3
  <2> QED BY <2>2, <2>4, <2>5 DEF Told, Ids
<1>7. CASE ModelFails /\ ~ CanRetry("error")
  <2>1. Settle("failed")
    BY <1>7 DEF ModelFails
  <2>2. \E kept \in {"failed", "lost"}, mine \in {"failed", "lost"} :
          traces' = [traces EXCEPT ![m] = Append(@, kept), ![Agent] = Append(@, mine)]
    BY <1>7 DEF ModelFails
  <2>3. /\ DOMAIN traces' = Ids
        /\ traces'[m] \in {<<"failed">>, <<"lost">>}
        /\ traces'[Agent] \in {<<"failed">>, <<"lost">>}
        /\ \A k \in Ids : k \notin {m, Agent} => traces'[k] = traces[k]
    <3> HIDE DEF m
    <3> QED BY <1>2, <1>3, <2>2, RecordedBoth
  <2>4. phase' = "ended" /\ outcome' = "failed" /\ attempt' = attempt
    BY <2>1 DEF Settle
  <2>5. AgentTold'
    BY <2>3, <2>4 DEF AgentTold, Agent
  <2>6. /\ \A i \in ToolCalls : ToolTold(i)'
        /\ \A a \in Attempts, n \in 1 .. MaxCalls : CallTold(a, n)'
    <3> HIDE DEF m
    <3> QED BY <1>5, <2>3, <2>4
  <2> QED BY <2>3, <2>5, <2>6 DEF Told, Ids
<1> QED BY <1>6, <1>7

LEMMA ToldStep == Contained /\ Told /\ [Next]_vars => Told'
<1> SUFFICES ASSUME Contained, Told, [Next]_vars PROVE Told'
  OBVIOUS
<1> DEFINE Gentle == \A i \in ToolCalls :
                       \/ tools'[i].state = tools[i].state
                       \/ {tools[i].state, tools'[i].state} \subseteq {"absent", "cancelled"} \cup Live
<1>1. tools \in [ToolCalls -> Invocation]
  BY DEF Contained, TypeOK, Invocation
<1>2. ASSUME NEW i \in ToolCalls, InvokeTool(i) PROVE Told'
  <2>1. tools[i].state \in Live
    BY <1>2 DEF InvokeTool, Live
  <2>2. CASE ToolEnds(i, "missing") \/ ToolEnds(i, "denied") \/ ToolEnds(i, "invalid")
    BY <2>1, <2>2, EndingIsTold DEF ToolFailures
  <2>3. CASE /\ tools' = [tools EXCEPT ![i] = [state |-> "running", tries |-> 1, age |-> 0]]
             /\ UNCHANGED <<phase, attempt, elapsed, now, calls, age, outcome, traces>>
    <3>1. Gentle
      BY <1>1, <2>1, <2>3 DEF Live
    <3>2. UNCHANGED <<phase, attempt, calls, outcome, traces>>
      BY <2>3
    <3> QED BY <3>1, <3>2, SilentIsTold
  <2> QED BY <1>2, <2>2, <2>3 DEF InvokeTool
<1>3. ASSUME NEW i \in ToolCalls, ToolReturns(i) \/ ToolErrs(i) \/ ToolTimesOut(i) PROVE Told'
  <2>1. tools[i].state \in Live
    BY <1>3 DEF ToolReturns, ToolErrs, ToolTimesOut, Live
  <2>2. ToolAgain(i) \/ ToolEnds(i, "succeeded") \/ ToolEnds(i, "failed") \/ ToolEnds(i, "timeout")
    BY <1>3 DEF ToolReturns, ToolErrs, ToolTimesOut
  <2>3. CASE ToolAgain(i)
    <3>1. Gentle
      BY <1>1, <2>3 DEF ToolAgain, Invocation
    <3>2. UNCHANGED <<phase, attempt, calls, outcome, traces>>
      BY <2>3 DEF ToolAgain
    <3> QED BY <3>1, <3>2, SilentIsTold
  <2> QED BY <2>1, <2>2, <2>3, EndingIsTold DEF ToolFailures
<1>4. CASE Run
  <2>1. Gentle /\ phase = "new"
    BY <1>4 DEF Run
  <2>2. \/ phase' = "starting" /\ UNCHANGED <<attempt, calls, outcome, traces>>
        \/ Settle("failed") /\ Record({Agent}, "failed")
    BY <1>4 DEF Run
  <2> QED BY <2>1, <2>2, SilentIsTold, SettlingIsTold
<1>5. CASE Gather
  <2>1. PICK plan \in Plans :
          /\ tools' = [i \in ToolCalls |->
                IF i[2] = attempt /\ i[3] \in plan THEN [tools[i] EXCEPT !.state = "invoked"] ELSE tools[i]]
          /\ phase' = IF plan = {} THEN "thinking" ELSE "gathering"
    BY <1>5 DEF Gather
  <2>2. phase = "starting" /\ UNCHANGED <<attempt, calls, outcome, traces>>
    BY <1>5 DEF Gather
  <2>3. ASSUME NEW i \in ToolCalls
        PROVE  tools'[i].state = IF i[2] = attempt /\ i[3] \in plan THEN "invoked" ELSE tools[i].state
    BY <1>1, <2>1 DEF Invocation
  <2>4. \A i \in ToolCalls : i[2] = attempt => tools[i].state = "absent"
    BY <2>2 DEF Contained, Unstarted
  <2>5. Gentle
    BY <2>3, <2>4 DEF Live
  <2> QED BY <2>1, <2>2, <2>5, SilentIsTold
<1>6. CASE CallModel
  <2>1. /\ Gentle /\ phase = "thinking" /\ phase' = "calling"
        /\ UNCHANGED <<attempt, calls, outcome, traces>>
    BY <1>6 DEF CallModel
  <2> QED BY <2>1, SilentIsTold
<1>7. CASE ModelAnswers \/ ModelFails
  BY <1>7, CallIsTold
<1>8. CASE Returns
  <2>1. Gentle /\ phase = "thinking"
    BY <1>8 DEF Returns
  <2>2. (Settle("succeeded") /\ Record({Agent}, "succeeded")) \/ Fails("error")
    BY <1>8 DEF Returns
  <2> QED BY <2>1, <2>2, SettlingIsTold, FailingIsTold
<1>9. CASE AgentTimesOut
  <2>1. phase \in {"gathering", "thinking", "calling"} /\ Fails("timeout")
    BY <1>9 DEF AgentTimesOut
  <2>2. \A i \in ToolCalls :
          tools'[i].state = IF Current(i) /\ tools[i].state \in Live THEN "cancelled" ELSE tools[i].state
    BY <1>1, <1>9 DEF AgentTimesOut, CancelTools, Invocation
  <2>3. Gentle
    BY <2>2 DEF Live
  <2> QED BY <2>1, <2>3, FailingIsTold
<1>10. CASE Tick
  <2>1. Gentle
    BY <1>1, <1>10 DEF Tick, Invocation
  <2>2. UNCHANGED <<phase, attempt, calls, outcome, traces>>
    BY <1>10 DEF Tick
  <2> QED BY <2>1, <2>2, SilentIsTold
<1>11. CASE UNCHANGED vars
  <2>1. Gentle /\ UNCHANGED <<phase, attempt, calls, outcome, traces>>
    BY <1>11 DEF vars
  <2> QED BY <2>1, SilentIsTold
<1> QED
  BY <1>2, <1>3, <1>4, <1>5, <1>6, <1>7, <1>8, <1>9, <1>10, <1>11 DEF Next, Loop, ModelTimesOut

LEMMA HonestInitially == Init => Whole /\ Told
<1> SUFFICES ASSUME Init PROVE Whole /\ Told
  OBVIOUS
<1>1. Whole
  BY Constants DEF Init, Whole, Live, ToolFailures
<1>2. DOMAIN traces = Ids /\ \A i \in Ids : traces[i] = <<>>
  BY DEF Init, Ids
<1>3. \A i \in ToolCalls : ToolTold(i)
  BY <1>2 DEF Init, ToolTold, Ids
<1>4. AgentTold
  BY <1>2 DEF Init, AgentTold, Ids
<1>5. \A a \in Attempts, n \in 1 .. MaxCalls : CallTold(a, n)
  BY <1>2, IdsApart DEF CallTold, Ids
<1> QED BY <1>1, <1>2, <1>3, <1>4, <1>5 DEF Told

LEMMA HonestSuffices == Contained /\ Whole /\ Told => ToldAsItWas
<1> SUFFICES ASSUME Contained, Whole, Told PROVE ToldAsItWas
  OBVIOUS
<1>1. ASSUME NEW i \in ModelCalls PROVE Len(traces[i]) <= 1
  <2>1. PICK a \in Attempts, n \in 1 .. MaxCalls : i = ModelCall(a, n)
    BY <1>1 DEF ModelCalls
  <2>2. traces[i] = <<>> \/ \E x : traces[i] = <<x>>
    BY <2>1 DEF Told, CallTold
  <2>3. CASE traces[i] = <<>>
    BY <2>3
  <2>4. CASE \E x : traces[i] = <<x>>
    <3>1. PICK x : traces[i] = <<x>>
      BY <2>4
    <3> QED BY <3>1
  <2> QED BY <2>2, <2>3, <2>4
<1>2. TracesAreTruthful
  BY <1>1 DEF Told, ToolTold, AgentTold, TracesAreTruthful
<1>3. SuccessIsWhole
  <2> SUFFICES ASSUME outcome = "succeeded"
               PROVE  /\ \A i \in ToolCalls : i[2] = attempt => tools[i].state \in {"absent", "succeeded"}
                      /\ \A a \in 1 .. attempt - 1 : \A i \in ToolCalls :
                            i[2] = a /\ tools[i].state \in {"denied", "missing", "failed", "timeout"} =>
                               \E j \in ToolCalls : j[2] = a /\ tools[j].state = "invalid"
    BY DEF SuccessIsWhole
  <2>1. \A i \in ToolCalls : i[2] = attempt => tools[i].state \in {"absent", "succeeded"}
    BY DEF Whole
  <2>2. ASSUME NEW a \in 1 .. attempt - 1, NEW i \in ToolCalls, i[2] = a,
               tools[i].state \in {"denied", "missing", "failed", "timeout"}
        PROVE  \E j \in ToolCalls : j[2] = a /\ tools[j].state = "invalid"
    <3>1. attempt \in Nat
      BY Constants DEF Contained, TypeOK, Attempts
    <3>2. i[2] < attempt /\ tools[i].state \in Live \cup ToolFailures
      BY <2>2, <3>1 DEF ToolFailures
    <3> QED BY <2>2, <3>2 DEF Whole
  <2> QED BY <2>1, <2>2
<1> QED BY <1>2, <1>3 DEF ToldAsItWas

\* Whatever is retried, cancelled, left behind or lost by the recorder, every invocation
\* that ended is traced once and as it ended, and a success stands on a whole attempt.
THEOREM RunIsTold == Spec => []ToldAsItWas
<1>1. Init => Contained /\ Whole /\ Told
  BY ContainedInitially, HonestInitially
<1>2. Contained /\ Whole /\ Told /\ [Next]_vars => (Contained /\ Whole /\ Told)'
  BY ContainedStep, WholeStep, ToldStep
<1>3. Contained /\ Whole /\ Told => ToldAsItWas
  BY HonestSuffices
<1> QED BY <1>1, <1>2, <1>3, PTL DEF Spec
=============================================================================
