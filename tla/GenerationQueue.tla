-------------------------- MODULE GenerationQueue --------------------------
(***************************************************************************)
(* The durable generation queue: PostgreSQL rows claimed under a lease by   *)
(* the worker processes (infrastructure/database/repositories/              *)
(* generation_jobs.py and workers/generation_worker.py).                    *)
(*                                                                          *)
(* Time.  The code stores absolute instants (available_at, leased_until)    *)
(* and compares them with the clock.  The model keeps, for every instant,   *)
(* how many ticks remain until it: `available_at <= now' is availableIn = 0 *)
(* and `leased_until <= now' is leaseLeft = 0.                              *)
(*                                                                          *)
(* Transactions.  complete and fail lock the row before they test it, so    *)
(* each is one step that waits for the row lock.  A claim is three steps:   *)
(* the unlocked read of the exhausted leases, the statements that take row  *)
(* locks (the dead-letter updates and the SELECT ... SKIP LOCKED), and the  *)
(* commit that makes the writes visible and releases the locks.             *)
(***************************************************************************)
EXTENDS Integers, FiniteSets

CONSTANTS
    Jobs,         \* rows of post_generation_jobs (one generation each)
    Workers,      \* worker ids; a process draws a fresh one, so none restarts
    None,         \* SQL NULL in worker_id, and "no job"
    MaxAttempts,  \* GENERATION_JOB_MAX_ATTEMPTS
    Timeout,      \* GENERATION_JOB_TIMEOUT_SECONDS, in ticks
    Lease,        \* GENERATION_JOB_LEASE_SECONDS, in ticks
    Backoff,      \* GENERATION_JOB_RETRY_BACKOFF_SECONDS, in ticks
    Overrun       \* ticks by which a live worker may record its outcome late

ASSUME QueueConstants ==
    /\ None \notin Jobs /\ None \notin Workers
    /\ MaxAttempts \in Nat \ {0}
    /\ Timeout \in Nat \ {0}
    /\ Lease \in Nat /\ Lease > Timeout   \* validate_generation_job_lease
    /\ Backoff \in Nat
    /\ Overrun \in Nat

VARIABLES
    job,     \* the committed row of every job
    gen,     \* the committed status of its generation
    lock,    \* the worker whose open transaction holds the job's row lock
    worker   \* where every worker process is

vars == <<job, gen, lock, worker>>

----------------------------------------------------------------------------
JobStatus == {"absent", "queued", "running", "retry_scheduled",
              "completed", "failed", "dead"}
Terminal == {"completed", "failed", "dead"}
GenStatus == {"pending", "queued", "running", "completed", "failed"}
Outcomes == {"success", "timeout", "error", "non_retryable"}

JobRow == [status: JobStatus, attempts: 0..MaxAttempts, availableIn: 0..Backoff,
           leaseLeft: 0..Lease, owner: Workers \cup {None}]

\* pc: idle before a poll; waiting poll_seconds after one found nothing; reading after the unlocked dead-letter read; locked
\* while the claim transaction holds its rows; claimed once it has committed;
\* executing; recording the outcome; down after the process died.
WorkerState ==
    [pc: {"idle", "waiting", "reading", "locked", "claimed", "executing", "recording", "down"},
     job: Jobs \cup {None},        \* the job this worker believes it owns
     attempt: 0..MaxAttempts,      \* job.attempts as the claim returned it
     exhausted: SUBSET Jobs,       \* rows the dead-letter SELECT returned
     left: (-Overrun)..Timeout,    \* ticks until wait_for times out
     outcome: Outcomes \cup {None}]

IdleWorker == [pc |-> "idle", job |-> None, attempt |-> 0, exhausted |-> {},
               left |-> Timeout, outcome |-> None]

Init ==
    /\ job = [j \in Jobs |-> [status |-> "absent", attempts |-> 0, availableIn |-> 0,
                              leaseLeft |-> 0, owner |-> None]]
    /\ gen = [j \in Jobs |-> "pending"]
    /\ lock = [j \in Jobs |-> None]
    /\ worker = [w \in Workers |-> IdleWorker]

\* PostsService.request_generation commits the generation and its job together.
Enqueue(j) ==
    /\ job[j].status = "absent"
    /\ job' = [job EXCEPT ![j].status = "queued"]
    /\ gen' = [gen EXCEPT ![j] = "queued"]
    /\ UNCHANGED <<lock, worker>>

----------------------------------------------------------------------------
(* claim_next *)

LeaseExpired(j) == job[j].status = "running" /\ job[j].leaseLeft = 0

\* Mutant: the sweep counts one attempt too few.
SweepOneEarly == {j \in Jobs : LeaseExpired(j) /\ job[j].attempts >= MaxAttempts - 1}

\* The rows _dead_letter_exhausted_leases selects, without locking them.
Exhausted == {j \in Jobs : LeaseExpired(j) /\ job[j].attempts >= MaxAttempts}

\* Mutants: running rows are never reclaimed; a failed row is taken up again.
ClaimableOnce(j) ==
    /\ job[j].status \in {"queued", "retry_scheduled"} /\ job[j].availableIn = 0
    /\ job[j].attempts < MaxAttempts
ClaimableAfterFailure(j) ==
    /\ \/ job[j].status \in {"queued", "retry_scheduled", "failed"} /\ job[j].availableIn = 0
       \/ LeaseExpired(j)
    /\ job[j].attempts < MaxAttempts

Claimable(j) ==
    /\ \/ job[j].status \in {"queued", "retry_scheduled"} /\ job[j].availableIn = 0
       \/ LeaseExpired(j)
    /\ job[j].attempts < MaxAttempts

ReadExhausted(w) ==
    /\ worker[w].pc = "idle"
    /\ worker' = [worker EXCEPT ![w].pc = "reading", ![w].exhausted = Exhausted]
    /\ UNCHANGED <<job, gen, lock>>

\* Mutant: the claiming SELECT without FOR UPDATE SKIP LOCKED.
LockRowsUnlocked(w) ==
    /\ worker[w].pc = "reading"
    /\ \E pick \in {j \in Jobs : Claimable(j)} :
         worker' = [worker EXCEPT ![w].pc = "locked", ![w].job = pick]
    /\ UNCHANGED <<job, gen, lock>>

\* The flush of the dead-letter updates waits for the rows' locks; the claiming
\* SELECT skips locked rows.  Which claimable row comes first in the order
\* (available_at, created_at) is left open: any of them may be taken.
LockRows(w) ==
    /\ worker[w].pc = "reading"
    /\ \A j \in worker[w].exhausted : lock[j] = None
    /\ LET free == {j \in Jobs \ worker[w].exhausted : lock[j] = None /\ Claimable(j)} IN
       \E pick \in (IF free = {} THEN {None} ELSE free) :
         /\ lock' = [j \in Jobs |-> IF j \in worker[w].exhausted \/ j = pick
                                    THEN w ELSE lock[j]]
         /\ worker' = [worker EXCEPT ![w].pc = "locked", ![w].job = pick]
    /\ UNCHANGED <<job, gen>>

DeadLettered(row) == [row EXCEPT !.status = "dead", !.leaseLeft = 0, !.owner = None]

\* _mark_claimed
Claimed(row, w) ==
    [row EXCEPT !.status = "running", !.attempts = @ + 1, !.leaseLeft = Lease, !.owner = w]

CommitClaim(w) ==
    LET dead == worker[w].exhausted
        pick == worker[w].job IN
    /\ worker[w].pc = "locked"
    /\ job' = [j \in Jobs |-> CASE j \in dead -> DeadLettered(job[j])
                                [] j = pick -> Claimed(job[j], w)
                                [] OTHER -> job[j]]
    /\ gen' = [j \in Jobs |-> CASE j \in dead -> "failed"
                                [] j = pick -> "running"
                                [] OTHER -> gen[j]]
    /\ lock' = [j \in Jobs |-> IF lock[j] = w THEN None ELSE lock[j]]
    /\ worker' = [worker EXCEPT ![w] =
                    IF pick = None THEN [IdleWorker EXCEPT !.pc = "waiting"]
                    ELSE [IdleWorker EXCEPT !.pc = "claimed", !.job = pick,
                                            !.attempt = job[pick].attempts + 1]]

----------------------------------------------------------------------------
(* run_once after the claim *)

\* The executor's first statement writes the generation's status with no test
\* of who owns the job.
StartExecution(w) ==
    /\ worker[w].pc = "claimed"
    /\ gen' = [gen EXCEPT ![worker[w].job] = "running"]
    /\ worker' = [worker EXCEPT ![w].pc = "executing"]
    /\ UNCHANGED <<job, lock>>

\* execute returns or raises before wait_for times out, or wait_for cancels it.
FinishExecution(w, outcome) ==
    /\ worker[w].pc = "executing" \/ (worker[w].pc = "claimed" /\ outcome # "success")
    /\ outcome = "timeout" <=> worker[w].left <= 0
    /\ worker' = [worker EXCEPT ![w].pc = "recording", ![w].outcome = outcome]
    /\ UNCHANGED <<job, gen, lock>>

\* Mutant: the WHERE clause without worker_id.
RunningWhoeverOwns(j, w) == job[j].status = "running"

\* _owned_running_job
OwnedRunning(j, w) == job[j].status = "running" /\ job[j].owner = w

\* Mutant: the attempt is counted again when it ends.
ReleasedAndCounted(row, status, availableIn) ==
    [row EXCEPT !.status = status, !.leaseLeft = 0, !.owner = None,
                !.availableIn = availableIn, !.attempts = @ + 1]

\* What complete and fail both write to the row.
Released(row, status, availableIn) ==
    [row EXCEPT !.status = status, !.leaseLeft = 0, !.owner = None,
                !.availableIn = availableIn]

\* Mutant: complete forgets the generation's row.
CompleteJobOnly(w) ==
    LET j == worker[w].job IN
    /\ worker[w].pc = "recording" /\ worker[w].outcome = "success"
    /\ lock[j] = None /\ OwnedRunning(j, w)
    /\ job' = [job EXCEPT ![j] = Released(@, "completed", @.availableIn)]
    /\ worker' = [worker EXCEPT ![w] = IdleWorker]
    /\ UNCHANGED <<gen, lock>>

Complete(w) ==
    LET j == worker[w].job IN
    /\ worker[w].pc = "recording" /\ worker[w].outcome = "success"
    /\ lock[j] = None
    /\ IF OwnedRunning(j, w)
       THEN /\ job' = [job EXCEPT ![j] = Released(@, "completed", @.availableIn)]
            /\ gen' = [gen EXCEPT ![j] = "completed"]
       ELSE UNCHANGED <<job, gen>>
    /\ worker' = [worker EXCEPT ![w] = IdleWorker]
    /\ UNCHANGED lock

Fail(w) ==
    LET j == worker[w].job
        retryable == worker[w].outcome # "non_retryable" IN
    /\ worker[w].pc = "recording" /\ worker[w].outcome # "success"
    /\ lock[j] = None
    /\ CASE ~OwnedRunning(j, w) -> UNCHANGED <<job, gen>>
         [] OwnedRunning(j, w) /\ retryable /\ job[j].attempts < MaxAttempts ->
              /\ job' = [job EXCEPT ![j] = Released(@, "retry_scheduled", Backoff)]
              /\ gen' = [gen EXCEPT ![j] = "queued"]
         [] OTHER ->
              /\ job' = [job EXCEPT ![j] = Released(@, IF retryable THEN "dead" ELSE "failed",
                                                    @.availableIn)]
              /\ gen' = [gen EXCEPT ![j] = "failed"]
    /\ worker' = [worker EXCEPT ![w] = IdleWorker]
    /\ UNCHANGED lock

\* The process is killed, is cancelled while it executes, or loses the database:
\* an open transaction rolls back and the lease stays in the row.
Crash(w) ==
    /\ worker[w].pc # "down"
    /\ \E v \in Workers \ {w} : worker[v].pc # "down"
    /\ worker' = [worker EXCEPT ![w] = [IdleWorker EXCEPT !.pc = "down"]]
    /\ lock' = [j \in Jobs |-> IF lock[j] = w THEN None ELSE lock[j]]
    /\ UNCHANGED <<job, gen>>

----------------------------------------------------------------------------
(* Time *)

Busy(w) == worker[w].pc \in {"claimed", "executing", "recording"}

\* A claim transaction is shorter than a tick, and a live worker records the
\* outcome of an attempt at most Overrun ticks after its timeout.
MayTick ==
    \A w \in Workers :
        /\ worker[w].pc \notin {"reading", "locked"}
        /\ Busy(w) => worker[w].left > -Overrun

CountDown(n) == IF n = 0 THEN 0 ELSE n - 1

Tick ==
    /\ MayTick
    /\ job' = [j \in Jobs |-> [job[j] EXCEPT !.availableIn = CountDown(@),
                                             !.leaseLeft = CountDown(@)]]
    /\ worker' = [w \in Workers |->
                    CASE Busy(w) -> [worker[w] EXCEPT !.left = @ - 1]
                      [] worker[w].pc = "waiting" -> IdleWorker  \* run_forever polls again
                      [] OTHER -> worker[w]]
    /\ UNCHANGED <<gen, lock>>

Claim(w) == ReadExhausted(w) \/ LockRows(w) \/ CommitClaim(w)

Execute(w) ==
    \/ StartExecution(w)
    \/ \E outcome \in Outcomes : FinishExecution(w, outcome)
    \/ Complete(w)
    \/ Fail(w)

Next ==
    \/ \E j \in Jobs : Enqueue(j)
    \/ \E w \in Workers : Claim(w) \/ Execute(w) \/ Crash(w)
    \/ Tick

\* A live worker keeps polling, wait_for bounds every execution and clocks run.
\* Nothing obliges a job to be submitted or a process to crash.
Fairness ==
    /\ WF_vars(Tick)
    /\ \A w \in Workers : WF_vars(Claim(w)) /\ WF_vars(Execute(w))

Spec == Init /\ [][Next]_vars
FairSpec == Spec /\ Fairness

----------------------------------------------------------------------------
(* Properties *)

TypeOK ==
    /\ job \in [Jobs -> JobRow]
    /\ gen \in [Jobs -> GenStatus]
    /\ lock \in [Jobs -> Workers \cup {None}]
    /\ worker \in [Workers -> WorkerState]

\* Workers are prompt when an attempt, recorded as late as it can be, still ends
\* before its lease does: the margin that lease > timeout is there to leave.
Prompt == Timeout + Overrun < Lease

\* Exclusive execution: a worker that runs or records an attempt is the owner of
\* the running row, whatever the other workers claim, sweep or crash.  With
\* Prompt this is what "multiple workers cannot execute the same available job"
\* promises, and it makes the None returned by complete and fail unreachable.
ExclusiveExecution == \A w \in Workers : Busy(w) => OwnedRunning(worker[w].job, w)

\* The generation's status as the API shows it, for each status of its job.
ShownAs(status) ==
    CASE status = "absent" -> "pending"
      [] status \in {"queued", "retry_scheduled"} -> "queued"
      [] status \in {"failed", "dead"} -> "failed"
      [] OTHER -> status

\* The two rows agree whenever no transaction is open, although the executor
\* writes the generation's status in a transaction of its own.
StatusesAgree == \A j \in Jobs : gen[j] = ShownAs(job[j].status)

\* A terminal status is final: no sweep, late outcome or reclaim changes it.
TerminalIsFinal ==
    [][\A j \in Jobs : job[j].status \in Terminal => job'[j].status = job[j].status]_vars

\* Fencing: however long a worker stalls, the outcome that takes effect on a row
\* is the one of the attempt the row counts as its current one.
OutcomeOfCurrentAttempt ==
    [][\A w \in Workers :
         (worker[w].pc = "recording" /\ worker'[w].pc = "idle")
            => \/ job' = job
               \/ worker[w].attempt = job[worker[w].job].attempts]_vars

\* No attempt is granted or lost: a row goes back to the queue only with an
\* attempt to spare, and dead only with none, sweeps of stale reads included.
AttemptAccounting ==
    \A j \in Jobs :
        /\ job[j].status = "retry_scheduled" => job[j].attempts \in 1..(MaxAttempts - 1)
        /\ job[j].status = "dead" => job[j].attempts = MaxAttempts

\* Every submitted job ends, through crashes, timeouts and expired leases.
EveryJobEnds ==
    \A j \in Jobs : job[j].status # "absent" ~> job[j].status \in Terminal
=============================================================================
