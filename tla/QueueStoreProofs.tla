-------------------------- MODULE QueueStoreProofs --------------------------
(***************************************************************************)
(* Proofs about what all workers share in the database, for every number of  *)
(* them: GenerationQueue, with any number of jobs and every setting of the   *)
(* attempt limit, timeout, lease and backoff, and WorkflowStore, with any    *)
(* sections and values, which implements the versioned document.             *)
(***************************************************************************)
EXTENDS GenerationQueue, WorkflowStore, TLAPS

----------------------------------------------------------------------------
(* The queue. *)


\* A row lock belongs to a transaction that is open on that row, and an open
\* claim transaction holds every row it is about to write.
RowLocks ==
    /\ \A j \in Jobs, w \in Workers :
         lock[j] = w => /\ worker[w].pc = "locked"
                        /\ j \in worker[w].exhausted \/ j = worker[w].job
    /\ \A w \in Workers : worker[w].pc = "locked" =>
         /\ \A j \in worker[w].exhausted : lock[j] = w
         /\ worker[w].job # None =>
              /\ lock[worker[w].job] = w
              /\ worker[w].job \notin worker[w].exhausted

\* The row a transaction is about to claim is still claimable: its lock has
\* kept every other writer away since the SELECT.
PickClaimable ==
    \A w \in Workers : worker[w].pc = "locked" /\ worker[w].job # None
                          => Claimable(worker[w].job)

\* A row the sweep has read has no attempt left, however old the read.
SweptSpent ==
    \A w \in Workers : worker[w].pc \in {"reading", "locked"} =>
        \A j \in worker[w].exhausted : /\ job[j].attempts = MaxAttempts
                                       /\ job[j].status \in Terminal \cup {"running"}

\* A worker running or recording an attempt has a job, and while the row still
\* names it the row counts that attempt.
AttemptFence ==
    \A w \in Workers : Busy(w) =>
        /\ worker[w].job \in Jobs
        /\ job[worker[w].job].owner = w => worker[w].attempt = job[worker[w].job].attempts

\* Only a running row has an owner, and a running row has been claimed.
RunningRows ==
    \A j \in Jobs :
        /\ job[j].owner # None => job[j].status = "running"
        /\ job[j].status = "running" => job[j].attempts >= 1

\* The invariant that needs no assumption on how promptly workers act.
SafeInv == /\ TypeOK /\ RowLocks /\ PickClaimable /\ SweptSpent /\ AttemptFence
           /\ RunningRows /\ AttemptAccounting

\* Under Prompt: the lease of a running attempt outlives its deadline.
LeaseCovers ==
    \A w \in Workers : Busy(w) =>
        /\ worker[w].job \in Jobs
        /\ OwnedRunning(worker[w].job, w)
        /\ job[worker[w].job].leaseLeft = worker[w].left + (Lease - Timeout)

\* Under Prompt: a row the sweep has read is still abandoned when it is written.
SweptAbandoned ==
    \A w \in Workers : worker[w].pc \in {"reading", "locked"} =>
        \A j \in worker[w].exhausted : LeaseExpired(j) \/ job[j].status = "dead"

PromptInv == SafeInv /\ LeaseCovers /\ SweptAbandoned /\ StatusesAgree

----------------------------------------------------------------------------
(* What the operations on one row, and on one worker, return. *)

\* A released row stays well typed, has no owner and keeps its attempts.
LEMMA ReleasedRow ==
    ASSUME NEW record \in JobRow, NEW st \in JobStatus, NEW n \in 0..Backoff
    PROVE  /\ Released(record, st, n) \in JobRow
           /\ Released(record, st, n).status = st /\ Released(record, st, n).owner = None
           /\ Released(record, st, n).attempts = record.attempts
<1>1. 0 \in 0..Lease /\ None \in Workers \cup {None}
  BY QueueConstants
<1>2. Released(record, st, n) \in JobRow
  BY <1>1 DEF JobRow, Released
<1>. QED  BY <1>2 DEF JobRow, Released

\* A dead-lettered row stays well typed, has no owner and keeps its attempts.
LEMMA DeadLetteredRow ==
    ASSUME NEW record \in JobRow
    PROVE  /\ DeadLettered(record) \in JobRow
           /\ DeadLettered(record).status = "dead" /\ DeadLettered(record).owner = None
           /\ DeadLettered(record).attempts = record.attempts
<1>1. 0 \in 0..Lease /\ None \in Workers \cup {None} /\ "dead" \in JobStatus
  BY QueueConstants DEF JobStatus
<1>2. DeadLettered(record) \in JobRow
  BY <1>1 DEF JobRow, DeadLettered
<1>. QED  BY <1>2 DEF JobRow, DeadLettered

\* A claim below the attempt limit yields a well-typed row one attempt further.
LEMMA ClaimedRow ==
    ASSUME NEW record \in JobRow, NEW w \in Workers, record.attempts < MaxAttempts
    PROVE  /\ Claimed(record, w) \in JobRow
           /\ Claimed(record, w).status = "running" /\ Claimed(record, w).owner = w
           /\ Claimed(record, w).attempts = record.attempts + 1
           /\ Claimed(record, w).attempts \in 1..MaxAttempts
           /\ Claimed(record, w).leaseLeft = Lease
<1>1. /\ Lease \in 0..Lease /\ w \in Workers \cup {None} /\ "running" \in JobStatus
      /\ record.attempts + 1 \in 0..MaxAttempts /\ record.attempts + 1 \in 1..MaxAttempts
  BY QueueConstants DEF JobStatus, JobRow
<1>2. Claimed(record, w) \in JobRow
  BY <1>1 DEF JobRow, Claimed
<1>. QED  BY <1>1, <1>2 DEF JobRow, Claimed

\* A tick changes only the two timers of a row.
LEMMA TickedRow ==
    ASSUME NEW record \in JobRow
    PROVE  LET r == [record EXCEPT !.availableIn = CountDown(@), !.leaseLeft = CountDown(@)] IN
           /\ r \in JobRow /\ r.status = record.status /\ r.owner = record.owner
           /\ r.attempts = record.attempts /\ r.leaseLeft = CountDown(record.leaseLeft)
<1>. DEFINE r == [record EXCEPT !.availableIn = CountDown(@), !.leaseLeft = CountDown(@)]
<1>1. CountDown(record.availableIn) \in 0..Backoff /\ CountDown(record.leaseLeft) \in 0..Lease
  BY QueueConstants DEF CountDown, JobRow
<1>2. r \in JobRow
  BY <1>1 DEF JobRow
<1>. QED  BY <1>2 DEF JobRow

\* The states of a worker without a job are well typed.
LEMMA IdleWorkerState ==
    /\ IdleWorker \in WorkerState /\ IdleWorker.pc = "idle"
    /\ [IdleWorker EXCEPT !.pc = "waiting"] \in WorkerState
    /\ [IdleWorker EXCEPT !.pc = "waiting"].pc = "waiting"
    /\ [IdleWorker EXCEPT !.pc = "down"] \in WorkerState
    /\ [IdleWorker EXCEPT !.pc = "down"].pc = "down"
<1>1. 0 \in 0..MaxAttempts /\ Timeout \in (-Overrun)..Timeout
  BY QueueConstants
<1>. QED  BY <1>1 DEF IdleWorker, WorkerState

\* The state of a worker that has just claimed a job is well typed.
LEMMA ClaimedWorkerState ==
    ASSUME NEW j \in Jobs, NEW n \in 0..MaxAttempts
    PROVE  LET s == [IdleWorker EXCEPT !.pc = "claimed", !.job = j, !.attempt = n] IN
           /\ s \in WorkerState /\ s.pc = "claimed" /\ s.job = j /\ s.attempt = n
           /\ s.left = Timeout
<1>1. Timeout \in (-Overrun)..Timeout
  BY QueueConstants
<1>. QED  BY <1>1 DEF IdleWorker, WorkerState

----------------------------------------------------------------------------
(* Every step preserves SafeInv. *)

\* Enqueue preserves SafeInv.
LEMMA SafeEnqueue ==
    ASSUME SafeInv, NEW j \in Jobs, Enqueue(j)
    PROVE  SafeInv'
<1>0. TypeOK /\ RowLocks /\ PickClaimable /\ SweptSpent /\ AttemptFence /\ RunningRows
        /\ AttemptAccounting
  BY DEF SafeInv
<1>1. TypeOK'
  BY <1>0, QueueConstants DEF TypeOK, JobRow, WorkerState, IdleWorker, JobStatus, GenStatus, Outcomes, Enqueue, PickClaimable, Claimable, Busy
<1>2. RowLocks'
  BY <1>0, <1>1, QueueConstants DEF TypeOK, JobRow, WorkerState, IdleWorker, JobStatus, GenStatus, Outcomes, Enqueue, RowLocks, RowLocks
<1>3. PickClaimable'
  BY <1>0, <1>1, QueueConstants DEF TypeOK, JobRow, WorkerState, IdleWorker, JobStatus, GenStatus, Outcomes, Enqueue, PickClaimable, Claimable, LeaseExpired, RowLocks
<1>4. SweptSpent'
  BY <1>0, <1>1, QueueConstants DEF TypeOK, JobRow, WorkerState, IdleWorker, JobStatus, GenStatus, Outcomes, Enqueue, SweptSpent, Terminal, LeaseExpired, RowLocks
<1>5. AttemptFence'
  BY <1>0, <1>1, QueueConstants DEF TypeOK, JobRow, WorkerState, IdleWorker, JobStatus, GenStatus, Outcomes, Enqueue, AttemptFence, Busy, RowLocks
<1>6. RunningRows'
  BY <1>0, <1>1, QueueConstants DEF TypeOK, JobRow, WorkerState, IdleWorker, JobStatus, GenStatus, Outcomes, Enqueue, RunningRows, RowLocks
<1>7. AttemptAccounting'
  BY <1>0, <1>1, QueueConstants DEF TypeOK, JobRow, WorkerState, IdleWorker, JobStatus, GenStatus, Outcomes, Enqueue, AttemptAccounting, RowLocks
<1>. QED  BY <1>1, <1>2, <1>3, <1>4, <1>5, <1>6, <1>7 DEF SafeInv

\* ReadExhausted preserves SafeInv.
LEMMA SafeReadExhausted ==
    ASSUME SafeInv, NEW w \in Workers, ReadExhausted(w)
    PROVE  SafeInv'
<1>0. TypeOK /\ RowLocks /\ PickClaimable /\ SweptSpent /\ AttemptFence /\ RunningRows
        /\ AttemptAccounting
  BY DEF SafeInv

<1>w. /\ worker[w].pc = "idle"
      /\ worker'[w].pc = "reading" /\ worker'[w].exhausted = Exhausted
      /\ worker'[w].job = worker[w].job
      /\ \A v \in Workers \ {w} : worker'[v] = worker[v]
      /\ job' = job /\ gen' = gen /\ lock' = lock
  BY <1>0 DEF ReadExhausted, TypeOK, WorkerState
<1>x. Exhausted \subseteq Jobs
  BY DEF Exhausted
<1>1. TypeOK'
  <2>1. worker[w] \in WorkerState /\ worker \in [Workers -> WorkerState]
    BY <1>0 DEF TypeOK
  <2>2. [worker[w] EXCEPT !.pc = "reading", !.exhausted = Exhausted] \in WorkerState
    BY <2>1, <1>x DEF WorkerState
  <2>3. worker' \in [Workers -> WorkerState]
    BY <2>1, <2>2 DEF ReadExhausted
  <2>. QED  BY <1>0, <1>w, <2>3 DEF TypeOK
<1>2. RowLocks'
  BY <1>0, <1>w, QueueConstants DEF RowLocks, TypeOK
<1>3. PickClaimable'
  BY <1>0, <1>w DEF PickClaimable, Claimable, LeaseExpired
<1>4. SweptSpent'
  <2>1. \A j \in Exhausted : job[j].attempts = MaxAttempts /\ job[j].status = "running"
    <3>1. \A j \in Jobs : job[j].attempts \in 0..MaxAttempts
      BY <1>0 DEF TypeOK, JobRow
    <3>2. \A j \in Exhausted : /\ j \in Jobs /\ job[j].attempts >= MaxAttempts
                               /\ job[j].status = "running"
      BY DEF Exhausted, LeaseExpired
    <3>. QED  BY <3>1, <3>2, QueueConstants
  <2>. QED  BY <1>0, <1>w, <2>1 DEF SweptSpent
<1>5. AttemptFence'
  BY <1>0, <1>w DEF AttemptFence, Busy
<1>6. RunningRows'
  BY <1>0, <1>w DEF RunningRows
<1>7. AttemptAccounting'
  BY <1>0, <1>w DEF AttemptAccounting
<1>. QED  BY <1>1, <1>2, <1>3, <1>4, <1>5, <1>6, <1>7 DEF SafeInv

\* LockRows preserves SafeInv.
LEMMA SafeLockRows ==
    ASSUME SafeInv, NEW w \in Workers, LockRows(w)
    PROVE  SafeInv'
<1>0. TypeOK /\ RowLocks /\ PickClaimable /\ SweptSpent /\ AttemptFence /\ RunningRows
        /\ AttemptAccounting
  BY DEF SafeInv
<1>1. TypeOK'
  <2>. PICK pick \in Jobs \cup {None} :
         /\ lock' = [j \in Jobs |-> IF j \in worker[w].exhausted \/ j = pick
                                    THEN w ELSE lock[j]]
         /\ worker' = [worker EXCEPT ![w].pc = "locked", ![w].job = pick]
    BY DEF LockRows
  <2>1. lock' \in [Jobs -> Workers \cup {None}]
    BY <1>0 DEF TypeOK
  <2>2. worker' \in [Workers -> WorkerState]
    <3>1. worker[w] \in WorkerState /\ worker \in [Workers -> WorkerState]
      BY <1>0 DEF TypeOK
    <3>2. [worker[w] EXCEPT !.pc = "locked", !.job = pick] \in WorkerState
      BY <3>1 DEF WorkerState
    <3>. QED  BY <3>1, <3>2
  <2>. QED  BY <1>0, <2>1, <2>2 DEF TypeOK, LockRows
<1>2. RowLocks'
  BY <1>0, <1>1, QueueConstants DEF TypeOK, JobRow, WorkerState, IdleWorker, JobStatus, GenStatus, Outcomes, LockRows, RowLocks, RowLocks
<1>3. PickClaimable'
  BY <1>0, <1>1, QueueConstants DEF TypeOK, JobRow, WorkerState, IdleWorker, JobStatus, GenStatus, Outcomes, LockRows, PickClaimable, Claimable, LeaseExpired, RowLocks
<1>4. SweptSpent'
  BY <1>0, <1>1, QueueConstants DEF TypeOK, JobRow, WorkerState, IdleWorker, JobStatus, GenStatus, Outcomes, LockRows, SweptSpent, Terminal, LeaseExpired, RowLocks
<1>5. AttemptFence'
  BY <1>0, <1>1, QueueConstants DEF TypeOK, JobRow, WorkerState, IdleWorker, JobStatus, GenStatus, Outcomes, LockRows, AttemptFence, Busy, RowLocks
<1>6. RunningRows'
  BY <1>0, <1>1, QueueConstants DEF TypeOK, JobRow, WorkerState, IdleWorker, JobStatus, GenStatus, Outcomes, LockRows, RunningRows, RowLocks
<1>7. AttemptAccounting'
  BY <1>0, <1>1, QueueConstants DEF TypeOK, JobRow, WorkerState, IdleWorker, JobStatus, GenStatus, Outcomes, LockRows, AttemptAccounting, RowLocks
<1>. QED  BY <1>1, <1>2, <1>3, <1>4, <1>5, <1>6, <1>7 DEF SafeInv

\* CommitClaim preserves SafeInv.
LEMMA SafeCommitClaim ==
    ASSUME SafeInv, NEW w \in Workers, CommitClaim(w)
    PROVE  SafeInv'
<1>0. TypeOK /\ RowLocks /\ PickClaimable /\ SweptSpent /\ AttemptFence /\ RunningRows
        /\ AttemptAccounting
  BY DEF SafeInv

<1>. DEFINE dead == worker[w].exhausted
            pick == worker[w].job
<1>a. /\ worker[w].pc = "locked"
      /\ dead \subseteq Jobs
      /\ pick \in Jobs \cup {None}
      /\ pick # None => /\ pick \notin dead
                        /\ Claimable(pick)
                        /\ job[pick].attempts + 1 \in 1..MaxAttempts
      /\ \A j \in dead : job[j].attempts = MaxAttempts /\ job[j].status \in Terminal \cup {"running"}
  BY <1>0, QueueConstants
     DEF CommitClaim, TypeOK, WorkerState, RowLocks, PickClaimable, Claimable, SweptSpent, JobRow
<1>d. \A j \in dead : /\ job'[j] \in JobRow
                      /\ job'[j].status = "dead" /\ job'[j].owner = None
                      /\ job'[j].attempts = job[j].attempts
  <2>. SUFFICES ASSUME NEW j \in dead
                PROVE  /\ job'[j] \in JobRow
                       /\ job'[j].status = "dead" /\ job'[j].owner = None
                       /\ job'[j].attempts = job[j].attempts
    OBVIOUS
  <2>1. j \in Jobs /\ job[j] \in JobRow /\ job'[j] = DeadLettered(job[j])
    BY <1>0, <1>a, QueueConstants DEF CommitClaim, TypeOK
  <2>. QED  BY <2>1, DeadLetteredRow
<1>p. pick # None => /\ job'[pick] \in JobRow
                     /\ job'[pick].status = "running" /\ job'[pick].owner = w
                     /\ job'[pick].attempts = job[pick].attempts + 1
                     /\ job'[pick].attempts \in 1..MaxAttempts
  BY <1>0, <1>a, ClaimedRow DEF CommitClaim, TypeOK, Claimable
<1>o. \A j \in Jobs : j \notin dead /\ j # pick => job'[j] = job[j] /\ lock[j] # w
  BY <1>0, <1>a DEF CommitClaim, RowLocks
<1>l. \A j \in Jobs : lock'[j] = IF lock[j] = w THEN None ELSE lock[j]
  BY DEF CommitClaim
<1>w. /\ worker'[w] = IF pick = None THEN [IdleWorker EXCEPT !.pc = "waiting"]
                      ELSE [IdleWorker EXCEPT !.pc = "claimed", !.job = pick,
                                              !.attempt = job[pick].attempts + 1]
      /\ \A v \in Workers \ {w} : worker'[v] = worker[v]
  BY <1>0 DEF CommitClaim, TypeOK
<1>v. /\ worker'[w] \in WorkerState
      /\ worker'[w].pc = IF pick = None THEN "waiting" ELSE "claimed"
      /\ pick # None => worker'[w].job = pick /\ worker'[w].attempt = job[pick].attempts + 1
  <2>1. pick # None => pick \in Jobs /\ job[pick].attempts + 1 \in 0..MaxAttempts
    BY <1>a, QueueConstants
  <2>2. CASE pick = None
    BY <1>w, <2>2, IdleWorkerState
  <2>3. CASE pick # None
    <3>. DEFINE n == job[pick].attempts + 1
    <3>1. worker'[w] = [IdleWorker EXCEPT !.pc = "claimed", !.job = pick, !.attempt = n]
      BY <1>w, <2>3
    <3>2. pick \in Jobs /\ n \in 0..MaxAttempts
      BY <2>1, <2>3
    <3>. HIDE DEF n, pick
    <3>3. LET s == [IdleWorker EXCEPT !.pc = "claimed", !.job = pick, !.attempt = n] IN
           /\ s \in WorkerState /\ s.pc = "claimed" /\ s.job = pick /\ s.attempt = n
      BY <3>2, ClaimedWorkerState
    <3>. QED  BY <2>3, <3>1, <3>3 DEF n
  <2>. QED  BY <2>2, <2>3
<1>1. TypeOK'
  <2>1. job' \in [Jobs -> JobRow]
    <3>1. \A j \in Jobs : job'[j] \in JobRow
      <4>. SUFFICES ASSUME NEW j \in Jobs PROVE job'[j] \in JobRow
        OBVIOUS
      <4>1. job[j] \in JobRow
        BY <1>0 DEF TypeOK
      <4>2. CASE j \in dead
        BY <4>2, <1>d
      <4>3. CASE j = pick
        BY <4>3, <1>a, <1>p, QueueConstants
      <4>4. CASE j \notin dead /\ j # pick
        BY <4>1, <4>4, <1>o
      <4>. QED  BY <4>2, <4>3, <4>4
    <3>. QED  BY <3>1 DEF CommitClaim
  <2>2. gen' \in [Jobs -> GenStatus]
    BY <1>0 DEF CommitClaim, TypeOK, GenStatus
  <2>3. lock' \in [Jobs -> Workers \cup {None}]
    BY <1>0 DEF CommitClaim, TypeOK
  <2>4. worker' \in [Workers -> WorkerState]
    <3>1. \A v \in Workers : worker'[v] \in WorkerState
      BY <1>0, <1>w, <1>v DEF TypeOK
    <3>. QED  BY <1>0, <3>1 DEF CommitClaim, TypeOK
  <2>. QED  BY <2>1, <2>2, <2>3, <2>4 DEF TypeOK
<1>2. RowLocks'
  <2>1. \A i \in Jobs, v \in Workers : lock'[i] = v => v # w /\ lock[i] = v /\ worker'[v] = worker[v]
    BY <1>l, <1>w, QueueConstants
  <2>2. \A v \in Workers : worker'[v].pc = "locked" => v # w /\ worker'[v] = worker[v]
    BY <1>v, <1>w
  <2>3. \A i \in Jobs, v \in Workers : v # w /\ lock[i] = v => lock'[i] = v
    BY <1>l
  <2>4. \A v \in Workers : /\ worker[v].exhausted \subseteq Jobs
                           /\ worker[v].job \in Jobs \cup {None}
    BY <1>0 DEF TypeOK, WorkerState
  <2>. QED  BY <1>0, <2>1, <2>2, <2>3, <2>4 DEF RowLocks
<1>3. PickClaimable'
  <2>. SUFFICES ASSUME NEW v \in Workers, worker'[v].pc = "locked", worker'[v].job # None
                PROVE  Claimable(worker[v].job)'
    BY DEF PickClaimable
  <2>1. v # w /\ worker'[v] = worker[v]
    BY <1>v, <1>w
  <2>2. worker[v].job \in Jobs /\ lock[worker[v].job] = v /\ Claimable(worker[v].job)
    BY <1>0, <2>1 DEF RowLocks, PickClaimable, TypeOK, WorkerState
  <2>3. worker[v].job \notin dead /\ worker[v].job # pick
    BY <1>0, <1>a, <2>1, <2>2 DEF RowLocks
  <2>. QED  BY <1>o, <2>1, <2>2, <2>3 DEF Claimable, LeaseExpired
<1>4. SweptSpent'
  <2>. SUFFICES ASSUME NEW v \in Workers, worker'[v].pc \in {"reading", "locked"},
                       NEW j \in worker'[v].exhausted
                PROVE  job'[j].attempts = MaxAttempts /\ job'[j].status \in Terminal \cup {"running"}
    BY DEF SweptSpent
  <2>1. v # w /\ worker'[v] = worker[v]
    BY <1>v, <1>w
  <2>2. j \in Jobs /\ job[j].attempts = MaxAttempts /\ job[j].status \in Terminal \cup {"running"}
    BY <1>0, <2>1 DEF SweptSpent, TypeOK, WorkerState
  <2>3. j # pick
    BY <1>a, <2>2, QueueConstants DEF Claimable
  <2>. QED  BY <1>d, <1>o, <2>2, <2>3 DEF Terminal
<1>5. AttemptFence'
  <2>. SUFFICES ASSUME NEW v \in Workers, Busy(v)'
                PROVE  /\ worker'[v].job \in Jobs
                       /\ job'[worker'[v].job].owner = v
                            => worker'[v].attempt = job'[worker'[v].job].attempts
    BY DEF AttemptFence
  <2>1. CASE v = w
    BY <1>a, <1>v, <1>p, <2>1 DEF Busy
  <2>2. CASE v # w
    <3>1. worker'[v] = worker[v] /\ Busy(v)
      BY <1>w, <2>2 DEF Busy
    <3>. QED  BY <1>0, <1>d, <1>p, <1>o, <2>2, <3>1, QueueConstants DEF AttemptFence
  <2>. QED  BY <2>1, <2>2
<1>6. RunningRows'
  <2>. SUFFICES ASSUME NEW j \in Jobs
                PROVE  /\ job'[j].owner # None => job'[j].status = "running"
                       /\ job'[j].status = "running" => job'[j].attempts >= 1
    BY DEF RunningRows
  <2>1. CASE j \in dead
    BY <2>1, <1>d
  <2>2. CASE j = pick
    BY <2>2, <1>p, QueueConstants
  <2>3. CASE j \notin dead /\ j # pick
    <3>1. job'[j] = job[j]
      BY <1>o, <2>3
    <3>2. /\ job[j].owner # None => job[j].status = "running"
          /\ job[j].status = "running" => job[j].attempts >= 1
      BY <1>0 DEF RunningRows
    <3>. QED  BY <3>1, <3>2
  <2>. QED  BY <2>1, <2>2, <2>3
<1>7. AttemptAccounting'
  <2>. SUFFICES ASSUME NEW j \in Jobs
                PROVE  /\ job'[j].status = "retry_scheduled"
                             => job'[j].attempts \in 1..(MaxAttempts - 1)
                       /\ job'[j].status = "dead" => job'[j].attempts = MaxAttempts
    BY DEF AttemptAccounting
  <2>1. CASE j \in dead
    BY <2>1, <1>a, <1>d
  <2>2. CASE j = pick
    BY <2>2, <1>p, QueueConstants
  <2>3. CASE j \notin dead /\ j # pick
    BY <1>0, <2>3, <1>o DEF AttemptAccounting
  <2>. QED  BY <2>1, <2>2, <2>3
<1>. QED  BY <1>1, <1>2, <1>3, <1>4, <1>5, <1>6, <1>7 DEF SafeInv

\* StartExecution preserves SafeInv.
LEMMA SafeStartExecution ==
    ASSUME SafeInv, NEW w \in Workers, StartExecution(w)
    PROVE  SafeInv'
<1>0. TypeOK /\ RowLocks /\ PickClaimable /\ SweptSpent /\ AttemptFence /\ RunningRows
        /\ AttemptAccounting
  BY DEF SafeInv
<1>1. TypeOK'
  BY <1>0, QueueConstants, ZenonT(60) DEF TypeOK, JobRow, WorkerState, IdleWorker, JobStatus, GenStatus, Outcomes, StartExecution, PickClaimable, Claimable, Busy
<1>2. RowLocks'
  BY <1>0, <1>1, QueueConstants DEF TypeOK, JobRow, WorkerState, IdleWorker, JobStatus, GenStatus, Outcomes, StartExecution, RowLocks, RowLocks
<1>3. PickClaimable'
  BY <1>0, <1>1, QueueConstants DEF TypeOK, JobRow, WorkerState, IdleWorker, JobStatus, GenStatus, Outcomes, StartExecution, PickClaimable, Claimable, LeaseExpired, RowLocks
<1>4. SweptSpent'
  BY <1>0, <1>1, QueueConstants DEF TypeOK, JobRow, WorkerState, IdleWorker, JobStatus, GenStatus, Outcomes, StartExecution, SweptSpent, Terminal, LeaseExpired, RowLocks
<1>5. AttemptFence'
  BY <1>0, <1>1, QueueConstants DEF TypeOK, JobRow, WorkerState, IdleWorker, JobStatus, GenStatus, Outcomes, StartExecution, AttemptFence, Busy, RowLocks
<1>6. RunningRows'
  BY <1>0, <1>1, QueueConstants DEF TypeOK, JobRow, WorkerState, IdleWorker, JobStatus, GenStatus, Outcomes, StartExecution, RunningRows, RowLocks
<1>7. AttemptAccounting'
  BY <1>0, <1>1, QueueConstants DEF TypeOK, JobRow, WorkerState, IdleWorker, JobStatus, GenStatus, Outcomes, StartExecution, AttemptAccounting, RowLocks
<1>. QED  BY <1>1, <1>2, <1>3, <1>4, <1>5, <1>6, <1>7 DEF SafeInv

\* FinishExecution preserves SafeInv.
LEMMA SafeFinishExecution ==
    ASSUME SafeInv, NEW w \in Workers, NEW o \in Outcomes, FinishExecution(w, o)
    PROVE  SafeInv'
<1>0. TypeOK /\ RowLocks /\ PickClaimable /\ SweptSpent /\ AttemptFence /\ RunningRows
        /\ AttemptAccounting
  BY DEF SafeInv

<1>w. /\ Busy(w) /\ worker'[w].pc = "recording"
      /\ worker'[w].job = worker[w].job /\ worker'[w].attempt = worker[w].attempt
      /\ \A v \in Workers \ {w} : worker'[v] = worker[v]
      /\ job' = job /\ gen' = gen /\ lock' = lock
  BY <1>0 DEF FinishExecution, TypeOK, WorkerState, Busy
<1>1. TypeOK'
  <2>1. worker[w] \in WorkerState /\ worker \in [Workers -> WorkerState]
    BY <1>0 DEF TypeOK
  <2>2. [worker[w] EXCEPT !.pc = "recording", !.outcome = o] \in WorkerState
    BY <2>1 DEF WorkerState
  <2>3. worker' \in [Workers -> WorkerState]
    BY <2>1, <2>2 DEF FinishExecution
  <2>. QED  BY <1>0, <1>w, <2>3 DEF TypeOK
<1>2. RowLocks'
  BY <1>0, <1>w DEF RowLocks, Busy
<1>3. PickClaimable'
  BY <1>0, <1>w DEF PickClaimable, Claimable, LeaseExpired
<1>4. SweptSpent'
  BY <1>0, <1>w DEF SweptSpent
<1>5. AttemptFence'
  BY <1>0, <1>w DEF AttemptFence, Busy
<1>6. RunningRows'
  BY <1>0, <1>w DEF RunningRows
<1>7. AttemptAccounting'
  BY <1>0, <1>w DEF AttemptAccounting
<1>. QED  BY <1>1, <1>2, <1>3, <1>4, <1>5, <1>6, <1>7 DEF SafeInv

\* Complete preserves SafeInv.
LEMMA SafeComplete ==
    ASSUME SafeInv, NEW w \in Workers, Complete(w)
    PROVE  SafeInv'
<1>0. TypeOK /\ RowLocks /\ PickClaimable /\ SweptSpent /\ AttemptFence /\ RunningRows
        /\ AttemptAccounting
  BY DEF SafeInv
<1>. DEFINE j == worker[w].job
<1>w. /\ worker[w].pc = "recording" /\ Busy(w) /\ j \in Jobs /\ lock[j] = None
      /\ worker'[w] = IdleWorker /\ IdleWorker.pc = "idle" /\ IdleWorker \in WorkerState
      /\ \A v \in Workers \ {w} : worker'[v] = worker[v]
      /\ lock' = lock
  BY <1>0, QueueConstants DEF Complete, TypeOK, WorkerState, IdleWorker, Busy, AttemptFence, Outcomes
<1>r. /\ \A i \in Jobs \ {j} : job'[i] = job[i]
      /\ job' \in [Jobs -> JobRow] /\ gen' \in [Jobs -> GenStatus]
      /\ \/ job'[j] = job[j]
         \/ /\ OwnedRunning(j, w)
            /\ job'[j].status = "completed" /\ job'[j].owner = None
            /\ job'[j].attempts = job[j].attempts
  <2>1. job[j] \in JobRow /\ job[j].availableIn \in 0..Backoff /\ "completed" \in JobStatus
    BY <1>0, <1>w DEF TypeOK, JobRow, JobStatus
  <2>. QED  BY <1>0, <1>w, <2>1, ReleasedRow DEF Complete, TypeOK, GenStatus
<1>1. TypeOK'
  <2>1. worker' \in [Workers -> WorkerState]
    BY <1>0, <1>w DEF Complete, TypeOK
  <2>. QED  BY <1>0, <1>w, <1>r, <2>1 DEF TypeOK
<1>2. RowLocks'
  BY <1>0, <1>w DEF RowLocks
<1>3. PickClaimable'
  <2>. SUFFICES ASSUME NEW v \in Workers, worker'[v].pc = "locked", worker'[v].job # None
                PROVE  Claimable(worker[v].job)'
    BY DEF PickClaimable
  <2>1. v # w /\ worker'[v] = worker[v]
    BY <1>w
  <2>2. /\ worker[v].job \in Jobs /\ lock[worker[v].job] = v /\ Claimable(worker[v].job)
        /\ worker[v].job # j
    BY <1>0, <1>w, <2>1, QueueConstants DEF RowLocks, PickClaimable, TypeOK, WorkerState
  <2>. QED  BY <1>r, <2>1, <2>2 DEF Claimable, LeaseExpired
<1>4. SweptSpent'
  <2>. SUFFICES ASSUME NEW v \in Workers, worker'[v].pc \in {"reading", "locked"},
                       NEW i \in worker'[v].exhausted
                PROVE  job'[i].attempts = MaxAttempts /\ job'[i].status \in Terminal \cup {"running"}
    BY DEF SweptSpent
  <2>1. v # w /\ worker'[v] = worker[v]
    BY <1>w
  <2>2. i \in Jobs /\ job[i].attempts = MaxAttempts /\ job[i].status \in Terminal \cup {"running"}
    BY <1>0, <2>1 DEF SweptSpent, TypeOK, WorkerState
  <2>. QED  BY <1>r, <2>2, QueueConstants DEF Terminal
<1>5. AttemptFence'
  <2>. SUFFICES ASSUME NEW v \in Workers, Busy(v)'
                PROVE  /\ worker'[v].job \in Jobs
                       /\ job'[worker'[v].job].owner = v
                            => worker'[v].attempt = job'[worker'[v].job].attempts
    BY DEF AttemptFence
  <2>1. v # w /\ worker'[v] = worker[v] /\ Busy(v)
    BY <1>w DEF Busy
  <2>. QED  BY <1>0, <1>r, <2>1, QueueConstants DEF AttemptFence
<1>6. RunningRows'
  BY <1>0, <1>r DEF RunningRows
<1>7. AttemptAccounting'
  BY <1>0, <1>r, QueueConstants DEF AttemptAccounting
<1>. QED  BY <1>1, <1>2, <1>3, <1>4, <1>5, <1>6, <1>7 DEF SafeInv

\* Fail preserves SafeInv.
LEMMA SafeFail ==
    ASSUME SafeInv, NEW w \in Workers, Fail(w)
    PROVE  SafeInv'
<1>0. TypeOK /\ RowLocks /\ PickClaimable /\ SweptSpent /\ AttemptFence /\ RunningRows
        /\ AttemptAccounting
  BY DEF SafeInv
<1>. DEFINE j == worker[w].job
<1>w. /\ worker[w].pc = "recording" /\ Busy(w) /\ j \in Jobs /\ lock[j] = None
      /\ worker'[w] = IdleWorker /\ IdleWorker.pc = "idle" /\ IdleWorker \in WorkerState
      /\ \A v \in Workers \ {w} : worker'[v] = worker[v]
      /\ lock' = lock
  BY <1>0, QueueConstants DEF Fail, TypeOK, WorkerState, IdleWorker, Busy, AttemptFence, Outcomes
<1>r. /\ \A i \in Jobs \ {j} : job'[i] = job[i]
      /\ job' \in [Jobs -> JobRow] /\ gen' \in [Jobs -> GenStatus]
      /\ \/ job'[j] = job[j]
         \/ /\ OwnedRunning(j, w) /\ job'[j].owner = None
            /\ job'[j].attempts = job[j].attempts
            /\ \/ job'[j].status = "failed"
               \/ job'[j].status = "dead" /\ job[j].attempts = MaxAttempts
               \/ /\ job'[j].status = "retry_scheduled"
                  /\ job[j].attempts \in 1..(MaxAttempts - 1)
  <2>1. job[j] \in JobRow /\ (OwnedRunning(j, w) => job[j].attempts >= 1)
    BY <1>0, <1>w DEF TypeOK, RunningRows, OwnedRunning
  <2>2. \A n \in 0..Backoff, st \in {"failed", "dead", "retry_scheduled"} :
           /\ Released(job[j], st, n) \in JobRow
           /\ Released(job[j], st, n).status = st /\ Released(job[j], st, n).owner = None
           /\ Released(job[j], st, n).attempts = job[j].attempts
    <3>1. {"failed", "dead", "retry_scheduled"} \subseteq JobStatus
      BY DEF JobStatus
    <3>. QED  BY <2>1, <3>1, ReleasedRow
  <2>3. job[j].availableIn \in 0..Backoff /\ Backoff \in 0..Backoff
        /\ job[j].attempts \in 0..MaxAttempts
    BY <2>1, QueueConstants DEF JobRow
  <2>4. CASE ~OwnedRunning(j, w)
    BY <1>0, <2>4 DEF Fail, TypeOK
  <2>5. CASE OwnedRunning(j, w) /\ worker[w].outcome # "non_retryable"
             /\ job[j].attempts < MaxAttempts
    <3>1. job' = [job EXCEPT ![j] = Released(@, "retry_scheduled", Backoff)]
          /\ gen' = [gen EXCEPT ![j] = "queued"]
      BY <2>5 DEF Fail
    <3>. QED  BY <1>0, <1>w, <2>1, <2>2, <2>3, <2>5, <3>1, QueueConstants DEF TypeOK, GenStatus
  <2>6. CASE OwnedRunning(j, w) /\ ~(worker[w].outcome # "non_retryable"
             /\ job[j].attempts < MaxAttempts)
    <3>1. PICK st \in {"dead", "failed"} :
             /\ job' = [job EXCEPT ![j] = Released(@, st, @.availableIn)]
             /\ gen' = [gen EXCEPT ![j] = "failed"]
             /\ st = "dead" => worker[w].outcome # "non_retryable"
      BY <2>6 DEF Fail
    <3>. QED  BY <1>0, <1>w, <2>1, <2>2, <2>3, <2>6, <3>1, QueueConstants DEF TypeOK, GenStatus
  <2>. QED  BY <2>4, <2>5, <2>6
<1>1. TypeOK'
  <2>1. worker' \in [Workers -> WorkerState]
    BY <1>0, <1>w DEF Fail, TypeOK
  <2>. QED  BY <1>0, <1>w, <1>r, <2>1 DEF TypeOK
<1>2. RowLocks'
  BY <1>0, <1>w DEF RowLocks
<1>3. PickClaimable'
  <2>. SUFFICES ASSUME NEW v \in Workers, worker'[v].pc = "locked", worker'[v].job # None
                PROVE  Claimable(worker[v].job)'
    BY DEF PickClaimable
  <2>1. v # w /\ worker'[v] = worker[v]
    BY <1>w
  <2>2. /\ worker[v].job \in Jobs /\ lock[worker[v].job] = v /\ Claimable(worker[v].job)
        /\ worker[v].job # j
    BY <1>0, <1>w, <2>1, QueueConstants DEF RowLocks, PickClaimable, TypeOK, WorkerState
  <2>. QED  BY <1>r, <2>1, <2>2 DEF Claimable, LeaseExpired
<1>4. SweptSpent'
  <2>. SUFFICES ASSUME NEW v \in Workers, worker'[v].pc \in {"reading", "locked"},
                       NEW i \in worker'[v].exhausted
                PROVE  job'[i].attempts = MaxAttempts /\ job'[i].status \in Terminal \cup {"running"}
    BY DEF SweptSpent
  <2>1. v # w /\ worker'[v] = worker[v]
    BY <1>w
  <2>2. i \in Jobs /\ job[i].attempts = MaxAttempts /\ job[i].status \in Terminal \cup {"running"}
    BY <1>0, <2>1 DEF SweptSpent, TypeOK, WorkerState
  <2>. QED  BY <1>r, <2>2, QueueConstants DEF Terminal
<1>5. AttemptFence'
  <2>. SUFFICES ASSUME NEW v \in Workers, Busy(v)'
                PROVE  /\ worker'[v].job \in Jobs
                       /\ job'[worker'[v].job].owner = v
                            => worker'[v].attempt = job'[worker'[v].job].attempts
    BY DEF AttemptFence
  <2>1. v # w /\ worker'[v] = worker[v] /\ Busy(v)
    BY <1>w DEF Busy
  <2>. QED  BY <1>0, <1>r, <2>1, QueueConstants DEF AttemptFence
<1>6. RunningRows'
  BY <1>0, <1>r DEF RunningRows
<1>7. AttemptAccounting'
  BY <1>0, <1>r, QueueConstants DEF AttemptAccounting
<1>. QED  BY <1>1, <1>2, <1>3, <1>4, <1>5, <1>6, <1>7 DEF SafeInv

\* Crash preserves SafeInv.
LEMMA SafeCrash ==
    ASSUME SafeInv, NEW w \in Workers, Crash(w)
    PROVE  SafeInv'
<1>0. TypeOK /\ RowLocks /\ PickClaimable /\ SweptSpent /\ AttemptFence /\ RunningRows
        /\ AttemptAccounting
  BY DEF SafeInv
<1>1. TypeOK'
  BY <1>0, QueueConstants DEF TypeOK, JobRow, WorkerState, IdleWorker, JobStatus, GenStatus, Outcomes, Crash, PickClaimable, Claimable, Busy
<1>2. RowLocks'
  BY <1>0, <1>1, QueueConstants DEF TypeOK, JobRow, WorkerState, IdleWorker, JobStatus, GenStatus, Outcomes, Crash, RowLocks, RowLocks
<1>3. PickClaimable'
  BY <1>0, <1>1, QueueConstants DEF TypeOK, JobRow, WorkerState, IdleWorker, JobStatus, GenStatus, Outcomes, Crash, PickClaimable, Claimable, LeaseExpired, RowLocks
<1>4. SweptSpent'
  BY <1>0, <1>1, QueueConstants DEF TypeOK, JobRow, WorkerState, IdleWorker, JobStatus, GenStatus, Outcomes, Crash, SweptSpent, Terminal, LeaseExpired, RowLocks
<1>5. AttemptFence'
  BY <1>0, <1>1, QueueConstants DEF TypeOK, JobRow, WorkerState, IdleWorker, JobStatus, GenStatus, Outcomes, Crash, AttemptFence, Busy, RowLocks
<1>6. RunningRows'
  BY <1>0, <1>1, QueueConstants DEF TypeOK, JobRow, WorkerState, IdleWorker, JobStatus, GenStatus, Outcomes, Crash, RunningRows, RowLocks
<1>7. AttemptAccounting'
  BY <1>0, <1>1, QueueConstants DEF TypeOK, JobRow, WorkerState, IdleWorker, JobStatus, GenStatus, Outcomes, Crash, AttemptAccounting, RowLocks
<1>. QED  BY <1>1, <1>2, <1>3, <1>4, <1>5, <1>6, <1>7 DEF SafeInv

\* Tick preserves SafeInv.
LEMMA SafeTick ==
    ASSUME SafeInv, Tick
    PROVE  SafeInv'
<1>0. TypeOK /\ RowLocks /\ PickClaimable /\ SweptSpent /\ AttemptFence /\ RunningRows
        /\ AttemptAccounting
  BY DEF SafeInv

<1>r. \A j \in Jobs :
         /\ job'[j] \in JobRow
         /\ job'[j].status = job[j].status /\ job'[j].owner = job[j].owner
         /\ job'[j].attempts = job[j].attempts
  BY <1>0, TickedRow DEF Tick, TypeOK
<1>w. \A w \in Workers :
         /\ worker[w].pc \notin {"reading", "locked"}
         /\ worker'[w] \in WorkerState
         /\ worker'[w].pc \notin {"reading", "locked"}
         /\ Busy(w)' <=> Busy(w)
         /\ Busy(w) => worker'[w].job = worker[w].job /\ worker'[w].attempt = worker[w].attempt
  <2>. SUFFICES ASSUME NEW w \in Workers PROVE
         /\ worker[w].pc \notin {"reading", "locked"}
         /\ worker'[w] \in WorkerState
         /\ worker'[w].pc \notin {"reading", "locked"}
         /\ Busy(w)' <=> Busy(w)
         /\ Busy(w) => worker'[w].job = worker[w].job /\ worker'[w].attempt = worker[w].attempt
    OBVIOUS
  <2>1. /\ worker[w] \in WorkerState /\ worker[w].pc \notin {"reading", "locked"}
        /\ Busy(w) => worker[w].left > -Overrun
    BY <1>0 DEF Tick, MayTick, TypeOK
  <2>2. CASE Busy(w)
    <3>1. worker'[w] = [worker[w] EXCEPT !.left = @ - 1]
      BY <2>2 DEF Tick, Busy
    <3>. QED  BY <2>1, <2>2, <3>1, QueueConstants DEF WorkerState, Busy
  <2>3. CASE ~Busy(w) /\ worker[w].pc = "waiting"
    <3>1. worker'[w] = IdleWorker
      BY <2>3 DEF Tick
    <3>. QED  BY <2>1, <2>3, <3>1, QueueConstants DEF WorkerState, Busy, IdleWorker
  <2>4. CASE ~Busy(w) /\ worker[w].pc # "waiting"
    <3>1. worker'[w] = worker[w]
      BY <2>4 DEF Tick
    <3>. QED  BY <2>1, <2>4, <3>1 DEF Busy
  <2>. QED  BY <2>2, <2>3, <2>4
<1>1. TypeOK'
  BY <1>0, <1>r, <1>w DEF Tick, TypeOK
<1>2. RowLocks'
  BY <1>0, <1>w DEF Tick, RowLocks
<1>3. PickClaimable'
  BY <1>w DEF PickClaimable
<1>4. SweptSpent'
  BY <1>w DEF SweptSpent
<1>5. AttemptFence'
  BY <1>0, <1>r, <1>w DEF AttemptFence
<1>6. RunningRows'
  BY <1>0, <1>r DEF RunningRows
<1>7. AttemptAccounting'
  BY <1>0, <1>r DEF AttemptAccounting
<1>. QED  BY <1>1, <1>2, <1>3, <1>4, <1>5, <1>6, <1>7 DEF SafeInv

\* SafeInv is inductive.
LEMMA SafeStep == SafeInv /\ [Next]_vars => SafeInv'
<1>. SUFFICES ASSUME SafeInv, [Next]_vars PROVE SafeInv'
  OBVIOUS
<1>1. CASE UNCHANGED vars
  BY <1>1 DEF vars, SafeInv, TypeOK, RowLocks, PickClaimable, Claimable, LeaseExpired,
              SweptSpent, AttemptFence, Busy, RunningRows, AttemptAccounting
<1>2. ASSUME NEW j \in Jobs, Enqueue(j) PROVE SafeInv'
  BY <1>2, SafeEnqueue
<1>3. ASSUME NEW w \in Workers, Claim(w) PROVE SafeInv'
  BY <1>3, SafeReadExhausted, SafeLockRows, SafeCommitClaim DEF Claim
<1>4. ASSUME NEW w \in Workers, Execute(w) PROVE SafeInv'
  BY <1>4, SafeStartExecution, SafeFinishExecution, SafeComplete, SafeFail DEF Execute
<1>5. ASSUME NEW w \in Workers, Crash(w) PROVE SafeInv'
  BY <1>5, SafeCrash
<1>6. CASE Tick
  BY <1>6, SafeTick
<1>. QED  BY <1>1, <1>2, <1>3, <1>4, <1>5, <1>6 DEF Next

\* SafeInv holds initially.
LEMMA SafeInit == Init => SafeInv
<1>. SUFFICES ASSUME Init PROVE SafeInv
  OBVIOUS
<1>1. TypeOK
  <2>1. 0 \in 0..MaxAttempts /\ 0 \in 0..Backoff /\ 0 \in 0..Lease
    BY QueueConstants
  <2>2. job \in [Jobs -> JobRow]
    BY <2>1 DEF Init, JobRow, JobStatus
  <2>. QED  BY <2>2, IdleWorkerState DEF Init, TypeOK, GenStatus
<1>2. \A w \in Workers : worker[w].pc = "idle" /\ ~Busy(w)
  BY IdleWorkerState DEF Init, Busy
<1>3. RowLocks /\ PickClaimable /\ SweptSpent /\ AttemptFence
  BY <1>2, QueueConstants DEF Init, RowLocks, PickClaimable, SweptSpent, AttemptFence
<1>4. RunningRows /\ AttemptAccounting
  BY DEF Init, RunningRows, AttemptAccounting
<1>. QED  BY <1>1, <1>3, <1>4 DEF SafeInv

\* SafeInv is an invariant of the queue whatever the relation between the
\* timeout, the lease and the delays of the workers.
THEOREM Safety == Spec => []SafeInv
<1>1. Init => SafeInv
  BY SafeInit
<1>2. SafeInv /\ [Next]_vars => SafeInv'
  BY SafeStep
<1>. QED  BY <1>1, <1>2, PTL DEF Spec

\* Types: in particular attempts never passes the limit, the bound that the
\* sweep and the claim's WHERE clause keep together.
THEOREM TypeCorrect == Spec => []TypeOK
<1>1. SafeInv => TypeOK
  BY DEF SafeInv
<1>. QED  BY <1>1, Safety, PTL

\* fail, claim and the sweep count attempts correctly on rows they last read
\* before another worker's transaction: see AttemptAccounting.
THEOREM AttemptsAccounted == Spec => []AttemptAccounting
<1>1. SafeInv => AttemptAccounting
  BY DEF SafeInv
<1>. QED  BY <1>1, Safety, PTL

\* A worker that stalled past its lease never overwrites a later attempt: see
\* OutcomeOfCurrentAttempt.
THEOREM Fencing == Spec => OutcomeOfCurrentAttempt
<1>. DEFINE Fenced == \A w \in Workers :
              (worker[w].pc = "recording" /\ worker'[w].pc = "idle")
                 => \/ job' = job
                    \/ worker[w].attempt = job[worker[w].job].attempts
<1>1. SafeInv /\ [Next]_vars => [Fenced]_vars
  <2>. SUFFICES ASSUME SafeInv, Next, NEW w \in Workers,
                       worker[w].pc = "recording", worker'[w].pc = "idle", job' # job
                PROVE  worker[w].attempt = job[worker[w].job].attempts
    OBVIOUS
  <2>0. TypeOK /\ AttemptFence
    BY DEF SafeInv
  <2>1. ASSUME NEW j \in Jobs, Enqueue(j) PROVE FALSE
    BY <2>1 DEF Enqueue
  <2>2. ASSUME NEW v \in Workers, ReadExhausted(v) \/ LockRows(v) PROVE FALSE
    BY <2>2 DEF ReadExhausted, LockRows
  <2>3. ASSUME NEW v \in Workers, CommitClaim(v) PROVE FALSE
    BY <2>0, <2>3 DEF CommitClaim, TypeOK
  <2>4. ASSUME NEW v \in Workers, Execute(v), v # w PROVE FALSE
    BY <2>0, <2>4 DEF Execute, StartExecution, FinishExecution, Complete, Fail, TypeOK
  <2>5. CASE Execute(w)
    <3>1. OwnedRunning(worker[w].job, w)
      BY <2>5 DEF Execute, StartExecution, FinishExecution, Complete, Fail
    <3>. QED  BY <2>0, <3>1 DEF AttemptFence, Busy, OwnedRunning
  <2>6. ASSUME NEW v \in Workers, Crash(v) PROVE FALSE
    BY <2>6 DEF Crash
  <2>7. CASE Tick
    <3>1. worker'[w] = [worker[w] EXCEPT !.left = @ - 1]
      BY <2>7 DEF Tick, Busy
    <3>2. worker'[w].pc = worker[w].pc
      BY <2>0, <3>1 DEF TypeOK, WorkerState
    <3>. QED  BY <3>2
  <2>. QED  BY <2>1, <2>2, <2>3, <2>4, <2>5, <2>6, <2>7 DEF Next, Claim
<1>. QED  BY <1>1, Safety, PTL DEF Spec, OutcomeOfCurrentAttempt

----------------------------------------------------------------------------
(* The consequences of Prompt. *)

\* With prompt workers the lease of a busy worker has not expired.
LEMMA LeaseAlive ==
    ASSUME Prompt, PromptInv, NEW w \in Workers, Busy(w)
    PROVE  /\ worker[w].job \in Jobs
           /\ job[worker[w].job].status = "running" /\ job[worker[w].job].owner = w
           /\ job[worker[w].job].leaseLeft > 0
           /\ job[worker[w].job].leaseLeft = worker[w].left + (Lease - Timeout)
           /\ gen[worker[w].job] = "running"
<1>1. TypeOK /\ LeaseCovers /\ StatusesAgree
  BY DEF PromptInv, SafeInv
<1>2. worker[w].left \in (-Overrun)..Timeout
  BY <1>1 DEF TypeOK, WorkerState
<1>3. /\ worker[w].job \in Jobs /\ OwnedRunning(worker[w].job, w)
      /\ job[worker[w].job].leaseLeft = worker[w].left + (Lease - Timeout)
  BY <1>1 DEF LeaseCovers
<1>4. job[worker[w].job].leaseLeft > 0
  BY <1>2, <1>3, QueueConstants DEF Prompt
<1>. QED  BY <1>1, <1>3, <1>4 DEF OwnedRunning, StatusesAgree, ShownAs

\* The commit of a claim or a sweep touches no row of a busy worker.
LEMMA PromptClaim ==
    ASSUME Prompt, PromptInv, NEW w \in Workers, CommitClaim(w)
    PROVE  LeaseCovers' /\ SweptAbandoned' /\ StatusesAgree'
<1>0. /\ TypeOK /\ RowLocks /\ PickClaimable /\ LeaseCovers /\ SweptAbandoned /\ StatusesAgree
      /\ SweptSpent
  BY DEF PromptInv, SafeInv
<1>. DEFINE dead == worker[w].exhausted
            pick == worker[w].job
<1>a. /\ worker[w].pc = "locked" /\ dead \subseteq Jobs /\ pick \in Jobs \cup {None}
      /\ pick # None => pick \notin dead /\ Claimable(pick)
      /\ \A j \in dead : LeaseExpired(j) \/ job[j].status = "dead"
      /\ \A j \in dead : job[j].attempts = MaxAttempts
  BY <1>0 DEF CommitClaim, TypeOK, WorkerState, RowLocks, PickClaimable, SweptAbandoned, SweptSpent
<1>d. \A j \in dead : job'[j].status = "dead" /\ gen'[j] = "failed"
  <2>. SUFFICES ASSUME NEW j \in dead PROVE job'[j].status = "dead" /\ gen'[j] = "failed"
    OBVIOUS
  <2>1. job[j] \in JobRow /\ job'[j] = DeadLettered(job[j]) /\ gen'[j] = "failed"
    BY <1>0, <1>a, QueueConstants DEF CommitClaim, TypeOK
  <2>. QED  BY <2>1, DeadLetteredRow
<1>p. pick # None => /\ pick \in Jobs
                     /\ job'[pick].status = "running" /\ job'[pick].owner = w
                     /\ job'[pick].leaseLeft = Lease /\ gen'[pick] = "running"
  <2>. SUFFICES ASSUME pick # None
                PROVE  /\ pick \in Jobs
                       /\ job'[pick].status = "running" /\ job'[pick].owner = w
                       /\ job'[pick].leaseLeft = Lease /\ gen'[pick] = "running"
    OBVIOUS
  <2>1. /\ pick \in Jobs /\ job[pick] \in JobRow /\ job[pick].attempts < MaxAttempts
        /\ job'[pick] = Claimed(job[pick], w) /\ gen'[pick] = "running"
    BY <1>0, <1>a, QueueConstants DEF CommitClaim, TypeOK, Claimable
  <2>. QED  BY <2>1, ClaimedRow
<1>o. \A j \in Jobs : j \notin dead /\ j # pick => job'[j] = job[j] /\ gen'[j] = gen[j]
  BY <1>0, <1>a DEF CommitClaim
<1>w. \A v \in Workers \ {w} : worker'[v] = worker[v]
  BY <1>0 DEF CommitClaim, TypeOK
<1>v. /\ worker'[w].pc = IF pick = None THEN "waiting" ELSE "claimed"
      /\ pick # None => worker'[w].job = pick /\ worker'[w].left = Timeout
  <2>1. CASE pick = None
    <3>1. worker'[w] = [IdleWorker EXCEPT !.pc = "waiting"]
      BY <1>0, <2>1 DEF CommitClaim, TypeOK
    <3>. QED  BY <2>1, <3>1, IdleWorkerState
  <2>2. CASE pick # None
    <3>1. worker'[w] = [IdleWorker EXCEPT !.pc = "claimed", !.job = pick,
                                          !.attempt = job[pick].attempts + 1]
      BY <1>0, <2>2 DEF CommitClaim, TypeOK
    <3>. QED  BY <2>2, <3>1 DEF IdleWorker
  <2>. QED  BY <2>1, <2>2
<1>1. LeaseCovers'
  <2>. SUFFICES ASSUME NEW v \in Workers, Busy(v)'
                PROVE  /\ worker'[v].job \in Jobs
                       /\ job'[worker'[v].job].status = "running"
                       /\ job'[worker'[v].job].owner = v
                       /\ job'[worker'[v].job].leaseLeft = worker'[v].left + (Lease - Timeout)
    BY DEF LeaseCovers, OwnedRunning
  <2>1. CASE v = w
    <3>1. pick # None
      BY <1>v, <2>1 DEF Busy
    <3>. QED  BY <1>p, <1>v, <2>1, <3>1, QueueConstants
  <2>2. CASE v # w
    <3>1. worker'[v] = worker[v] /\ Busy(v)
      BY <1>w, <2>2 DEF Busy
    <3>2. /\ worker[v].job \in Jobs
          /\ job[worker[v].job].status = "running" /\ job[worker[v].job].owner = v
          /\ job[worker[v].job].leaseLeft > 0
          /\ job[worker[v].job].leaseLeft = worker[v].left + (Lease - Timeout)
      BY <3>1, LeaseAlive
    <3>3. worker[v].job \notin dead /\ worker[v].job # pick
      BY <1>a, <3>2, QueueConstants DEF LeaseExpired, Claimable
    <3>. QED  BY <1>o, <3>1, <3>2, <3>3
  <2>. QED  BY <2>1, <2>2
<1>2. SweptAbandoned'
  <2>. SUFFICES ASSUME NEW v \in Workers, worker'[v].pc \in {"reading", "locked"},
                       NEW j \in worker'[v].exhausted
                PROVE  LeaseExpired(j)' \/ job'[j].status = "dead"
    BY DEF SweptAbandoned
  <2>1. v # w /\ worker'[v] = worker[v]
    BY <1>v, <1>w
  <2>2. /\ j \in Jobs /\ job[j].attempts = MaxAttempts
        /\ LeaseExpired(j) \/ job[j].status = "dead"
    BY <1>0, <2>1 DEF SweptAbandoned, SweptSpent, TypeOK, WorkerState
  <2>3. j # pick
    BY <1>a, <2>2, QueueConstants DEF Claimable
  <2>. QED  BY <1>d, <1>o, <2>2, <2>3 DEF LeaseExpired
<1>3. StatusesAgree'
  <2>. SUFFICES ASSUME NEW j \in Jobs PROVE gen'[j] = ShownAs(job'[j].status)
    BY DEF StatusesAgree
  <2>1. CASE j \in dead
    BY <1>d, <2>1 DEF ShownAs
  <2>2. CASE j = pick
    BY <1>p, <2>2, QueueConstants DEF ShownAs
  <2>3. CASE j \notin dead /\ j # pick
    BY <1>0, <1>o, <2>3 DEF StatusesAgree
  <2>. QED  BY <2>1, <2>2, <2>3
<1>. QED  BY <1>1, <1>2, <1>3

\* An outcome is recorded on a row its worker still owns.
LEMMA PromptRecord ==
    ASSUME Prompt, PromptInv, NEW w \in Workers, Complete(w) \/ Fail(w)
    PROVE  LeaseCovers' /\ SweptAbandoned' /\ StatusesAgree'
<1>0. TypeOK /\ LeaseCovers /\ SweptAbandoned /\ StatusesAgree
  BY DEF PromptInv, SafeInv
<1>. DEFINE j == worker[w].job
<1>w. /\ worker[w].pc = "recording" /\ Busy(w)
      /\ worker'[w] = IdleWorker
      /\ \A v \in Workers \ {w} : worker'[v] = worker[v]
  BY <1>0 DEF Complete, Fail, TypeOK, Busy
<1>j. /\ j \in Jobs /\ OwnedRunning(j, w) /\ job[j].leaseLeft > 0 /\ job[j] \in JobRow
      /\ job[j].availableIn \in 0..Backoff /\ Backoff \in 0..Backoff
  BY <1>0, <1>w, LeaseAlive, QueueConstants DEF OwnedRunning, TypeOK, JobRow
<1>r. /\ \A i \in Jobs \ {j} : job'[i] = job[i] /\ gen'[i] = gen[i]
      /\ gen'[j] = ShownAs(job'[j].status)
  <2>1. PICK st \in {"completed", "retry_scheduled", "dead", "failed"}, n \in 0..Backoff :
           /\ job' = [job EXCEPT ![j] = Released(@, st, n)]
           /\ gen' = [gen EXCEPT ![j] = ShownAs(st)]
    <3>1. CASE Complete(w)
      BY <1>j, <3>1 DEF Complete, ShownAs
    <3>2. CASE Fail(w)
      BY <1>j, <3>2 DEF Fail, ShownAs
    <3>. QED  BY <3>1, <3>2
  <2>2. st \in JobStatus
    BY DEF JobStatus
  <2>3. job'[j].status = st
    BY <1>0, <1>j, <2>1, <2>2, ReleasedRow DEF TypeOK
  <2>. QED  BY <1>0, <1>j, <2>1, <2>3 DEF TypeOK
<1>1. LeaseCovers'
  <2>. SUFFICES ASSUME NEW v \in Workers, Busy(v)'
                PROVE  /\ worker'[v].job \in Jobs
                       /\ job'[worker'[v].job].status = "running"
                       /\ job'[worker'[v].job].owner = v
                       /\ job'[worker'[v].job].leaseLeft = worker'[v].left + (Lease - Timeout)
    BY DEF LeaseCovers, OwnedRunning
  <2>1. v # w /\ worker'[v] = worker[v] /\ Busy(v)
    BY <1>w, IdleWorkerState DEF Busy
  <2>2. /\ worker[v].job \in Jobs
        /\ job[worker[v].job].status = "running" /\ job[worker[v].job].owner = v
        /\ job[worker[v].job].leaseLeft = worker[v].left + (Lease - Timeout)
    BY <2>1, LeaseAlive
  <2>. QED  BY <1>j, <1>r, <2>1, <2>2 DEF OwnedRunning
<1>2. SweptAbandoned'
  <2>. SUFFICES ASSUME NEW v \in Workers, worker'[v].pc \in {"reading", "locked"},
                       NEW i \in worker'[v].exhausted
                PROVE  LeaseExpired(i)' \/ job'[i].status = "dead"
    BY DEF SweptAbandoned
  <2>1. worker'[v] = worker[v]
    BY <1>w, IdleWorkerState
  <2>2. i \in Jobs /\ (LeaseExpired(i) \/ job[i].status = "dead")
    BY <1>0, <2>1 DEF SweptAbandoned, TypeOK, WorkerState
  <2>3. i # j
    BY <1>j, <2>2 DEF LeaseExpired, OwnedRunning
  <2>. QED  BY <1>r, <2>2, <2>3 DEF LeaseExpired
<1>3. StatusesAgree'
  BY <1>0, <1>r DEF StatusesAgree
<1>. QED  BY <1>1, <1>2, <1>3

\* Lease and timeout run down together.
LEMMA PromptTick ==
    ASSUME Prompt, PromptInv, Tick
    PROVE  LeaseCovers' /\ SweptAbandoned' /\ StatusesAgree'
<1>0. TypeOK /\ LeaseCovers /\ SweptAbandoned /\ StatusesAgree
  BY DEF PromptInv, SafeInv
<1>r. \A j \in Jobs : /\ job'[j].status = job[j].status /\ job'[j].owner = job[j].owner
                      /\ job'[j].leaseLeft = CountDown(job[j].leaseLeft)
  BY <1>0, TickedRow DEF Tick, TypeOK
<1>w. \A w \in Workers :
         /\ worker'[w].pc \notin {"reading", "locked"}
         /\ Busy(w)' => /\ Busy(w) /\ worker'[w].job = worker[w].job
                        /\ worker'[w].left = worker[w].left - 1
  <2>. SUFFICES ASSUME NEW w \in Workers PROVE
         /\ worker'[w].pc \notin {"reading", "locked"}
         /\ Busy(w)' => /\ Busy(w) /\ worker'[w].job = worker[w].job
                        /\ worker'[w].left = worker[w].left - 1
    OBVIOUS
  <2>1. worker[w] \in WorkerState /\ worker[w].pc \notin {"reading", "locked"}
    BY <1>0 DEF Tick, MayTick, TypeOK
  <2>2. CASE Busy(w)
    <3>1. worker'[w] = [worker[w] EXCEPT !.left = @ - 1]
      BY <2>2 DEF Tick, Busy
    <3>. QED  BY <2>1, <2>2, <3>1 DEF WorkerState, Busy
  <2>3. CASE ~Busy(w) /\ worker[w].pc = "waiting"
    <3>1. worker'[w] = IdleWorker
      BY <2>3 DEF Tick
    <3>. QED  BY <3>1, IdleWorkerState DEF Busy
  <2>4. CASE ~Busy(w) /\ worker[w].pc # "waiting"
    <3>1. worker'[w] = worker[w]
      BY <2>4 DEF Tick
    <3>. QED  BY <2>1, <2>4, <3>1 DEF Busy
  <2>. QED  BY <2>2, <2>3, <2>4
<1>1. LeaseCovers'
  <2>. SUFFICES ASSUME NEW v \in Workers, Busy(v)'
                PROVE  /\ worker'[v].job \in Jobs
                       /\ job'[worker'[v].job].status = "running"
                       /\ job'[worker'[v].job].owner = v
                       /\ job'[worker'[v].job].leaseLeft = worker'[v].left + (Lease - Timeout)
    BY DEF LeaseCovers, OwnedRunning
  <2>1. Busy(v) /\ worker'[v].job = worker[v].job /\ worker'[v].left = worker[v].left - 1
    BY <1>w
  <2>2. /\ worker[v].job \in Jobs
        /\ job[worker[v].job].status = "running" /\ job[worker[v].job].owner = v
        /\ job[worker[v].job].leaseLeft > 0
        /\ job[worker[v].job].leaseLeft = worker[v].left + (Lease - Timeout)
    BY <2>1, LeaseAlive
  <2>3. worker[v].left \in Int
    BY <1>0, QueueConstants DEF TypeOK, WorkerState
  <2>. QED  BY <1>r, <2>1, <2>2, <2>3, QueueConstants DEF CountDown
<1>2. SweptAbandoned'
  BY <1>w DEF SweptAbandoned
<1>3. StatusesAgree'
  BY <1>0, <1>r DEF StatusesAgree, Tick
<1>. QED  BY <1>1, <1>2, <1>3

\* Steps that leave the rows alone preserve the prompt invariant.
LEMMA PromptOther ==
    ASSUME Prompt, PromptInv, NEW w \in Workers,
           \/ ReadExhausted(w) \/ LockRows(w) \/ StartExecution(w) \/ Crash(w)
           \/ \E o \in Outcomes : FinishExecution(w, o)
    PROVE  LeaseCovers' /\ SweptAbandoned' /\ StatusesAgree'
<1>0. TypeOK /\ LeaseCovers /\ SweptAbandoned /\ StatusesAgree
  BY DEF PromptInv, SafeInv
<1>w. /\ job' = job /\ \A v \in Workers \ {w} : worker'[v] = worker[v]
      /\ Busy(w)' => Busy(w) /\ worker'[w].job = worker[w].job /\ worker'[w].left = worker[w].left
      /\ worker'[w].pc \in {"reading", "locked"} =>
           \/ worker'[w].exhausted = Exhausted
           \/ worker[w].pc = "reading" /\ worker'[w].exhausted = worker[w].exhausted
  <2>0. worker \in [Workers -> WorkerState]
    BY <1>0 DEF TypeOK
  <2>1. CASE ReadExhausted(w)
    BY <2>0, <2>1 DEF ReadExhausted, WorkerState, Busy
  <2>2. CASE LockRows(w)
    <3>1. PICK pick : worker' = [worker EXCEPT ![w].pc = "locked", ![w].job = pick]
      BY <2>2 DEF LockRows
    <3>. QED  BY <2>0, <2>2, <3>1 DEF LockRows, WorkerState, Busy
  <2>3. CASE StartExecution(w)
    BY <2>0, <2>3 DEF StartExecution, WorkerState, Busy
  <2>4. CASE Crash(w)
    BY <2>0, <2>4, IdleWorkerState DEF Crash, WorkerState, Busy
  <2>5. ASSUME NEW o \in Outcomes, FinishExecution(w, o) PROVE <1>w!:
    BY <2>0, <2>5 DEF FinishExecution, WorkerState, Busy
  <2>. QED  BY <2>1, <2>2, <2>3, <2>4, <2>5
<1>g. gen' = gen \/ (Busy(w) /\ gen' = [gen EXCEPT ![worker[w].job] = "running"])
  BY DEF ReadExhausted, LockRows, StartExecution, Crash, FinishExecution, Busy
<1>1. LeaseCovers'
  BY <1>0, <1>w DEF LeaseCovers, OwnedRunning, Busy
<1>2. SweptAbandoned'
  <2>1. \A j \in Exhausted : LeaseExpired(j)
    BY DEF Exhausted
  <2>. QED  BY <1>0, <1>w, <2>1 DEF SweptAbandoned, LeaseExpired
<1>3. StatusesAgree'
  <2>1. Busy(w) => gen[worker[w].job] = "running" /\ worker[w].job \in Jobs
    BY LeaseAlive
  <2>2. gen' = gen
    BY <1>0, <1>g, <2>1 DEF TypeOK
  <2>. QED  BY <1>0, <1>w, <2>2 DEF StatusesAgree
<1>. QED  BY <1>1, <1>2, <1>3

\* A submission preserves the prompt invariant.
LEMMA PromptEnqueue ==
    ASSUME Prompt, PromptInv, NEW j \in Jobs, Enqueue(j)
    PROVE  LeaseCovers' /\ SweptAbandoned' /\ StatusesAgree'
<1>0. TypeOK /\ LeaseCovers /\ SweptAbandoned /\ StatusesAgree
  BY DEF PromptInv, SafeInv
<1>r. /\ job[j].status = "absent" /\ job'[j].status = "queued" /\ gen'[j] = "queued"
      /\ \A i \in Jobs \ {j} : job'[i] = job[i] /\ gen'[i] = gen[i]
      /\ worker' = worker
  BY <1>0 DEF Enqueue, TypeOK, JobRow
<1>1. LeaseCovers'
  BY <1>0, <1>r DEF LeaseCovers, OwnedRunning, Busy
<1>2. SweptAbandoned'
  <2>1. \A w \in Workers : worker[w].exhausted \subseteq Jobs
    BY <1>0 DEF TypeOK, WorkerState
  <2>. QED  BY <1>0, <1>r, <2>1 DEF SweptAbandoned, LeaseExpired
<1>3. StatusesAgree'
  BY <1>0, <1>r DEF StatusesAgree, ShownAs
<1>. QED  BY <1>1, <1>2, <1>3

\* PromptInv is inductive when workers are prompt.
LEMMA PromptStep == Prompt /\ PromptInv /\ [Next]_vars => PromptInv'
<1>. SUFFICES ASSUME Prompt, PromptInv, [Next]_vars PROVE PromptInv'
  OBVIOUS
<1>1. SafeInv'
  BY SafeStep DEF PromptInv
<1>2. LeaseCovers' /\ SweptAbandoned' /\ StatusesAgree'
  <2>1. CASE UNCHANGED vars
    BY <2>1 DEF vars, PromptInv, LeaseCovers, OwnedRunning, Busy, SweptAbandoned, LeaseExpired,
                StatusesAgree
  <2>2. ASSUME NEW w \in Workers, Claim(w) \/ Execute(w) \/ Crash(w)
        PROVE  LeaseCovers' /\ SweptAbandoned' /\ StatusesAgree'
    BY <2>2, PromptOther, PromptClaim, PromptRecord DEF Claim, Execute
  <2>. QED  BY <2>1, <2>2, PromptTick, PromptEnqueue DEF Next
<1>. QED  BY <1>1, <1>2 DEF PromptInv

\* PromptInv is an invariant when workers are prompt.
THEOREM PromptSafety == Prompt /\ Spec => []PromptInv
<1>1. Init => PromptInv
  <2>. SUFFICES ASSUME Init PROVE PromptInv
    OBVIOUS
  <2>1. \A w \in Workers : worker[w].pc = "idle" /\ ~Busy(w)
    BY IdleWorkerState DEF Init, Busy
  <2>. QED  BY <2>1, SafeInit DEF Init, PromptInv, LeaseCovers, SweptAbandoned, StatusesAgree, ShownAs
<1>2. Prompt /\ PromptInv /\ [Next]_vars => PromptInv'
  BY PromptStep
<1>3. Prompt => []Prompt
  <2>1. Prompt => Prompt'
    BY DEF Prompt
  <2>. QED  BY <2>1, PTL
<1>. QED  BY <1>1, <1>2, <1>3, PTL DEF Spec

\* With prompt workers no job is ever run by two of them, and no outcome is
\* dropped: see ExclusiveExecution.
THEOREM Exclusion == Prompt /\ Spec => []ExclusiveExecution
<1>1. PromptInv => ExclusiveExecution
  BY DEF PromptInv, LeaseCovers, ExclusiveExecution
<1>. QED  BY <1>1, PromptSafety, PTL

\* With prompt workers the generation always shows its job's status.
THEOREM StatusAgreement == Prompt /\ Spec => []StatusesAgree
<1>1. PromptInv => StatusesAgree
  BY DEF PromptInv
<1>. QED  BY <1>1, PromptSafety, PTL

\* With prompt workers no sweep, reclaim or late outcome changes a terminal
\* status: see TerminalIsFinal.
THEOREM TerminalStays == Prompt /\ Spec => TerminalIsFinal
<1>. DEFINE Final == \A j \in Jobs : job[j].status \in Terminal => job'[j].status = job[j].status
<1>1. PromptInv /\ [Next]_vars => [Final]_vars
  <2>. SUFFICES ASSUME PromptInv, Next, NEW j \in Jobs, job[j].status \in Terminal
                PROVE  job'[j].status = job[j].status
    OBVIOUS
  <2>0. TypeOK /\ RowLocks /\ PickClaimable /\ SweptAbandoned
    BY DEF PromptInv, SafeInv
  <2>1. ASSUME NEW i \in Jobs, Enqueue(i) PROVE job'[j].status = job[j].status
    BY <2>0, <2>1 DEF Enqueue, TypeOK, Terminal
  <2>2. ASSUME NEW w \in Workers, ReadExhausted(w) \/ LockRows(w) \/ Crash(w)
        PROVE  job'[j].status = job[j].status
    BY <2>2 DEF ReadExhausted, LockRows, Crash
  <2>3. ASSUME NEW w \in Workers, CommitClaim(w) PROVE job'[j].status = job[j].status
    <3>1. worker[w].pc = "locked" /\ j # worker[w].job
      BY <2>0, <2>3, QueueConstants DEF CommitClaim, PickClaimable, Claimable, LeaseExpired, Terminal
    <3>2. CASE j \in worker[w].exhausted
      <4>1. job[j].status = "dead"
        BY <2>0, <3>1, <3>2 DEF SweptAbandoned, LeaseExpired, Terminal
      <4>2. job[j] \in JobRow /\ job'[j] = DeadLettered(job[j])
        BY <2>0, <2>3, <3>1, <3>2 DEF CommitClaim, TypeOK
      <4>. QED  BY <4>1, <4>2, DeadLetteredRow
    <3>3. CASE j \notin worker[w].exhausted
      BY <2>3, <3>1, <3>3 DEF CommitClaim
    <3>. QED  BY <3>2, <3>3
  <2>4. ASSUME NEW w \in Workers, Execute(w) PROVE job'[j].status = job[j].status
    <3>1. job' = job \/ (OwnedRunning(worker[w].job, w)
                          /\ \E r : job' = [job EXCEPT ![worker[w].job] = r])
      BY <2>4 DEF Execute, StartExecution, FinishExecution, Complete, Fail
    <3>. QED  BY <2>0, <3>1 DEF TypeOK, OwnedRunning, Terminal
  <2>5. CASE Tick
    BY <2>0, <2>5, TickedRow DEF Tick, TypeOK
  <2>. QED  BY <2>1, <2>2, <2>3, <2>4, <2>5 DEF Next, Claim
<1>. QED  BY <1>1, PromptSafety, PTL DEF Spec, TerminalIsFinal

----------------------------------------------------------------------------
(* The store. *)

\* What a transaction holds is a version that was really stored.
ReadsOfVersions(c) ==
    /\ client[c].pc # "idle" => client[c].expected \in 1..row.version
    /\ client[c].pc \in {"selected", "updated"} =>
         client[c].seen = log[client[c].expected].doc

\* The lock is held by the client that has updated, and it protects the version
\* that client compared with.
LockProtects(c) ==
    client[c].pc = "updated" =>
        holder = c /\ client[c].expected = row.version /\ row.version < MaxVersion

\* A transaction about to write the contract read none, or its own.
ContractUnread(c) ==
    /\ client[c].op = "create" /\ client[c].pc # "idle" =>
         client[c].section = Contract /\ client[c].value \in Values
    /\ client[c].section = Contract /\ client[c].pc = "begun" =>
         /\ client[c].op \in {"create", "checkpoint"}
         /\ client[c].op = "checkpoint" =>
              log[client[c].expected].doc[Contract] \in {Empty, client[c].value}
    /\ client[c].section = Contract /\ client[c].pc \in {"selected", "updated"} =>
         client[c].seen[Contract] \in {Empty, client[c].value}

\* Only an answered operation has an answer.
AnswerAtTheEnd(c) == client[c].pc # "answered" => client[c].answer = "none"

ClientInv(c) ==
    /\ ReadsOfVersions(c) /\ LockProtects(c) /\ ContractUnread(c)
    /\ AnswerAtTheEnd(c) /\ HonestTo(c)

StoreInv == StoreTypeOK /\ SnapshotChain /\ \A c \in Clients : ClientInv(c)

LEMMA InitInv == StoreInit => StoreInv
<1> SUFFICES ASSUME StoreInit PROVE StoreInv
  OBVIOUS
<1>1. Blank \in Document
  BY DEF Blank, Document
<1>2. row = [version |-> 1, doc |-> Blank] /\ log = << [section |-> Contract, doc |-> Blank] >>
  BY DEF StoreInit
<1>3. ASSUME NEW c \in Clients
      PROVE  /\ client[c] = [pc |-> "idle", op |-> "patch", section |-> Contract,
                             value |-> Empty, expected |-> 1, seen |-> Blank,
                             answer |-> "none"]
             /\ client[c] \in ClientState
  BY <1>1, StoreConstants DEF StoreInit, Fresh, ClientState, Operations, Answers
<1>4. StoreTypeOK
  <2>1. row \in [version: 1..MaxVersion, doc: Document]
    BY <1>1, <1>2, StoreConstants
  <2>2. log \in Seq([section: Sections, doc: Document])
    BY <1>1, <1>2, StoreConstants
  <2>3. client \in [Clients -> ClientState] /\ holder \in Clients \cup {NoClient}
    BY <1>3 DEF StoreInit
  <2> QED BY <2>1, <2>2, <2>3 DEF StoreTypeOK
<1>5. SnapshotChain
  BY <1>2 DEF SnapshotChain
<1>6. ASSUME NEW c \in Clients PROVE ClientInv(c)
  BY <1>3 DEF ClientInv, ReadsOfVersions, LockProtects, ContractUnread, AnswerAtTheEnd, HonestTo
<1> QED BY <1>4, <1>5, <1>6 DEF StoreInv

\* A client that does not move keeps its part of the invariant while the row
\* and its snapshots stay and nobody takes its lock.
LEMMA Bystander ==
    ASSUME NEW d \in Clients, ClientInv(d), UNCHANGED <<row, log>>,
           client'[d] = client[d], client[d].pc = "updated" => holder' = holder
    PROVE  ClientInv(d)'
BY DEF ClientInv, ReadsOfVersions, LockProtects, ContractUnread, AnswerAtTheEnd, HonestTo

\* A step of one client that writes nothing: it is enough to look at that client.
LEMMA QuietStep ==
    ASSUME StoreInv, NEW c \in Clients, NEW k \in ClientState, UNCHANGED <<row, log>>,
           client' = [client EXCEPT ![c] = k], holder' \in Clients \cup {NoClient},
           \A d \in Clients \ {c} : client[d].pc = "updated" => holder' = holder,
           ClientInv(c)'
    PROVE  StoreInv'
<1>1. StoreTypeOK /\ SnapshotChain /\ \A d \in Clients : ClientInv(d)
  BY DEF StoreInv
<1>2. StoreTypeOK'
  BY <1>1 DEF StoreTypeOK
<1>3. SnapshotChain'
  BY <1>1 DEF SnapshotChain
<1>4. ASSUME NEW d \in Clients PROVE ClientInv(d)'
  <2>1. CASE d = c
    BY <2>1
  <2>2. CASE d # c
    <3>1. client'[d] = client[d]
      BY <1>1, <2>2 DEF StoreTypeOK
    <3>2. client[d].pc = "updated" => holder' = holder
      BY <2>2
    <3> QED BY <1>1, <3>1, <3>2, Bystander
  <2> QED BY <2>1, <2>2
<1> QED BY <1>2, <1>3, <1>4 DEF StoreInv

\* The shape of a client's record after it was answered.
LEMMA Answered ==
    ASSUME StoreTypeOK, NEW c \in Clients, NEW a \in Answers, Answer(c, a)
    PROVE  LET k == [client[c] EXCEPT !.pc = "answered", !.answer = a, !.seen = Blank] IN
           /\ k \in ClientState /\ client' = [client EXCEPT ![c] = k] /\ client'[c] = k
           /\ k.pc = "answered" /\ k.answer = a /\ k.op = client[c].op
           /\ k.section = client[c].section /\ k.value = client[c].value
           /\ k.expected = client[c].expected
<1> DEFINE k == [client[c] EXCEPT !.pc = "answered", !.answer = a, !.seen = Blank]
<1>1. Blank \in Document
  BY DEF Blank, Document
<1>2. client[c] \in ClientState
  BY DEF StoreTypeOK
<1>3. k \in ClientState
  BY <1>1, <1>2 DEF ClientState
<1>4. client' = [client EXCEPT ![c] = k] /\ client'[c] = k
  BY DEF Answer, StoreTypeOK
<1>5. /\ k.pc = "answered" /\ k.answer = a /\ k.op = client[c].op
      /\ k.section = client[c].section /\ k.value = client[c].value
      /\ k.expected = client[c].expected
  BY <1>2 DEF ClientState
<1> QED BY <1>3, <1>4, <1>5

\* An answer that promises nothing, or a contract that is really there.
LEMMA AnswerStep ==
    ASSUME StoreInv, NEW c \in Clients, NEW a \in Answers \ {"ok"}, Answer(c, a),
           client[c].pc # "idle",
           a = "existing" => row.doc[Contract] = client[c].value,
           UNCHANGED <<row, log>>, holder' \in Clients \cup {NoClient},
           \A d \in Clients \ {c} : client[d].pc = "updated" => holder' = holder
    PROVE  StoreInv'
<1> DEFINE k == [client[c] EXCEPT !.pc = "answered", !.answer = a, !.seen = Blank]
<1>1. StoreTypeOK /\ ClientInv(c)
  BY DEF StoreInv
<1>2. /\ k \in ClientState /\ client' = [client EXCEPT ![c] = k] /\ client'[c] = k
      /\ k.pc = "answered" /\ k.answer = a /\ k.op = client[c].op
      /\ k.section = client[c].section /\ k.value = client[c].value
      /\ k.expected = client[c].expected
  BY <1>1, Answered
<1> HIDE DEF k
<1>3. ClientInv(c)'
  BY <1>1, <1>2
     DEF ClientInv, ReadsOfVersions, LockProtects, ContractUnread, AnswerAtTheEnd, HonestTo
<1> QED BY <1>2, <1>3, QuietStep

LEMMA JudgeStep ==
    ASSUME StoreInv, NEW c \in Clients, client[c].pc # "idle", Judge(c),
           UNCHANGED <<row, log, holder>>
    PROVE  StoreInv'
<1> DEFINE a == CASE row.doc[Contract] = client[c].value -> "existing"
                  [] row.doc[Contract] = Empty -> "conflict"
                  [] OTHER -> "hard_fail"
<1>1. a \in Answers \ {"ok"} /\ (a = "existing" => row.doc[Contract] = client[c].value)
  BY DEF Answers
<1>2. Answer(c, a)
  BY DEF Judge
<1>3. holder' = holder /\ holder \in Clients \cup {NoClient}
  BY DEF StoreInv, StoreTypeOK
<1> HIDE DEF a
<1> QED BY <1>1, <1>2, <1>3, AnswerStep

LEMMA BeginStep ==
    ASSUME StoreInv, NEW c \in Clients, Request(c)
    PROVE  StoreInv'
<1>1. PICK op \in Operations, x \in Sections, v \in Values \cup {Empty}, n \in 1..row.version :
        /\ Begin(c, op, x, v, n)
        /\ op = "create" => x = Contract /\ v \in Values
        /\ x = Contract => op \in {"create", "checkpoint"}
        /\ x = Contract /\ op = "checkpoint" => log[n].doc[Contract] \in {Empty, v}
  BY StoreConstants DEF Request, BeginPatch, BeginCreate, BeginCheckpoint, MayCheckpoint, Operations
<1> DEFINE k == Fresh(op, x, v, n)
<1>2. StoreTypeOK /\ SnapshotChain
  BY DEF StoreInv
<1>3. k \in ClientState /\ client' = [client EXCEPT ![c] = k] /\ client'[c] = k
  <2>1. Blank \in Document /\ n \in Nat /\ "none" \in Answers
    BY <1>2 DEF Blank, Document, StoreTypeOK, Answers
  <2>2. k \in ClientState
    BY <2>1 DEF Fresh, ClientState
  <2>3. client' = [client EXCEPT ![c] = k]
    BY <1>1 DEF Begin
  <2> QED BY <1>2, <2>2, <2>3 DEF StoreTypeOK
<1>4. /\ k.pc = "begun" /\ k.answer = "none" /\ k.op = op /\ k.section = x
      /\ k.value = v /\ k.expected = n
  BY DEF Fresh
<1>5. UNCHANGED <<row, log, holder>>
  BY <1>1 DEF Begin
<1> HIDE DEF k
<1>6. ClientInv(c)'
  BY <1>1, <1>3, <1>4, <1>5
     DEF ClientInv, ReadsOfVersions, LockProtects, ContractUnread, AnswerAtTheEnd, HonestTo
<1>7. holder' \in Clients \cup {NoClient}
  BY <1>2, <1>5 DEF StoreTypeOK
<1> QED BY <1>3, <1>5, <1>6, <1>7, QuietStep

LEMMA SelectStep ==
    ASSUME StoreInv, NEW c \in Clients, Select(c)
    PROVE  StoreInv'
<1>1. StoreTypeOK /\ SnapshotChain /\ ClientInv(c)
  BY DEF StoreInv
<1>2. client[c].pc = "begun" /\ UNCHANGED <<row, log, holder>>
  BY DEF Select
<1>3. holder' = holder /\ holder' \in Clients \cup {NoClient}
  BY <1>1, <1>2 DEF StoreTypeOK
<1>4. CASE client[c].op = "create" /\ row.doc[Contract] # Empty
  <2>1. Judge(c)
    BY <1>4 DEF Select
  <2> QED BY <1>2, <2>1, JudgeStep
<1>5. CASE ~(client[c].op = "create" /\ row.doc[Contract] # Empty)
           /\ row.version # client[c].expected
  <2>1. Answer(c, "conflict")
    BY <1>5 DEF Select
  <2>2. "conflict" \in Answers \ {"ok"}
    BY DEF Answers
  <2> QED BY <1>2, <1>3, <2>1, <2>2, AnswerStep
<1>6. CASE ~(client[c].op = "create" /\ row.doc[Contract] # Empty)
           /\ row.version = client[c].expected
  <2> DEFINE k == [client[c] EXCEPT !.pc = "selected", !.seen = row.doc]
  <2>1. client' = [client EXCEPT ![c].pc = "selected", ![c].seen = row.doc]
    BY <1>6 DEF Select
  <2>2. client[c] \in ClientState /\ row.doc \in Document
    BY <1>1 DEF StoreTypeOK
  <2>3. k \in ClientState /\ client' = [client EXCEPT ![c] = k] /\ client'[c] = k
    BY <1>1, <2>1, <2>2 DEF StoreTypeOK, ClientState
  <2>4. /\ k.pc = "selected" /\ k.answer = client[c].answer /\ k.op = client[c].op
        /\ k.section = client[c].section /\ k.value = client[c].value
        /\ k.expected = client[c].expected /\ k.seen = row.doc
    BY <2>2 DEF ClientState
  <2>5. log[client[c].expected].doc = row.doc /\ client[c].expected \in 1..row.version
    BY <1>1, <1>2, <1>6 DEF SnapshotChain, ClientInv, ReadsOfVersions
  <2> HIDE DEF k
  <2>6. ClientInv(c)'
    BY <1>1, <1>2, <1>6, <2>3, <2>4, <2>5
       DEF ClientInv, ReadsOfVersions, LockProtects, ContractUnread, AnswerAtTheEnd, HonestTo
  <2> QED BY <1>2, <1>3, <2>3, <2>6, QuietStep
<1> QED BY <1>4, <1>5, <1>6

LEMMA UpdateStep ==
    ASSUME StoreInv, NEW c \in Clients, Update(c)
    PROVE  StoreInv'
<1>1. StoreTypeOK /\ SnapshotChain /\ \A d \in Clients : ClientInv(d)
  BY DEF StoreInv
<1>2. client[c].pc = "selected" /\ holder = NoClient /\ UNCHANGED <<row, log>>
  BY DEF Update
<1>3. \A d \in Clients : client[d].pc # "updated"
  BY <1>1, <1>2, StoreConstants DEF ClientInv, LockProtects
<1>4. client[c] \in ClientState
  BY <1>1 DEF StoreTypeOK
<1>5. CASE row.version = client[c].expected
  <2> DEFINE k == [client[c] EXCEPT !.pc = "updated"]
  <2>1. row.version < MaxVersion /\ holder' = c
    BY <1>5 DEF Update
  <2>2. k \in ClientState /\ client' = [client EXCEPT ![c] = k] /\ client'[c] = k
    BY <1>1, <1>4, <1>5 DEF StoreTypeOK, ClientState, Update
  <2>3. /\ k.pc = "updated" /\ k.answer = client[c].answer /\ k.op = client[c].op
        /\ k.section = client[c].section /\ k.value = client[c].value
        /\ k.expected = client[c].expected /\ k.seen = client[c].seen
    BY <1>4 DEF ClientState
  <2> HIDE DEF k
  <2>4. ClientInv(c)'
    BY <1>1, <1>2, <1>5, <2>1, <2>2, <2>3
       DEF ClientInv, ReadsOfVersions, LockProtects, ContractUnread, AnswerAtTheEnd, HonestTo
  <2> QED BY <1>2, <1>3, <2>1, <2>2, <2>4, QuietStep
<1>6. CASE row.version # client[c].expected /\ client[c].op = "create"
  <2> DEFINE k == [client[c] EXCEPT !.pc = "lost"]
  <2>1. holder' \in Clients \cup {NoClient}
    BY <1>1, <1>6 DEF StoreTypeOK, Update
  <2>2. k \in ClientState /\ client' = [client EXCEPT ![c] = k] /\ client'[c] = k
    BY <1>1, <1>4, <1>6 DEF StoreTypeOK, ClientState, Update
  <2>3. /\ k.pc = "lost" /\ k.answer = client[c].answer /\ k.op = client[c].op
        /\ k.section = client[c].section /\ k.value = client[c].value
        /\ k.expected = client[c].expected
    BY <1>4 DEF ClientState
  <2> HIDE DEF k
  <2>4. ClientInv(c)'
    BY <1>1, <1>2, <2>2, <2>3
       DEF ClientInv, ReadsOfVersions, LockProtects, ContractUnread, AnswerAtTheEnd, HonestTo
  <2> QED BY <1>2, <1>3, <2>1, <2>2, <2>4, QuietStep
<1>7. CASE row.version # client[c].expected /\ client[c].op # "create"
  <2>1. Answer(c, "conflict") /\ holder' \in Clients \cup {NoClient}
    BY <1>1, <1>7 DEF StoreTypeOK, Update
  <2>2. "conflict" \in Answers \ {"ok"}
    BY DEF Answers
  <2> QED BY <1>2, <1>3, <2>1, <2>2, AnswerStep
<1> QED BY <1>5, <1>6, <1>7

LEMMA RereadStep ==
    ASSUME StoreInv, NEW c \in Clients, Reread(c)
    PROVE  StoreInv'
BY JudgeStep DEF Reread

LEMMA RollbackStep ==
    ASSUME StoreInv, NEW c \in Clients, Rollback(c)
    PROVE  StoreInv'
<1>1. StoreTypeOK /\ \A d \in Clients : ClientInv(d)
  BY DEF StoreInv
<1>2. client[c].pc # "idle" /\ Answer(c, "failed") /\ UNCHANGED <<row, log>>
  BY DEF Rollback
<1>3. holder' \in Clients \cup {NoClient}
  BY <1>1 DEF StoreTypeOK, Rollback
<1>4. \A d \in Clients \ {c} : client[d].pc = "updated" => holder' = holder
  BY <1>1 DEF Rollback, ClientInv, LockProtects
<1>5. "failed" \in Answers \ {"ok"}
  BY DEF Answers
<1> QED BY <1>2, <1>3, <1>4, <1>5, AnswerStep

\* What a commit writes: the document of the current version with one section
\* replaced, and the contract kept if there was one.
LEMMA WhatIsWritten ==
    ASSUME StoreInv, NEW c \in Clients, client[c].pc = "updated"
    PROVE  /\ Written(c) = [row.doc EXCEPT ![client[c].section] = client[c].value]
           /\ Written(c) \in Document
           /\ Written(c)[client[c].section] = client[c].value
           /\ \A x \in Sections \ {client[c].section} : Written(c)[x] = row.doc[x]
           /\ row.doc[Contract] # Empty => Written(c)[Contract] = row.doc[Contract]
           /\ client[c].section = Contract => row.doc[Contract] \in {Empty, client[c].value}
           /\ client[c].section \in Sections /\ client[c].value \in Values \cup {Empty}
           /\ client[c].expected = row.version
<1>1. StoreTypeOK /\ SnapshotChain /\ ClientInv(c)
  BY DEF StoreInv
<1>2. client[c].expected = row.version /\ client[c].seen = row.doc
  BY <1>1 DEF ClientInv, LockProtects, ReadsOfVersions, SnapshotChain
<1>3. /\ row.doc \in [Sections -> Values \cup {Empty}]
      /\ client[c].section \in Sections /\ client[c].value \in Values \cup {Empty}
  BY <1>1 DEF StoreTypeOK, Document, ClientState
<1>4. Written(c) = [row.doc EXCEPT ![client[c].section] = client[c].value]
  BY <1>2 DEF Written
<1>5. Written(c) \in Document
  BY <1>3, <1>4 DEF Document
<1>6. /\ Written(c)[client[c].section] = client[c].value
      /\ \A x \in Sections \ {client[c].section} : Written(c)[x] = row.doc[x]
  BY <1>3, <1>4
<1>7. client[c].section = Contract => row.doc[Contract] \in {Empty, client[c].value}
  BY <1>1, <1>2 DEF ClientInv, ContractUnread
<1>8. row.doc[Contract] # Empty => Written(c)[Contract] = row.doc[Contract]
  BY <1>6, <1>7, StoreConstants
<1> QED BY <1>2, <1>3, <1>4, <1>5, <1>6, <1>7, <1>8

LEMMA CommitStep ==
    ASSUME StoreInv, NEW c \in Clients, Commit(c)
    PROVE  StoreInv'
<1> DEFINE k == [client[c] EXCEPT !.pc = "answered", !.answer = "ok", !.seen = Blank]
<1> DEFINE entry == [section |-> client[c].section, doc |-> Written(c)]
<1>1. StoreTypeOK /\ SnapshotChain /\ \A d \in Clients : ClientInv(d)
  BY DEF StoreInv
<1>2. client[c].pc = "updated" /\ Answer(c, "ok") /\ holder' = NoClient
  BY DEF Commit
<1>3. /\ Written(c) \in Document /\ Written(c)[client[c].section] = client[c].value
      /\ \A x \in Sections \ {client[c].section} : Written(c)[x] = row.doc[x]
      /\ row.doc[Contract] # Empty => Written(c)[Contract] = row.doc[Contract]
      /\ client[c].section \in Sections /\ client[c].value \in Values \cup {Empty}
      /\ client[c].expected = row.version
  BY <1>2, WhatIsWritten
<1>4. row.version \in 1..MaxVersion /\ row.version < MaxVersion /\ MaxVersion \in Nat
  BY <1>1, <1>2, StoreConstants DEF ClientInv, LockProtects, StoreTypeOK
<1>5. /\ row'.version = row.version + 1 /\ row'.doc = Written(c)
      /\ row' = [version |-> row.version + 1, doc |-> Written(c)]
      /\ log' = Append(log, entry)
  BY <1>3 DEF Commit
<1>6. /\ k \in ClientState /\ client' = [client EXCEPT ![c] = k] /\ client'[c] = k
      /\ k.pc = "answered" /\ k.answer = "ok" /\ k.op = client[c].op
      /\ k.section = client[c].section /\ k.value = client[c].value
      /\ k.expected = client[c].expected
  <2>1. "ok" \in Answers
    BY DEF Answers
  <2> QED BY <1>1, <1>2, <2>1, Answered
<1>7. entry \in [section: Sections, doc: Document] /\ entry.section = client[c].section
      /\ entry.doc = Written(c)
  BY <1>3
<1> HIDE DEF k, entry
<1>8. /\ log \in Seq([section: Sections, doc: Document]) /\ Len(log) = row.version
      /\ log' \in Seq([section: Sections, doc: Document])
      /\ Len(log') = row.version + 1 /\ log'[row.version + 1] = entry
      /\ \A n \in 1..row.version : log'[n] = log[n]
  BY <1>1, <1>4, <1>5, <1>7 DEF StoreTypeOK, SnapshotChain
<1>9. StoreTypeOK'
  <2>1. row' \in [version: 1..MaxVersion, doc: Document]
    BY <1>3, <1>4, <1>5
  <2>2. client' \in [Clients -> ClientState]
    BY <1>1, <1>6 DEF StoreTypeOK
  <2> QED BY <1>2, <1>8, <2>1, <2>2 DEF StoreTypeOK
<1>10. SnapshotChain'
  <2>1. Len(log') = row'.version /\ log'[row'.version].doc = row'.doc
    BY <1>5, <1>7, <1>8
  <2>2. ASSUME NEW n \in 2..row'.version, NEW x \in Sections \ {log'[n].section}
        PROVE  log'[n].doc[x] = log'[n - 1].doc[x]
    <3>1. CASE n = row.version + 1
      <4>1. n - 1 = row.version /\ row.version \in 1..row.version
        BY <1>4, <3>1
      <4>2. log'[n] = entry /\ log'[n - 1] = log[row.version]
        BY <1>8, <3>1, <4>1
      <4>3. log[row.version].doc = row.doc
        BY <1>1 DEF SnapshotChain
      <4> QED BY <1>3, <1>7, <4>2, <4>3
    <3>2. CASE n # row.version + 1
      <4>1. n \in 2..row.version /\ n \in 1..row.version /\ n - 1 \in 1..row.version
        BY <1>4, <1>5, <3>2
      <4>2. log'[n] = log[n] /\ log'[n - 1] = log[n - 1]
        BY <1>8, <4>1
      <4> QED BY <1>1, <4>1, <4>2 DEF SnapshotChain
    <3> QED BY <3>1, <3>2
  <2> QED BY <2>1, <2>2 DEF SnapshotChain
<1>11. ClientInv(c)'
  <2>1. client[c].op = "create" => client[c].section = Contract
    BY <1>1, <1>2 DEF ClientInv, ContractUnread
  <2>2. HonestTo(c)'
    BY <1>3, <1>4, <1>5, <1>6, <1>7, <1>8, <2>1 DEF HonestTo
  <2>3. client'[c].expected \in 1..row'.version
    BY <1>3, <1>4, <1>5, <1>6
  <2>4. client'[c].op = "create" => client'[c].section = Contract /\ client'[c].value \in Values
    BY <1>1, <1>2, <1>6 DEF ClientInv, ContractUnread
  <2> QED BY <1>6, <2>2, <2>3, <2>4
        DEF ClientInv, ReadsOfVersions, LockProtects, ContractUnread, AnswerAtTheEnd
<1>12. ASSUME NEW d \in Clients, d # c PROVE ClientInv(d)'
  <2>1. client'[d] = client[d] /\ ClientInv(d) /\ client[d] \in ClientState
    BY <1>1, <1>6, <1>12 DEF StoreTypeOK
  <2>2. client[d].pc # "updated"
    BY <1>1, <1>2, <1>12 DEF ClientInv, LockProtects
  <2>3. client[d].pc # "idle" => /\ client[d].expected \in 1..row.version
                                /\ client[d].expected \in 1..row'.version
                                /\ log'[client[d].expected] = log[client[d].expected]
    BY <1>4, <1>5, <1>8, <2>1 DEF ClientInv, ReadsOfVersions
  <2>4. ReadsOfVersions(d)' /\ LockProtects(d)' /\ ContractUnread(d)' /\ AnswerAtTheEnd(d)'
    BY <2>1, <2>2, <2>3 DEF ClientInv, ReadsOfVersions, LockProtects, ContractUnread, AnswerAtTheEnd
  <2>5. HonestTo(d)'
    <3>1. client[d].answer = "ok" =>
            /\ client[d].expected < row'.version
            /\ log'[client[d].expected + 1] = log[client[d].expected + 1]
      <4> SUFFICES ASSUME client[d].answer = "ok"
                   PROVE  /\ client[d].expected < row'.version
                          /\ log'[client[d].expected + 1] = log[client[d].expected + 1]
        OBVIOUS
      <4>1. client[d].expected < row.version /\ client[d].expected \in Nat
        BY <2>1 DEF ClientInv, HonestTo, ClientState
      <4> QED BY <1>4, <1>5, <1>8, <4>1
    <3>2. client[d].op = "create" /\ client[d].answer \in {"ok", "existing"} =>
            row'.doc[Contract] = client[d].value
      <4> SUFFICES ASSUME client[d].op = "create", client[d].answer \in {"ok", "existing"}
                   PROVE  row'.doc[Contract] = client[d].value
        OBVIOUS
      <4>1. client[d].pc # "idle"
        BY <2>1 DEF ClientInv, AnswerAtTheEnd
      <4>2. row.doc[Contract] = client[d].value /\ client[d].value \in Values
        BY <2>1, <4>1 DEF ClientInv, HonestTo, ContractUnread
      <4> QED BY <1>3, <1>5, <4>2, StoreConstants
    <3> QED BY <2>1, <3>1, <3>2 DEF ClientInv, HonestTo
  <2> QED BY <2>4, <2>5 DEF ClientInv
<1> QED BY <1>9, <1>10, <1>11, <1>12 DEF StoreInv

LEMMA StutterStep ==
    ASSUME StoreInv, UNCHANGED storeVars
    PROVE  StoreInv'
BY DEF StoreInv, storeVars, StoreTypeOK, SnapshotChain, ClientInv, ReadsOfVersions, LockProtects,
       ContractUnread, AnswerAtTheEnd, HonestTo

\* Every step of update_workflow_state and its callers keeps the invariant.
THEOREM StoreSafety == StoreSpec => []StoreInv
<1>1. StoreInv /\ [StoreNext]_storeVars => StoreInv'
  <2> SUFFICES ASSUME StoreInv, StoreNext PROVE StoreInv'
    BY StutterStep
  <2>1. PICK c \in Clients : Request(c) \/ Work(c) \/ Rollback(c)
    BY DEF StoreNext
  <2> QED BY <2>1, BeginStep, SelectStep, UpdateStep, RereadStep, CommitStep, RollbackStep
        DEF Work
<1> QED BY <1>1, InitInv, PTL DEF StoreSpec

\* Types: row, snapshots, lock and clients keep their shape in every state.
THEOREM StoreTypeCorrect == StoreSpec => []StoreTypeOK
<1>1. StoreInv => StoreTypeOK
  BY DEF StoreInv
<1> QED BY <1>1, StoreSafety, PTL

\* No lost update: the snapshots are the row's whole past, each one changing
\* only the section it names.
THEOREM NoLostUpdate == StoreSpec => []SnapshotChain
<1>1. StoreInv => SnapshotChain
  BY DEF StoreInv
<1> QED BY <1>1, StoreSafety, PTL

\* What PostsService and the checkpoint store tell their callers is true.
THEOREM AnswersHonest == StoreSpec => []HonestAnswers
<1>1. StoreInv => HonestAnswers
  BY DEF StoreInv, ClientInv, HonestAnswers
<1> QED BY <1>1, StoreSafety, PTL

\* Only a commit writes the row, and it writes the document of the version
\* before with one section replaced.
LEMMA WriteStep ==
    ASSUME StoreInv, [StoreNext]_storeVars
    PROVE  \/ UNCHANGED <<row, log>>
           \/ \E c \in Clients : client[c].pc = "updated" /\ Commit(c)
BY DEF storeVars, StoreNext, Request, Work, BeginPatch, BeginCreate, BeginCheckpoint, Begin, Select,
       Update, Reread, Rollback, Commit

\* The contract is written at most once, whoever writes it: the checkpoint, the
\* creation or a generic write.
THEOREM ContractIsWrittenOnce == StoreSpec => ContractWriteOnce
<1>1. StoreInv /\ [StoreNext]_storeVars =>
        [row.doc[Contract] # Empty => row'.doc[Contract] = row.doc[Contract]]_storeVars
  <2> SUFFICES ASSUME StoreInv, [StoreNext]_storeVars, row.doc[Contract] # Empty
               PROVE  row'.doc[Contract] = row.doc[Contract]
    OBVIOUS
  <2>1. CASE UNCHANGED <<row, log>>
    BY <2>1
  <2>2. ASSUME NEW c \in Clients, client[c].pc = "updated", Commit(c)
        PROVE  row'.doc[Contract] = row.doc[Contract]
    <3>1. row'.doc = Written(c)
      BY <2>2 DEF Commit
    <3> QED BY <2>2, <3>1, WhatIsWritten
  <2> QED BY <2>1, <2>2, WriteStep
<1> QED BY <1>1, StoreSafety, PTL DEF StoreSpec, ContractWriteOnce

\* The store implements the versioned document: StoreInit maps to StoreInit, a commit to
\* one Put and every other step to a stutter.
THEOREM Refinement == StoreSpec => Implements
<1>1. StoreInit => Abstract!Init
  <2> SUFFICES ASSUME StoreInit PROVE Documents = << [x \in Sections |-> Empty] >>
    BY DEF Abstract!Init
  <2>1. log = << [section |-> Contract, doc |-> Blank] >>
    BY DEF StoreInit
  <2> QED BY <2>1 DEF Documents, Blank
<1>2. StoreInv /\ [StoreNext]_storeVars => [Abstract!Next]_Documents
  <2> SUFFICES ASSUME StoreInv, [StoreNext]_storeVars PROVE [Abstract!Next]_Documents
    OBVIOUS
  <2>1. CASE UNCHANGED <<row, log>>
    BY <2>1 DEF Documents
  <2>2. ASSUME NEW c \in Clients, client[c].pc = "updated", Commit(c)
        PROVE  Abstract!Put(client[c].section, client[c].value)
    <3> DEFINE entry == [section |-> client[c].section, doc |-> Written(c)]
    <3>1. /\ log \in Seq([section: Sections, doc: Document]) /\ Len(log) = row.version
          /\ log[row.version].doc = row.doc /\ row.version \in Nat \ {0}
      BY StoreConstants DEF StoreInv, StoreTypeOK, SnapshotChain
    <3>2. log' = Append(log, entry) /\ entry.doc = Written(c)
      BY <2>2 DEF Commit
    <3>3. /\ Written(c) = [row.doc EXCEPT ![client[c].section] = client[c].value]
          /\ client[c].section = Contract => row.doc[Contract] \in {Empty, client[c].value}
          /\ Written(c) \in Document
      BY <2>2, WhatIsWritten
    <3> HIDE DEF entry
    <3>4. Len(Documents) = row.version /\ Documents[Len(Documents)] = row.doc
      <4>1. Len(Documents) = row.version
        BY <3>1 DEF Documents
      <4>2. Documents[row.version] = log[row.version].doc
        BY <3>1 DEF Documents
      <4> QED BY <3>1, <4>1, <4>2
    <3>5. Documents' = Append(Documents, Written(c))
      BY <3>1, <3>2, <3>3 DEF Documents
    <3> QED BY <3>3, <3>4, <3>5 DEF Abstract!Put
  <2>3. \A c \in Clients : client[c].pc = "updated" =>
          client[c].section \in Sections /\ client[c].value \in Values \cup {Empty}
    BY WhatIsWritten
  <2> QED BY <2>1, <2>2, <2>3, WriteStep DEF Abstract!Next
<1> QED BY <1>1, <1>2, StoreSafety, PTL DEF StoreSpec, Implements, Abstract!Spec
=============================================================================
