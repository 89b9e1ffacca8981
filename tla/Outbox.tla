------------------------------- MODULE Outbox -------------------------------
(***************************************************************************)
(* The write-back queue: the table sync_outbox with the conflicts it waits *)
(* on, the per-target workers of internal/outbox/worker.go, and every      *)
(* other writer of those rows: the pipeline's transactions that enqueue,   *)
(* the admin API (resolve, dismiss, retry, drop) and the repair action     *)
(* ClearDeadletter.  Each SQL statement, or transaction, is one step; what *)
(* the Go code does between two statements is where other actors step in.  *)
(*                                                                         *)
(* A job is named by the event it reports and the target it goes to.  Row  *)
(* ids are AUTOINCREMENT, so they are never reused and, per target, grow   *)
(* with the event: `ORDER BY id' is the order of events.  A conflict is    *)
(* named by the event that raised it, event_b_id.                          *)
(***************************************************************************)
EXTENDS Naturals

CONSTANTS Source,        \* originators of events
          Target,        \* adapters that receive write-backs
          MaxEvents,     \* bound: events the pipeline commits
          MaxAttempts,   \* worker.go: 10
          MaxRetries,    \* bound: times the user presses retry, over all jobs
          MaxFaults      \* bound: restarts and lost status writes

ASSUME OutboxAssumption ==
  /\ MaxEvents \in Nat
  /\ MaxAttempts \in Nat \ {0}
  /\ MaxRetries \in Nat
  /\ MaxFaults \in Nat

Event == 1..MaxEvents
Job == Event \X Target

\* "none" is the absence of the row or of the conflict.  The two statuses
\* blocked_by_low_confidence and blocked_by_adapter_health of the model
\* package are never written.
JobStatus == {"none", "queued", "running", "retrying", "succeeded",
              "deadletter", "blocked_by_conflict"}
ConflictStatus == {"none", "open", "auto_resolved", "dismissed"}

VARIABLES
  job,        \* rows of sync_outbox, see Row
  conflict,   \* status of the conflict the event raised
  nextEvent,  \* the pipeline's next event id
  worker,     \* per target: where processOne is, and the job it holds
  resolving,  \* conflicts between resolveConflict's two statements
  retries,    \* user retries so far (bound)
  faults,     \* restarts and lost status writes so far (bound)
  asked,      \* history: how often each write-back was asked for
  delivered   \* history: how often its Execute reported success

vars == <<job, conflict, nextEvent, worker, resolving, retries, faults,
          asked, delivered>>

\* waiting: next_retry_at lies in the future.  blocking: blocking_conflict_id
\* is set; the conflict it names is the one the job's own event raised.
Row == [status : JobStatus, attempts : Nat, waiting : BOOLEAN,
        blocking : BOOLEAN]

NewRow(status, blocking) ==
  [status |-> status, attempts |-> 0, waiting |-> FALSE, blocking |-> blocking]

NoRow == NewRow("none", FALSE)

\* Where processOne is.  attempts is the copy of the row's counter that
\* ClaimJob returned.
Idle == [pc |-> "idle", event |-> 0, attempts |-> 0]

Busy == [pc : {"executing", "ok", "failed"}, event : Event, attempts : Nat]

Exists(j) == job[j].status # "none"

\* The job a worker has in hand.
Held(t) == <<worker[t].event, t>>

-----------------------------------------------------------------------------
(* The pipeline's transaction, as far as the outbox sees it.               *)

WritebackTargets(originator) == Target \ {originator}

\* Every target but the originator gets a row; the event id is consumed.
Enqueue(originator, row) ==
  LET new == {nextEvent} \X WritebackTargets(originator) IN
  /\ nextEvent \in Event
  /\ nextEvent' = nextEvent + 1
  /\ job' = [j \in Job |-> IF j \in new THEN row ELSE job[j]]
  /\ asked' = [j \in Job |-> IF j \in new THEN asked[j] + 1 ELSE asked[j]]
  /\ UNCHANGED <<worker, resolving, retries, faults, delivered>>

EnqueueWritebacks(originator) ==
  /\ Enqueue(originator, NewRow("queued", FALSE))
  /\ UNCHANGED conflict

EnqueueBlockedJobs(originator) ==
  /\ Enqueue(originator, NewRow("blocked_by_conflict", TRUE))
  /\ conflict' = [conflict EXCEPT ![nextEvent] = "open"]

-----------------------------------------------------------------------------
(* The worker of one target: processOne.                                   *)

\* Wrong on purpose, as every definition marked "Mutant" is: the statuses that
\* must not be claimed are listed, and blocked_by_conflict is forgotten.
ClaimableByExclusion(t) ==       \* Mutant of Claimable
  {e \in Event : /\ job[<<e, t>>].status \notin
                      {"none", "running", "succeeded", "deadletter"}
                 /\ ~job[<<e, t>>].waiting}

ClaimableQueuedOnly(t) ==        \* Mutant of Claimable: no 'retrying'
  {e \in Event : job[<<e, t>>].status = "queued"}

Claimable(t) ==
  {e \in Event : /\ job[<<e, t>>].status \in {"queued", "retrying"}
                 /\ ~job[<<e, t>>].waiting}

ClaimAny(t) ==                   \* Mutant of ClaimJob: no ORDER BY id
  /\ worker[t].pc = "idle"
  /\ \E e \in Claimable(t) :
       /\ job' = [job EXCEPT ![<<e, t>>].status = "running"]
       /\ worker' = [worker EXCEPT ![t] =
            [pc |-> "executing", event |-> e,
             attempts |-> job[<<e, t>>].attempts]]
  /\ UNCHANGED <<conflict, nextEvent, resolving, retries, faults, asked,
                 delivered>>

ClaimJob(t) ==
  /\ worker[t].pc = "idle"
  /\ \E e \in Claimable(t) :
       /\ \A f \in Claimable(t) : e <= f
       /\ job' = [job EXCEPT ![<<e, t>>].status = "running"]
       /\ worker' = [worker EXCEPT ![t] =
            [pc |-> "executing", event |-> e,
             attempts |-> job[<<e, t>>].attempts]]
  /\ UNCHANGED <<conflict, nextEvent, resolving, retries, faults, asked,
                 delivered>>

ExecuteOk(t) ==
  /\ worker[t].pc = "executing"
  /\ worker' = [worker EXCEPT ![t].pc = "ok"]
  /\ delivered' = [delivered EXCEPT ![Held(t)] = @ + 1]
  /\ UNCHANGED <<job, conflict, nextEvent, resolving, retries, faults, asked>>

ExecuteError(t) ==
  /\ worker[t].pc = "executing"
  /\ worker' = [worker EXCEPT ![t].pc = "failed"]
  /\ UNCHANGED <<job, conflict, nextEvent, resolving, retries, faults, asked,
                 delivered>>

UpdateUpsert(t, row) ==          \* Mutant of Update: re-creates a deleted row
  /\ job' = [job EXCEPT ![Held(t)] = [row EXCEPT !.status = "ok"]]
  /\ worker' = [worker EXCEPT ![t] = Idle]
  /\ UNCHANGED <<conflict, nextEvent, resolving, retries, faults, asked,
                 delivered>>

UpdateIfFirst(t, row) ==         \* Mutant of Update: only on the first attempt
  /\ job' = [job EXCEPT ![Held(t)] =
       IF Exists(Held(t)) /\ row.attempts < 2 THEN row ELSE @]
  /\ worker' = [worker EXCEPT ![t] = Idle]
  /\ UNCHANGED <<conflict, nextEvent, resolving, retries, faults, asked,
                 delivered>>

\* UPDATE ... WHERE id = ? touches nothing when the row is gone, and asks
\* nothing of the status the row has by now.
Update(t, row) ==
  /\ job' = [job EXCEPT ![Held(t)] = IF Exists(Held(t)) THEN row ELSE @]
  /\ worker' = [worker EXCEPT ![t] = Idle]
  /\ UNCHANGED <<conflict, nextEvent, resolving, retries, faults, asked,
                 delivered>>

MarkSucceeded(t) ==
  /\ worker[t].pc = "ok"
  /\ Update(t, [job[Held(t)] EXCEPT !.status = "succeeded"])

DeadEarly(attempts) == attempts + 2 >= MaxAttempts      \* Mutant of Dead
DeadExactly(attempts) == attempts + 1 = MaxAttempts     \* Mutant of Dead

\* The verdict comes from the claimed copy, the new count from the row.
Dead(attempts) == attempts + 1 >= MaxAttempts

MarkFailed(t) ==
  /\ worker[t].pc = "failed"
  /\ Update(t, [job[Held(t)] EXCEPT
        !.status = IF Dead(worker[t].attempts) THEN "deadletter"
                                               ELSE "retrying",
        !.attempts = @ + 1,
        !.waiting = TRUE])

\* processOne ignores the error of MarkSucceeded and of MarkFailed.
MarkLost(t) ==
  /\ faults < MaxFaults
  /\ worker[t].pc \in {"ok", "failed"}
  /\ worker' = [worker EXCEPT ![t] = Idle]
  /\ faults' = faults + 1
  /\ UNCHANGED <<job, conflict, nextEvent, resolving, retries, asked,
                 delivered>>

\* NextRetry's delay runs out.
RetryDue(j) ==
  /\ job[j].waiting
  /\ job' = [job EXCEPT ![j].waiting = FALSE]
  /\ UNCHANGED <<conflict, nextEvent, worker, resolving, retries, faults,
                 asked, delivered>>

\* The process dies or is stopped and starts again: the tables stay, workers
\* and handlers in flight are gone.  Run starts with nothing but its ticker.
Restart ==
  /\ faults < MaxFaults
  /\ faults' = faults + 1
  /\ worker' = [t \in Target |-> Idle]
  /\ resolving' = {}
  /\ UNCHANGED <<job, conflict, nextEvent, retries, asked, delivered>>

-----------------------------------------------------------------------------
(* The admin API and the repair action.                                    *)

\* resolveConflict's first statement; any winner, whatever the status was.
ResolveConflict(c) ==
  /\ conflict[c] # "none"
  /\ conflict' = [conflict EXCEPT ![c] = "auto_resolved"]
  /\ resolving' = resolving \cup {c}
  /\ UNCHANGED <<job, nextEvent, worker, retries, faults, asked, delivered>>

Blocked(j) == job[j].blocking

UnblockJobsKeepingId(c) ==       \* Mutant of UnblockJobs: the id stays set
  /\ c \in resolving
  /\ resolving' = resolving \ {c}
  /\ job' = [j \in Job |-> IF j[1] = c /\ Blocked(j)
                          THEN [job[j] EXCEPT !.status = "queued"]
                          ELSE job[j]]
  /\ UNCHANGED <<conflict, nextEvent, worker, retries, faults, asked,
                 delivered>>

\* Its second statement: every row that still carries the conflict's id.
UnblockJobs(c) ==
  /\ c \in resolving
  /\ resolving' = resolving \ {c}
  /\ job' = [j \in Job |->
       IF j[1] = c /\ Blocked(j)
       THEN [job[j] EXCEPT !.status = "queued", !.blocking = FALSE]
       ELSE job[j]]
  /\ UNCHANGED <<conflict, nextEvent, worker, retries, faults, asked,
                 delivered>>

\* The error of the second statement is dropped.
UnblockLost(c) ==
  /\ faults < MaxFaults
  /\ c \in resolving
  /\ resolving' = resolving \ {c}
  /\ faults' = faults + 1
  /\ UNCHANGED <<job, conflict, nextEvent, worker, retries, asked, delivered>>

DismissConflict(c) ==
  /\ conflict[c] # "none"
  /\ conflict' = [conflict EXCEPT ![c] = "dismissed"]
  /\ UNCHANGED <<job, nextEvent, worker, resolving, retries, faults, asked,
                 delivered>>

\* Any row, whatever its status; the blocking conflict stays in the row.
RetryOutbox(j) ==
  /\ retries < MaxRetries
  /\ Exists(j)
  /\ job' = [job EXCEPT ![j] = [@ EXCEPT !.status = "queued",
                                         !.attempts = 0, !.waiting = FALSE]]
  /\ asked' = [asked EXCEPT ![j] = @ + 1]
  /\ retries' = retries + 1
  /\ UNCHANGED <<conflict, nextEvent, worker, resolving, faults, delivered>>

DropOutbox(j) ==
  /\ Exists(j)
  /\ job' = [job EXCEPT ![j] = NoRow]
  /\ UNCHANGED <<conflict, nextEvent, worker, resolving, retries, faults,
                 asked, delivered>>

ClearDeadletter ==
  /\ \E j \in Job : job[j].status = "deadletter"
  /\ job' = [j \in Job |-> IF job[j].status = "deadletter" THEN NoRow
                                                           ELSE job[j]]
  /\ UNCHANGED <<conflict, nextEvent, worker, resolving, retries, faults,
                 asked, delivered>>

-----------------------------------------------------------------------------
Init ==
  /\ job = [j \in Job |-> NoRow]
  /\ conflict = [e \in Event |-> "none"]
  /\ nextEvent = 1
  /\ worker = [t \in Target |-> Idle]
  /\ resolving = {}
  /\ retries = 0
  /\ faults = 0
  /\ asked = [j \in Job |-> 0]
  /\ delivered = [j \in Job |-> 0]

Pipeline == \E s \in Source : EnqueueWritebacks(s) \/ EnqueueBlockedJobs(s)

ProcessOne(t) ==
  \/ ClaimJob(t)
  \/ ExecuteOk(t)
  \/ ExecuteError(t)
  \/ MarkSucceeded(t)
  \/ MarkFailed(t)

User ==
  \/ \E c \in Event : ResolveConflict(c) \/ DismissConflict(c)
  \/ \E j \in Job : RetryOutbox(j) \/ DropOutbox(j)
  \/ ClearDeadletter

Fault ==
  \/ \E t \in Target : MarkLost(t)
  \/ \E c \in Event : UnblockLost(c)
  \/ Restart

Next ==
  \/ Pipeline
  \/ \E t \in Target : ProcessOne(t)
  \/ \E j \in Job : RetryDue(j)
  \/ \E c \in Event : UnblockJobs(c)
  \/ User
  \/ Fault

Spec == Init /\ [][Next]_vars

\* A worker's goroutine keeps ticking and an executor returns; time passes;
\* a handler finishes.  Nothing is asked of the user, the pipeline or faults.
Fairness ==
  /\ \A t \in Target : WF_vars(ProcessOne(t))
  /\ \A j \in Job : WF_vars(RetryDue(j))
  /\ \A c \in Event : WF_vars(UnblockJobs(c))

FairSpec == Spec /\ Fairness

-----------------------------------------------------------------------------
(* Properties.                                                             *)

\* Every row, worker and counter has the shape the tables and structs allow.
TypeOK ==
  /\ job \in [Job -> Row]
  /\ conflict \in [Event -> ConflictStatus]
  /\ nextEvent \in 1..(MaxEvents + 1)
  /\ worker \in [Target -> Busy \cup {Idle}]
  /\ resolving \in SUBSET Event
  /\ retries \in 0..MaxRetries
  /\ faults \in 0..MaxFaults
  /\ asked \in [Job -> Nat]
  /\ delivered \in [Job -> Nat]

\* While a conflict is open nothing of the event that raised it reaches a
\* target, unless the user retried that very write-back: blocked rows stay
\* out of ClaimJob's reach through every restart, resolve and dismissal of
\* other conflicts.
ConflictHoldsBack ==
  \A j \in Job :
    conflict[j[1]] = "open" /\ delivered[j] > 0 => asked[j] >= 2

\* No write-back is carried out more often than it was asked for, although
\* workers, retries, drops, resolves and restarts all rewrite its status
\* without looking at the old one.
DeliveredAtMostAsked ==
  \A j \in Job : delivered[j] <= asked[j]

\* The attempt counter passes MaxAttempts by one at most.  It can pass it:
\* resolveConflict requeues a dead-lettered row that was retried by hand
\* while blocked, and leaves the counter alone.
AttemptsBounded ==
  \A j \in Job : job[j].attempts <= MaxAttempts + 1

\* A row the user never retried is dead-lettered after exactly MaxAttempts
\* failures, though the verdict uses a copy of the counter read at the claim.
GivenUpExhausted ==
  \A j \in Job :
    job[j].status = "deadletter" /\ asked[j] < 2
      => job[j].attempts = MaxAttempts

\* Without a restart or a lost status write, a running row is in the hands
\* of its target's worker: nothing else leaves a row in that status.
RunningIsHeld ==
  faults = 0 =>
    \A j \in Job : job[j].status = "running" =>
      worker[j[2]].pc # "idle" /\ worker[j[2]].event = j[1]

\* What may keep a write-back from its turn: a conflict, a failed attempt and
\* its back-off, or the user's retry.
Delayed(j) ==
  conflict[j[1]] # "none" \/ job[j].attempts > 0 \/ asked[j] >= 2

\* Progress reaches a target in the order in which it was accepted: a younger
\* write-back is carried out before an older one, although rows come and go
\* between claims, only when the older one was delayed, or after a fault.
OvertakenForCause ==
  faults = 0 =>
    \A j, k \in Job :
      /\ j[2] = k[2] /\ j[1] < k[1]
      /\ delivered[k] > 0
      /\ Exists(j) /\ delivered[j] = 0
      => Delayed(j)

-----------------------------------------------------------------------------
(* What makes the safety properties inductive.                             *)

Count(b) == IF b THEN 1 ELSE 0
Queued(j) == job[j].status \in {"queued", "retrying"}
Holds(j) == worker[j[2]].pc # "idle" /\ worker[j[2]].event = j[1]

\* The worker may still carry the job out, or hand it back to the queue.
InHand(j) == Holds(j) /\ worker[j[2]].pc # "ok"

\* Each request buys one delivery.  It is spent, or it waits in exactly one
\* place: behind a conflict, in the queue, or in the worker's hand.
Budget ==
  \A j \in Job :
    delivered[j] + Count(Blocked(j)) + Count(Queued(j)) + Count(InHand(j))
      <= asked[j]

\* Nothing exists, and nothing is held, that was never asked for; events
\* still to come, and rows that were dropped, have left no trace.
Asked ==
  /\ \A j \in Job : Blocked(j) => Exists(j)
  /\ \A j \in Job : Exists(j) \/ Holds(j) => asked[j] >= 1
  /\ \A j \in Job : j[1] >= nextEvent => asked[j] = 0
  /\ \A e \in Event : e >= nextEvent => conflict[e] = "none"

\* An event under an open conflict has not left its blocked rows, and the
\* statement that would release them is not on its way.
HeldBack ==
  /\ \A c \in resolving : conflict[c] \notin {"none", "open"}
  /\ \A j \in Job : conflict[j[1]] = "open" /\ asked[j] < 2 =>
       delivered[j] = 0 /\ ~Queued(j) /\ ~InHand(j)

\* The counter of a row against its status, its conflict and the copy in the
\* worker's hand, which a retry may leave too high and nothing too low.
Counters ==
  \A j \in Job :
    /\ job[j].attempts <= MaxAttempts + 1
    /\ job[j].status # "deadletter" => job[j].attempts <= MaxAttempts
    /\ Blocked(j) => job[j].attempts <= MaxAttempts
    /\ Blocked(j) /\ job[j].status # "deadletter"
         => job[j].attempts < MaxAttempts
    /\ Holds(j) => /\ job[j].status \in {"none", "running", "queued"}
                   /\ job[j].attempts <= worker[j[2]].attempts

\* The same for a row the user never touched.
Untouched ==
  \A j \in Job : Exists(j) /\ asked[j] < 2 =>
    /\ job[j].status = "deadletter" => job[j].attempts = MaxAttempts
    /\ job[j].status # "deadletter" => job[j].attempts < MaxAttempts
    /\ Blocked(j) <=> job[j].status = "blocked_by_conflict"
    /\ Holds(j) => /\ job[j].status = "running"
                   /\ job[j].attempts = worker[j[2]].attempts

\* What makes OvertakenForCause inductive beside IInv: a row that was neither
\* delayed nor delivered is queued and due, or in its worker's hand; and the
\* worker holds nothing younger than such a row.
InTurn ==
  /\ \A j \in Job : job[j].waiting => job[j].attempts > 0
  /\ \A j \in Job : Exists(j) /\ ~Delayed(j) /\ delivered[j] = 0 =>
       /\ job[j].status \in {"queued", "running"}
       /\ Holds(j) => worker[j[2]].pc # "ok"
  /\ faults = 0 =>
       \A j, k \in Job :
         /\ j[2] = k[2] /\ j[1] < k[1]
         /\ delivered[k] > 0 \/ Holds(k)
         /\ Exists(j) /\ delivered[j] = 0
         => Delayed(j)

\* The inductive invariant of the proofs; it relates rows, conflicts, the
\* workers' copies and the two histories at every interleaving of them.
IInv == TypeOK /\ Budget /\ Asked /\ HeldBack /\ Counters /\ Untouched

-----------------------------------------------------------------------------
(* Refinement and liveness, and two statements the code does not meet.     *)

\* The outbox implements the abstract promise about write-backs.
Delivery == INSTANCE WritebackDelivery
              WITH Job <- Job, asked <- asked, delivered <- delivered
DeliverySpec == Delivery!Spec

Live(j) == job[j].status \in {"queued", "running", "retrying"}

\* Whatever is queued is in the end delivered, dead-lettered or dropped:
\* backoff, overtaking by later rows and user requests only delay it.
JobsSettle ==
  \A j \in Job : Live(j) ~> ~Live(j)

\* A resolved conflict does not keep blocking jobs, although status and jobs
\* are updated by two statements.
ResolvedUnblocks ==
  \A c \in Event :
    conflict[c] = "auto_resolved" ~> \A t \in Target : ~Blocked(<<c, t>>)

\* acceptance-checklist.md AC-11: "worker re-claims on restart".  Every row
\* found in status running leaves it again.
RunningReclaimed ==
  \A j \in Job : job[j].status = "running" ~> job[j].status # "running"

\* conflicts_outbox.go:37: "Unblock any outbox jobs that were waiting on this
\* conflict".  A write-back that is under way or delivered is not waiting, so
\* resolving the conflict does not put it back into the queue.
ResolveSparesDelivered ==
  [][\A j \in Job :
       job[j].status \in {"running", "succeeded"} /\ Blocked(j) /\ ~Blocked(j)'
         => job'[j].status # "queued"]_vars
=============================================================================
