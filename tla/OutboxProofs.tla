---------------------------- MODULE OutboxProofs ----------------------------
(***************************************************************************)
(* Theorems about Outbox, for every set of sources and targets and every   *)
(* value of the bounds.  The safety proofs rest on one inductive invariant,*)
(* Budget, that counts for each write-back how often it can still be       *)
(* carried out before somebody asks for it again.                          *)
(***************************************************************************)
EXTENDS Outbox, TLAPS

-----------------------------------------------------------------------------
(* Types.                                                                  *)

\* A row the outbox can write is a Row.
LEMMA NewRowType ==
  ASSUME NEW s \in JobStatus, NEW b \in BOOLEAN
  PROVE  NewRow(s, b) \in Row
BY DEF NewRow, Row

\* So is the row MarkFailed writes.
LEMMA FailedRowType ==
  ASSUME NEW r \in Row, NEW s \in JobStatus, NEW n \in Nat
  PROVE  [r EXCEPT !.status = s, !.attempts = n, !.waiting = TRUE] \in Row
BY DEF Row

\* The row a busy worker holds is one of the table's.
LEMMA HeldType ==
  ASSUME TypeOK, NEW t \in Target, worker[t].pc # "idle"
  PROVE  worker[t] \in Busy /\ Held(t) \in Job
BY DEF TypeOK, Busy, Idle, Held, Job

\* An enqueueing transaction keeps the variables it writes in their types.
LEMMA EnqueueType ==
  ASSUME TypeOK, NEW s, NEW row \in Row, Enqueue(s, row)
  PROVE  /\ job' \in [Job -> Row]
         /\ asked' \in [Job -> Nat]
         /\ nextEvent' \in 1..(MaxEvents + 1)
         /\ UNCHANGED <<worker, resolving, retries, faults, delivered>>
<1>1. job' \in [Job -> Row]
  BY DEF Enqueue, TypeOK
<1>2. asked' \in [Job -> Nat]
  BY DEF Enqueue, TypeOK
<1>3. nextEvent' \in 1..(MaxEvents + 1)
  BY OutboxAssumption DEF Enqueue, TypeOK, Event
<1> QED
  BY <1>1, <1>2, <1>3 DEF Enqueue

\* Type correctness: no handler, worker or fault leaves the declared shapes.
LEMMA TypeInit == Init => TypeOK
BY OutboxAssumption
   DEF Init, TypeOK, NoRow, NewRow, Row, JobStatus, ConflictStatus, Busy,
       Idle, Event

LEMMA TypeNext == TypeOK /\ [Next]_vars => TypeOK'
<1> SUFFICES ASSUME TypeOK, [Next]_vars PROVE TypeOK'
  OBVIOUS
<1> USE OutboxAssumption
<1>1. ASSUME NEW s \in Source, EnqueueWritebacks(s) PROVE TypeOK'
  <2>1. NewRow("queued", FALSE) \in Row
    BY NewRowType DEF JobStatus
  <2> QED
    BY <1>1, <2>1, EnqueueType DEF EnqueueWritebacks, TypeOK
<1>2. ASSUME NEW s \in Source, EnqueueBlockedJobs(s) PROVE TypeOK'
  <2>1. NewRow("blocked_by_conflict", TRUE) \in Row
    BY NewRowType DEF JobStatus
  <2>2. conflict' \in [Event -> ConflictStatus]
    BY <1>2 DEF EnqueueBlockedJobs, TypeOK, ConflictStatus
  <2> QED
    BY <1>2, <2>1, <2>2, EnqueueType DEF EnqueueBlockedJobs, TypeOK
<1>3. ASSUME NEW t \in Target, ClaimJob(t) PROVE TypeOK'
  <2>1. PICK e \in Claimable(t) :
          /\ \A f \in Claimable(t) : e <= f
          /\ job' = [job EXCEPT ![<<e, t>>].status = "running"]
          /\ worker' = [worker EXCEPT ![t] =
               [pc |-> "executing", event |-> e,
                attempts |-> job[<<e, t>>].attempts]]
    BY <1>3 DEF ClaimJob
  <2>2. e \in Event /\ <<e, t>> \in Job
    BY DEF Claimable, Job
  <2>3. job' \in [Job -> Row]
    BY <2>1, <2>2 DEF TypeOK, Row, JobStatus
  <2>4. worker' \in [Target -> Busy \cup {Idle}]
    BY <2>1, <2>2 DEF TypeOK, Row, Busy, Event
  <2> QED
    BY <1>3, <2>3, <2>4 DEF ClaimJob, TypeOK
<1>4. ASSUME NEW t \in Target, ExecuteOk(t) PROVE TypeOK'
  <2>1. worker' \in [Target -> Busy \cup {Idle}]
    <3>1. [worker[t] EXCEPT !.pc = "ok"] \in Busy
      BY <1>4, HeldType DEF ExecuteOk, Busy
    <3> QED
      BY <1>4, <3>1 DEF ExecuteOk, TypeOK
  <2>2. delivered' \in [Job -> Nat]
    BY <1>4, HeldType DEF ExecuteOk, TypeOK
  <2> QED
    BY <1>4, <2>1, <2>2 DEF ExecuteOk, TypeOK
<1>5. ASSUME NEW t \in Target, ExecuteError(t) PROVE TypeOK'
  <2>1. [worker[t] EXCEPT !.pc = "failed"] \in Busy
    BY <1>5, HeldType DEF ExecuteError, Busy
  <2> QED
    BY <1>5, <2>1 DEF ExecuteError, TypeOK
<1>6. ASSUME NEW t \in Target, MarkSucceeded(t) PROVE TypeOK'
  <2>1. job' \in [Job -> Row]
    <3>1. job[Held(t)] \in Row => [job[Held(t)] EXCEPT !.status = "succeeded"] \in Row
      BY DEF Row, JobStatus
    <3> QED
      BY <1>6, <3>1 DEF MarkSucceeded, Update, TypeOK
  <2>2. worker' \in [Target -> Busy \cup {Idle}]
    BY <1>6 DEF MarkSucceeded, Update, TypeOK, Busy, Idle
  <2> QED
    BY <1>6, <2>1, <2>2 DEF MarkSucceeded, Update, TypeOK
<1>7. ASSUME NEW t \in Target, MarkFailed(t) PROVE TypeOK'
  <2>1. job' \in [Job -> Row]
    <3> DEFINE row == [job[Held(t)] EXCEPT
                 !.status = IF Dead(worker[t].attempts) THEN "deadletter"
                                                        ELSE "retrying",
                 !.attempts = @ + 1,
                 !.waiting = TRUE]
    <3>1. job[Held(t)] \in Row
      BY <1>7, HeldType DEF MarkFailed, TypeOK
    <3>2. row \in Row
      <4>1. job[Held(t)].attempts + 1 \in Nat
        BY <3>1 DEF Row
      <4>2. (IF Dead(worker[t].attempts) THEN "deadletter" ELSE "retrying")
              \in JobStatus
        BY DEF JobStatus
      <4> QED
        BY <3>1, <4>1, <4>2, FailedRowType
    <3>3. job' = [job EXCEPT ![Held(t)] = IF Exists(Held(t)) THEN row ELSE @]
      BY <1>7 DEF MarkFailed, Update
    <3> HIDE DEF row
    <3> QED
      BY <3>2, <3>3 DEF TypeOK
  <2>2. worker' \in [Target -> Busy \cup {Idle}]
    BY <1>7 DEF MarkFailed, Update, TypeOK, Busy, Idle
  <2> QED
    BY <1>7, <2>1, <2>2 DEF MarkFailed, Update, TypeOK
<1>8. ASSUME NEW t \in Target, MarkLost(t) PROVE TypeOK'
  BY <1>8 DEF MarkLost, TypeOK, Busy, Idle
<1>9. ASSUME NEW j \in Job, RetryDue(j) PROVE TypeOK'
  BY <1>9 DEF RetryDue, TypeOK, Row
<1>10. CASE Restart
  BY <1>10 DEF Restart, TypeOK, Busy, Idle
<1>11. ASSUME NEW c \in Event, ResolveConflict(c) PROVE TypeOK'
  BY <1>11 DEF ResolveConflict, TypeOK, ConflictStatus
<1>12. ASSUME NEW c \in Event, UnblockJobs(c) PROVE TypeOK'
  BY <1>12 DEF UnblockJobs, TypeOK, Row, JobStatus
<1>13. ASSUME NEW c \in Event, UnblockLost(c) PROVE TypeOK'
  BY <1>13 DEF UnblockLost, TypeOK
<1>14. ASSUME NEW c \in Event, DismissConflict(c) PROVE TypeOK'
  BY <1>14 DEF DismissConflict, TypeOK, ConflictStatus
<1>15. ASSUME NEW j \in Job, RetryOutbox(j) PROVE TypeOK'
  <2>1. job' \in [Job -> Row]
    BY <1>15 DEF RetryOutbox, TypeOK, Row, JobStatus
  <2> QED
    BY <1>15, <2>1 DEF RetryOutbox, TypeOK
<1>16. ASSUME NEW j \in Job, DropOutbox(j) PROVE TypeOK'
  BY <1>16, NewRowType DEF DropOutbox, TypeOK, NoRow, JobStatus
<1>17. CASE ClearDeadletter
  BY <1>17, NewRowType DEF ClearDeadletter, TypeOK, NoRow, JobStatus
<1>18. CASE UNCHANGED vars
  BY <1>18 DEF vars, TypeOK
<1> QED
  BY <1>1, <1>2, <1>3, <1>4, <1>5, <1>6, <1>7, <1>8, <1>9, <1>10, <1>11,
     <1>12, <1>13, <1>14, <1>15, <1>16, <1>17, <1>18
     DEF Next, Pipeline, ProcessOne, User, Fault

\* Every reachable state of the outbox is well typed.
THEOREM TypeCorrect == Spec => []TypeOK
BY TypeInit, TypeNext, PTL DEF Spec

-----------------------------------------------------------------------------
(* What one step does to one job.  The invariants speak of a job's row, of *)
(* the place its worker has reached with it and of its two counters, so    *)
(* the steps are sorted once, by what they do to these.                    *)

\* The worker's place in processOne if the job is in its hand.
Hand(j) == IF Holds(j) THEN worker[j[2]].pc ELSE "idle"
Copy(j) == IF Holds(j) THEN worker[j[2]].attempts ELSE 0

SameRow(j) ==
  /\ job'[j].status = job[j].status
  /\ job'[j].attempts = job[j].attempts
  /\ Blocked(j)' = Blocked(j)

SameHand(j) == Hand(j)' = Hand(j) /\ Copy(j)' = Copy(j)
SameHistory(j) == asked'[j] = asked[j] /\ delivered'[j] = delivered[j]

Kept(j) == SameRow(j) /\ SameHand(j) /\ SameHistory(j)

Enqueued(j) ==
  /\ j[1] = nextEvent /\ nextEvent' = nextEvent + 1
  /\ job'[j].attempts = 0
  /\ \/ /\ job'[j].status = "queued" /\ Blocked(j)' = FALSE
        /\ conflict'[j[1]] = conflict[j[1]]
     \/ /\ job'[j].status = "blocked_by_conflict" /\ Blocked(j)' = TRUE
        /\ conflict'[j[1]] = "open"
  /\ asked'[j] = asked[j] + 1 /\ delivered'[j] = delivered[j]
  /\ SameHand(j)

Claimed(j) ==
  /\ Queued(j) /\ worker[j[2]].pc = "idle" /\ Hand(j) = "idle"
  /\ \A f \in Claimable(j[2]) : j[1] <= f
  /\ job'[j].status = "running"
  /\ job'[j].attempts = job[j].attempts /\ Blocked(j)' = Blocked(j)
  /\ Hand(j)' = "executing" /\ Copy(j)' = job[j].attempts
  /\ SameHistory(j)

Executed(j) ==
  /\ Hand(j) = "executing" /\ Copy(j)' = Copy(j)
  /\ \/ Hand(j)' = "ok" /\ delivered'[j] = delivered[j] + 1
     \/ Hand(j)' = "failed" /\ delivered'[j] = delivered[j]
  /\ asked'[j] = asked[j]
  /\ SameRow(j)

Succeeded(j) ==
  /\ Hand(j) = "ok" /\ Hand(j)' = "idle"
  /\ IF Exists(j) THEN job'[j].status = "succeeded"
                  ELSE job'[j].status = "none"
  /\ job'[j].attempts = job[j].attempts /\ Blocked(j)' = Blocked(j)
  /\ SameHistory(j)

Failed(j) ==
  /\ Hand(j) = "failed" /\ Hand(j)' = "idle"
  /\ IF Exists(j)
     THEN /\ job'[j].status = IF Dead(Copy(j)) THEN "deadletter"
                                               ELSE "retrying"
          /\ job'[j].attempts = job[j].attempts + 1
     ELSE job'[j].status = "none" /\ job'[j].attempts = job[j].attempts
  /\ Blocked(j)' = Blocked(j)
  /\ SameHistory(j)

Released(j) ==
  /\ faults' # 0
  /\ Hand(j)' = "idle"
  /\ SameRow(j) /\ SameHistory(j)

Unblocked(j) ==
  /\ j[1] \in resolving /\ conflict' = conflict
  /\ Blocked(j) /\ Blocked(j)' = FALSE
  /\ job'[j].status = "queued" /\ job'[j].attempts = job[j].attempts
  /\ SameHand(j) /\ SameHistory(j)

Retried(j) ==
  /\ Exists(j)
  /\ job'[j].status = "queued" /\ job'[j].attempts = 0
  /\ Blocked(j)' = Blocked(j)
  /\ asked'[j] = asked[j] + 1 /\ delivered'[j] = delivered[j]
  /\ SameHand(j)

Removed(j) ==
  /\ job'[j].status = "none" /\ job'[j].attempts = 0 /\ Blocked(j)' = FALSE
  /\ SameHand(j) /\ SameHistory(j)

Effect(j) ==
  \/ Kept(j) \/ Enqueued(j) \/ Claimed(j) \/ Executed(j) \/ Succeeded(j)
  \/ Failed(j) \/ Released(j) \/ Unblocked(j) \/ Retried(j) \/ Removed(j)

LEMMA JobPair ==
  ASSUME NEW j \in Job
  PROVE  j = <<j[1], j[2]>> /\ j[1] \in Event /\ j[2] \in Target
BY DEF Job

\* The job in a worker's hand is the one Hand and Copy speak of.
LEMMA HeldJob ==
  ASSUME TypeOK, NEW j \in Job
  PROVE  /\ Hand(j) \in {"idle", "executing", "ok", "failed"}
         /\ Copy(j) \in Nat
         /\ Holds(j) <=> Hand(j) # "idle"
         /\ InHand(j) <=> Hand(j) \in {"executing", "failed"}
         /\ Holds(j) <=> worker[j[2]].pc # "idle" /\ j = Held(j[2])
BY JobPair DEF TypeOK, Busy, Idle, Hand, Copy, Holds, InHand, Held

\* A step that leaves the worker of a job alone leaves the job in its hand.
LEMMA SameWorker ==
  ASSUME NEW j, worker'[j[2]] = worker[j[2]]
  PROVE  SameHand(j)
BY DEF SameHand, Hand, Copy, Holds

\* A step that only rewrites the row and the worker of the job t holds.
LEMMA OtherJob ==
  ASSUME TypeOK, NEW t \in Target, NEW j \in Job, NEW w,
         worker[t].pc # "idle", j # Held(t),
         worker' = [worker EXCEPT ![t] = w],
         w.pc # "idle" => w.event = worker[t].event
  PROVE  SameHand(j)
<1>1. CASE j[2] = t
  <2>1. j[1] # worker[t].event
    BY <1>1, JobPair DEF Held
  <2> QED
    BY <1>1, <2>1 DEF TypeOK, SameHand, Hand, Copy, Holds
<1>2. CASE j[2] # t
  BY <1>2, SameWorker DEF TypeOK
<1> QED
  BY <1>1, <1>2

\* The two ways Update is called.
LEMMA UpdateEffect ==
  ASSUME TypeOK, NEW t \in Target, NEW row, NEW j \in Job,
         worker[t].pc # "idle", Update(t, row)
  PROVE  /\ SameHistory(j)
         /\ j # Held(t) => Kept(j)
         /\ j = Held(t) => /\ Hand(j) = worker[t].pc /\ Hand(j)' = "idle"
                           /\ Copy(j) = worker[t].attempts
                           /\ job'[j] = IF Exists(j) THEN row ELSE job[j]
<1>1. worker' = [worker EXCEPT ![t] = Idle] /\ SameHistory(j)
  BY DEF Update, SameHistory
<1>2. ASSUME j # Held(t) PROVE Kept(j)
  <2>1. SameHand(j)
    BY <1>1, <1>2, OtherJob DEF Idle
  <2> QED
    BY <1>1, <1>2, <2>1 DEF Update, TypeOK, Kept, SameRow, Blocked
<1>3. ASSUME j = Held(t)
      PROVE  /\ Hand(j) = worker[t].pc /\ Hand(j)' = "idle"
             /\ Copy(j) = worker[t].attempts
             /\ job'[j] = IF Exists(j) THEN row ELSE job[j]
  BY <1>1, <1>3, HeldType
     DEF Update, TypeOK, Hand, Copy, Holds, Held, Idle
<1> QED
  BY <1>1, <1>2, <1>3

\* Every step does one of the ten things to a job.
LEMMA EffectNext ==
  ASSUME TypeOK, [Next]_vars, NEW j \in Job
  PROVE  Effect(j)
<1>0. job[j] \in Row /\ j = <<j[1], j[2]>> /\ j[1] \in Event /\ j[2] \in Target
  BY JobPair DEF TypeOK
<1>1. ASSUME NEW s, NEW row, Enqueue(s, row),
             \/ row = NewRow("queued", FALSE) /\ conflict' = conflict
             \/ row = NewRow("blocked_by_conflict", TRUE)
                /\ conflict' = [conflict EXCEPT ![nextEvent] = "open"]
      PROVE  Kept(j) \/ Enqueued(j)
  <2>1. SameHand(j)
    BY <1>1, SameWorker DEF Enqueue
  <2>2. CASE j \in {nextEvent} \X WritebackTargets(s)
    <3>1. /\ j[1] = nextEvent /\ nextEvent' = nextEvent + 1
          /\ job'[j] = row
          /\ asked'[j] = asked[j] + 1 /\ delivered'[j] = delivered[j]
      BY <1>1, <2>2 DEF Enqueue
    <3> QED
      BY <1>0, <1>1, <2>1, <3>1 DEF Enqueued, NewRow, Blocked, TypeOK
  <2>3. CASE j \notin {nextEvent} \X WritebackTargets(s)
    BY <1>1, <2>1, <2>3 DEF Enqueue, Kept, SameRow, SameHistory, Blocked
  <2> QED
    BY <2>2, <2>3
<1>2. ASSUME NEW s \in Source, EnqueueWritebacks(s) \/ EnqueueBlockedJobs(s)
      PROVE  Effect(j)
  BY <1>1, <1>2 DEF EnqueueWritebacks, EnqueueBlockedJobs, Effect
<1>3. ASSUME NEW t \in Target, ClaimJob(t) PROVE Kept(j) \/ Claimed(j)
  <2>1. PICK e \in Claimable(t) :
          /\ \A f \in Claimable(t) : e <= f
          /\ job' = [job EXCEPT ![<<e, t>>].status = "running"]
          /\ worker' = [worker EXCEPT ![t] =
               [pc |-> "executing", event |-> e,
                attempts |-> job[<<e, t>>].attempts]]
    BY <1>3 DEF ClaimJob
  <2>2. worker[t].pc = "idle" /\ SameHistory(j)
    BY <1>3 DEF ClaimJob, SameHistory
  <2>3. CASE j = <<e, t>>
    <3>1. Queued(j)
      BY <2>3 DEF Claimable, Queued
    <3>2. Hand(j) = "idle"
      BY <2>2, <2>3 DEF Hand, Holds
    <3>3. Hand(j)' = "executing" /\ Copy(j)' = job[j].attempts
      BY <2>1, <2>3 DEF TypeOK, Hand, Copy, Holds
    <3>4. /\ job'[j].status = "running"
          /\ job'[j].attempts = job[j].attempts /\ Blocked(j)' = Blocked(j)
      BY <1>0, <2>1, <2>3 DEF TypeOK, Row, Blocked
    <3>5. j[1] = e /\ j[2] = t
      BY <2>3
    <3> QED
      BY <2>1, <2>2, <3>1, <3>2, <3>3, <3>4, <3>5 DEF Claimed
  <2>4. CASE j # <<e, t>>
    <3>1. job'[j] = job[j]
      BY <2>1, <2>4 DEF TypeOK
    <3>2. SameHand(j)
      BY <1>0, <2>1, <2>2, <2>4 DEF TypeOK, SameHand, Hand, Copy, Holds
    <3> QED
      BY <2>2, <3>1, <3>2 DEF Kept, SameRow, Blocked
  <2> QED
    BY <2>3, <2>4
<1>4. ASSUME NEW t \in Target, ExecuteOk(t) \/ ExecuteError(t)
      PROVE  Kept(j) \/ Executed(j)
  <2>1. PICK pc \in {"ok", "failed"} :
          worker' = [worker EXCEPT ![t] = [worker[t] EXCEPT !.pc = pc]]
          /\ (pc = "ok" <=> ExecuteOk(t))
          /\ (pc = "failed" => ExecuteError(t))
    <3>1. CASE ExecuteOk(t)
      BY <3>1 DEF ExecuteOk
    <3>2. CASE ExecuteError(t) /\ ~ExecuteOk(t)
      BY <3>2 DEF ExecuteError
    <3> QED
      BY <1>4, <3>1, <3>2
  <2>2. worker[t].pc = "executing" /\ SameRow(j) /\ asked'[j] = asked[j]
    BY <1>4 DEF ExecuteOk, ExecuteError, SameRow, Blocked
  <2>3. worker[t] \in Busy /\ Held(t) \in Job
    BY <2>2, HeldType
  <2>4. CASE j = Held(t)
    <3>1. Hand(j) = "executing" /\ Copy(j) = worker[t].attempts
      BY <2>2, <2>4 DEF Hand, Copy, Holds, Held
    <3>2. Hand(j)' = pc /\ Copy(j)' = worker[t].attempts
      BY <2>1, <2>3, <2>4 DEF TypeOK, Busy, Hand, Copy, Holds, Held
    <3>3. delivered'[j] = IF pc = "ok" THEN delivered[j] + 1 ELSE delivered[j]
      BY <2>1, <2>4 DEF ExecuteOk, ExecuteError, TypeOK
    <3> QED
      BY <2>1, <2>2, <3>1, <3>2, <3>3 DEF Executed
  <2>5. CASE j # Held(t)
    <3>1. SameHand(j)
      BY <2>1, <2>2, <2>3, <2>5, OtherJob DEF Busy
    <3>2. delivered'[j] = delivered[j]
      BY <2>1, <2>5 DEF ExecuteOk, ExecuteError, TypeOK
    <3> QED
      BY <2>2, <3>1, <3>2 DEF Kept, SameHistory
  <2> QED
    BY <2>4, <2>5
<1>5. ASSUME NEW t \in Target, MarkSucceeded(t)
      PROVE  Kept(j) \/ Succeeded(j)
  <2> DEFINE row == [job[Held(t)] EXCEPT !.status = "succeeded"]
  <2>1. worker[t].pc = "ok" /\ Update(t, row)
    BY <1>5 DEF MarkSucceeded
  <2>2. /\ row.status = "succeeded" /\ row.attempts = job[Held(t)].attempts
        /\ row.blocking = job[Held(t)].blocking
    BY <2>1, HeldType DEF TypeOK, Row
  <2> HIDE DEF row
  <2> QED
    BY <2>1, <2>2, UpdateEffect DEF Succeeded, Blocked, Exists
<1>6. ASSUME NEW t \in Target, MarkFailed(t)
      PROVE  Kept(j) \/ Failed(j)
  <2> DEFINE status == IF Dead(worker[t].attempts) THEN "deadletter"
                                                   ELSE "retrying"
             row == [job[Held(t)] EXCEPT !.status = status,
                                         !.attempts = @ + 1,
                                         !.waiting = TRUE]
  <2>1. worker[t].pc = "failed" /\ Update(t, row)
    BY <1>6 DEF MarkFailed
  <2>2. /\ row.status = status /\ row.attempts = job[Held(t)].attempts + 1
        /\ row.blocking = job[Held(t)].blocking
    BY <2>1, HeldType DEF TypeOK, Row
  <2> HIDE DEF row
  <2> QED
    BY <2>1, <2>2, UpdateEffect DEF Failed, Blocked, Exists
<1>7. ASSUME NEW t \in Target, MarkLost(t) PROVE Kept(j) \/ Released(j)
  <2>1. /\ worker[t].pc # "idle" /\ worker' = [worker EXCEPT ![t] = Idle]
        /\ SameRow(j) /\ SameHistory(j)
    BY <1>7 DEF MarkLost, SameRow, SameHistory, Blocked
  <2>4. faults' # 0
    BY <1>7 DEF MarkLost, TypeOK
  <2>2. CASE j = Held(t)
    BY <2>1, <2>2, <2>4 DEF TypeOK, Released, Hand, Holds, Held, Idle
  <2>3. CASE j # Held(t)
    BY <2>1, <2>3, OtherJob DEF Kept, Idle
  <2> QED
    BY <2>2, <2>3
<1>8. ASSUME NEW i \in Job, RetryDue(i) PROVE Kept(j)
  BY <1>0, <1>8, SameWorker
     DEF RetryDue, TypeOK, Row, Kept, SameRow, SameHistory, Blocked
<1>9. CASE Restart
  <2>1. worker'[j[2]].pc = "idle"
    BY <1>0, <1>9 DEF Restart, Idle
  <2>2. Hand(j)' = "idle"
    BY <2>1 DEF Hand, Holds
  <2>3. job' = job /\ SameHistory(j) /\ faults' # 0
    BY <1>9 DEF Restart, SameHistory, TypeOK
  <2> QED
    BY <2>2, <2>3 DEF Effect, Released, SameRow, Blocked
<1>10. ASSUME NEW c \in Event,
              ResolveConflict(c) \/ DismissConflict(c) \/ UnblockLost(c)
       PROVE  Kept(j)
  BY <1>10, SameWorker
     DEF ResolveConflict, DismissConflict, UnblockLost, Kept, SameRow,
         SameHistory, Blocked
<1>11. ASSUME NEW c \in Event, UnblockJobs(c) PROVE Kept(j) \/ Unblocked(j)
  <2>1. SameHand(j) /\ SameHistory(j) /\ conflict' = conflict
    BY <1>11, SameWorker DEF UnblockJobs, SameHistory
  <2>2. CASE j[1] = c /\ Blocked(j)
    BY <1>0, <1>11, <2>1, <2>2 DEF UnblockJobs, Unblocked, Row, Blocked
  <2>3. CASE ~(j[1] = c /\ Blocked(j))
    BY <1>11, <2>1, <2>3 DEF UnblockJobs, Kept, SameRow, Blocked
  <2> QED
    BY <2>2, <2>3
<1>12. ASSUME NEW i \in Job, RetryOutbox(i) PROVE Kept(j) \/ Retried(j)
  <2>1. SameHand(j)
    BY <1>12, SameWorker DEF RetryOutbox
  <2>2. CASE i = j
    BY <1>0, <1>12, <2>1, <2>2
       DEF RetryOutbox, TypeOK, Row, Retried, Blocked
  <2>3. CASE i # j
    BY <1>12, <2>1, <2>3
       DEF RetryOutbox, TypeOK, Kept, SameRow, SameHistory, Blocked
  <2> QED
    BY <2>2, <2>3
<1>13. ASSUME NEW i \in Job, DropOutbox(i) PROVE Kept(j) \/ Removed(j)
  BY <1>0, <1>13, SameWorker
     DEF DropOutbox, TypeOK, Kept, Removed, SameRow, SameHistory, Blocked,
         NoRow, NewRow
<1>14. CASE ClearDeadletter
  BY <1>0, <1>14, SameWorker
     DEF ClearDeadletter, Effect, Kept, Removed, SameRow, SameHistory,
         Blocked, NoRow, NewRow
<1>15. CASE UNCHANGED vars
  <2>1. job' = job /\ worker' = worker /\ asked' = asked
        /\ delivered' = delivered
    BY <1>15 DEF vars
  <2> QED
    BY <2>1, SameWorker DEF Effect, Kept, SameRow, SameHistory, Blocked
<1> QED
  BY <1>2, <1>3, <1>4, <1>5, <1>6, <1>7, <1>8, <1>9, <1>10, <1>11, <1>12,
     <1>13, <1>14, <1>15
     DEF Next, Pipeline, ProcessOne, User, Fault, Effect

\* What a step does to a conflict and to the event counter: a conflict opens
\* with its event, and from then on only resolve and dismiss touch it.
LEMMA ConflictStep ==
  ASSUME TypeOK, [Next]_vars, NEW e \in Event
  PROVE  /\ nextEvent' >= nextEvent
         /\ \/ conflict'[e] = conflict[e]
            \/ e = nextEvent /\ nextEvent' = nextEvent + 1
               /\ conflict'[e] = "open"
            \/ conflict[e] # "none"
               /\ conflict'[e] \in {"auto_resolved", "dismissed"}
         /\ e \in resolving' =>
              \/ e \in resolving
              \/ conflict'[e] = "auto_resolved"
<1> DEFINE Goal ==
         /\ nextEvent' >= nextEvent
         /\ \/ conflict'[e] = conflict[e]
            \/ e = nextEvent /\ nextEvent' = nextEvent + 1
               /\ conflict'[e] = "open"
            \/ conflict[e] # "none"
               /\ conflict'[e] \in {"auto_resolved", "dismissed"}
         /\ e \in resolving' =>
              \/ e \in resolving
              \/ conflict'[e] = "auto_resolved"
<1>0. nextEvent \in Nat
  BY OutboxAssumption DEF TypeOK
<1>1. ASSUME NEW s \in Source, EnqueueWritebacks(s) \/ EnqueueBlockedJobs(s)
      PROVE  Goal
  <2>1. nextEvent' = nextEvent + 1 /\ resolving' = resolving
    BY <1>1 DEF EnqueueWritebacks, EnqueueBlockedJobs, Enqueue
  <2>2. \/ conflict' = conflict
        \/ conflict' = [conflict EXCEPT ![nextEvent] = "open"]
    BY <1>1 DEF EnqueueWritebacks, EnqueueBlockedJobs
  <2> QED
    BY <1>0, <2>1, <2>2 DEF TypeOK
<1>2. ASSUME NEW t \in Target, ProcessOne(t) \/ MarkLost(t) PROVE Goal
  <2>1. nextEvent' = nextEvent /\ conflict' = conflict
        /\ resolving' = resolving
    BY <1>2
       DEF ProcessOne, ClaimJob, ExecuteOk, ExecuteError, MarkSucceeded,
           MarkFailed, Update, MarkLost
  <2> QED
    BY <1>0, <2>1
<1>3. ASSUME NEW j \in Job, RetryDue(j) \/ RetryOutbox(j) \/ DropOutbox(j)
      PROVE  Goal
  BY <1>0, <1>3 DEF RetryDue, RetryOutbox, DropOutbox
<1>4. ASSUME NEW c \in Event,
             \/ ResolveConflict(c) \/ DismissConflict(c)
             \/ UnblockJobs(c) \/ UnblockLost(c)
      PROVE  Goal
  <2>1. CASE ResolveConflict(c)
    BY <1>0, <2>1 DEF ResolveConflict, TypeOK
  <2>2. CASE DismissConflict(c)
    BY <1>0, <2>2 DEF DismissConflict, TypeOK
  <2>3. CASE UnblockJobs(c) \/ UnblockLost(c)
    <3>1. /\ nextEvent' = nextEvent /\ conflict' = conflict
          /\ resolving' = resolving \ {c}
      BY <2>3 DEF UnblockJobs, UnblockLost
    <3> QED
      BY <1>0, <3>1
  <2> QED
    BY <1>4, <2>1, <2>2, <2>3
<1>5. CASE ClearDeadletter \/ Restart
  BY <1>0, <1>5 DEF ClearDeadletter, Restart
<1>6. CASE UNCHANGED vars
  BY <1>0, <1>6 DEF vars
<1> QED
  BY <1>1, <1>2, <1>3, <1>4, <1>5, <1>6 DEF Next, Pipeline, User, Fault

LEMMA FaultsStep ==
  ASSUME TypeOK, [Next]_vars, faults' = 0
  PROVE  faults = 0
<1>1. faults' = faults \/ faults' = faults + 1
  BY DEF Next, Pipeline, EnqueueWritebacks, EnqueueBlockedJobs, Enqueue,
         ProcessOne, ClaimJob, ExecuteOk, ExecuteError, MarkSucceeded,
         MarkFailed, Update, RetryDue, UnblockJobs, User, ResolveConflict,
         DismissConflict, RetryOutbox, DropOutbox, ClearDeadletter, Fault,
         MarkLost, UnblockLost, Restart, vars
<1> QED
  BY <1>1 DEF TypeOK

-----------------------------------------------------------------------------
(* The inductive invariant.                                                *)

LEMMA IInvInit == Init => IInv
<1> SUFFICES ASSUME Init PROVE IInv
  OBVIOUS
<1>1. TypeOK
  BY TypeInit
<1>2. \A j \in Job : ~Exists(j) /\ ~Blocked(j) /\ ~Queued(j) /\ ~Holds(j)
  BY JobPair DEF Init, Exists, Blocked, Queued, Holds, NoRow, NewRow, Idle
<1>3. Budget
  BY <1>2 DEF Init, Budget, Count, InHand
<1>4. Asked /\ HeldBack /\ Untouched
  BY <1>2, JobPair DEF Init, Asked, HeldBack, Untouched, InHand
<1>5. Counters
  BY <1>2, OutboxAssumption
     DEF Init, Counters, NoRow, NewRow, Holds
<1> QED
  BY <1>1, <1>3, <1>4, <1>5 DEF IInv

\* What the invariant says of one job, before a step and in terms of Effect.
LEMMA Before ==
  ASSUME IInv, NEW j \in Job
  PROVE  /\ TypeOK
         /\ job[j].status \in JobStatus /\ job[j].attempts \in Nat
         /\ Blocked(j) \in BOOLEAN
         /\ asked[j] \in Nat /\ delivered[j] \in Nat /\ j[1] \in Nat
         /\ nextEvent \in Nat
         /\ Exists(j) \/ Hand(j) # "idle" => asked[j] >= 1
         /\ Blocked(j) => Exists(j)
         /\ j[1] >= nextEvent => asked[j] = 0
         /\ delivered[j] + Count(Blocked(j)) + Count(Queued(j))
              + Count(Hand(j) \in {"executing", "failed"}) <= asked[j]
<1>1. TypeOK /\ job[j] \in Row
  BY DEF IInv, TypeOK
<1>2. /\ job[j].status \in JobStatus /\ job[j].attempts \in Nat
      /\ Blocked(j) \in BOOLEAN
  BY <1>1 DEF Row, Blocked
<1>3. asked[j] \in Nat /\ delivered[j] \in Nat /\ j[1] \in Nat
      /\ nextEvent \in Nat
  BY <1>1, JobPair, OutboxAssumption DEF TypeOK, Event
<1>4. /\ Holds(j) <=> Hand(j) # "idle"
      /\ InHand(j) <=> Hand(j) \in {"executing", "failed"}
  BY <1>1, HeldJob
<1> QED
  BY <1>1, <1>2, <1>3, <1>4 DEF IInv, Asked, Budget, Count

\* And after the step.
LEMMA After ==
  ASSUME TypeOK', NEW j \in Job
  PROVE  /\ Holds(j)' <=> Hand(j)' # "idle"
         /\ InHand(j)' <=> Hand(j)' \in {"executing", "failed"}
         /\ Holds(j)' => Copy(j)' = worker'[j[2]].attempts
BY JobPair DEF TypeOK, Busy, Idle, Hand, Copy, Holds, InHand

\* Every step moves a unit between the places Budget counts, spends one, or
\* is a request and brings one.
LEMMA BudgetNext == IInv /\ [Next]_vars /\ TypeOK' => Budget'
<1> SUFFICES ASSUME IInv, [Next]_vars, TypeOK', NEW j \in Job
             PROVE  (delivered[j] + Count(Blocked(j)) + Count(Queued(j))
                       + Count(InHand(j)) <= asked[j])'
  BY DEF Budget
<1>1. InHand(j)' <=> Hand(j)' \in {"executing", "failed"}
  BY After
<1> SUFFICES (delivered[j] + Count(Blocked(j)) + Count(Queued(j))
               + Count(Hand(j) \in {"executing", "failed"}) <= asked[j])'
  BY <1>1 DEF Count
<1>2. Effect(j)
  BY Before, EffectNext
<1> USE Before DEF Count, Queued, SameRow, SameHand, SameHistory
<1>3. CASE Kept(j) \/ Released(j) \/ Removed(j)
  BY <1>3 DEF Kept, Released, Removed
<1>4. CASE Enqueued(j)
  BY <1>4 DEF Enqueued
<1>5. CASE Claimed(j)
  BY <1>5 DEF Claimed
<1>6. CASE Executed(j)
  BY <1>6 DEF Executed
<1>7. CASE Succeeded(j)
  BY <1>7 DEF Succeeded
<1>8. CASE Failed(j)
  BY <1>8 DEF Failed
<1>9. CASE Unblocked(j)
  BY <1>9 DEF Unblocked
<1>10. CASE Retried(j)
  BY <1>10 DEF Retried
<1> QED
  BY <1>2, <1>3, <1>4, <1>5, <1>6, <1>7, <1>8, <1>9, <1>10 DEF Effect

\* Nothing exists before its event, and nothing comes into a hand unasked.
LEMMA AskedNext == IInv /\ [Next]_vars /\ TypeOK' => Asked'
<1> SUFFICES ASSUME IInv, [Next]_vars, TypeOK' PROVE Asked'
  OBVIOUS
<1>1. ASSUME NEW j \in Job
      PROVE  /\ Blocked(j)' => Exists(j)'
             /\ Exists(j)' \/ Holds(j)' => asked'[j] >= 1
             /\ j[1] >= nextEvent' => asked'[j] = 0
  <2>1. Holds(j)' <=> Hand(j)' # "idle"
    BY After
  <2>2. nextEvent' \in Nat /\ nextEvent' >= nextEvent
    BY Before, JobPair, ConflictStep, OutboxAssumption DEF TypeOK
  <2>3. Effect(j)
    BY Before, EffectNext
  <2> USE Before, <2>2 DEF Exists, SameRow, SameHand, SameHistory
  <2>4. CASE Kept(j) \/ Released(j) \/ Removed(j)
    BY <2>1, <2>4 DEF Kept, Released, Removed
  <2>8. CASE Unblocked(j)
    BY <2>1, <2>8 DEF Unblocked
  <2>5. CASE Enqueued(j) \/ Retried(j)
    BY <2>1, <2>5 DEF Enqueued, Retried
  <2>6. CASE Claimed(j) \/ Executed(j)
    BY <2>1, <2>6 DEF Claimed, Executed, Queued
  <2>7. CASE Succeeded(j) \/ Failed(j)
    BY <2>1, <2>7 DEF Succeeded, Failed
  <2> QED
    BY <2>3, <2>4, <2>5, <2>6, <2>7, <2>8 DEF Effect
<1>2. ASSUME NEW e \in Event PROVE e >= nextEvent' => conflict'[e] = "none"
  <2>1. e \in Nat /\ nextEvent \in Nat /\ nextEvent' \in Nat
    BY OutboxAssumption DEF IInv, TypeOK, Event
  <2>2. e >= nextEvent => conflict[e] = "none"
    BY DEF IInv, Asked
  <2> QED
    BY <1>2, <2>1, <2>2, ConflictStep DEF IInv
<1> QED
  BY <1>1, <1>2 DEF Asked

\* A conflict opens before any of its rows is claimable; resolving it closes
\* it before the rows are released.
LEMMA HeldBackNext == IInv /\ [Next]_vars /\ TypeOK' => HeldBack'
<1> SUFFICES ASSUME IInv, [Next]_vars, TypeOK' PROVE HeldBack'
  OBVIOUS
<1>1. ASSUME NEW c \in resolving' PROVE conflict'[c] \notin {"none", "open"}
  <2>1. c \in Event
    BY <1>1 DEF TypeOK
  <2>2. c \in resolving => c < nextEvent
    BY <2>1, OutboxAssumption DEF IInv, HeldBack, Asked, TypeOK, Event
  <2>3. nextEvent \in Nat
    BY OutboxAssumption DEF IInv, TypeOK
  <2> QED
    BY <1>1, <2>1, <2>2, <2>3, ConflictStep DEF IInv, HeldBack
<1>2. ASSUME NEW j \in Job, conflict'[j[1]] = "open", asked'[j] < 2
      PROVE  delivered'[j] = 0 /\ ~Queued(j)' /\ ~InHand(j)'
  <2>1. InHand(j)' <=> Hand(j)' \in {"executing", "failed"}
    BY After
  <2>2. InHand(j) <=> Hand(j) \in {"executing", "failed"}
    BY Before, HeldJob
  <2>3. \/ conflict[j[1]] = "open"
        \/ j[1] = nextEvent
    BY <1>2, Before, JobPair, ConflictStep
  <2>4. asked[j] < 2 => delivered[j] = 0 /\ ~Queued(j) /\ ~InHand(j)
    BY <2>2, <2>3, Before DEF IInv, HeldBack, Count, Blocked
  <2>5. Effect(j)
    BY Before, EffectNext
  <2> USE <1>2, <2>1, <2>2, <2>4, Before
      DEF Queued, Exists, SameRow, SameHand, SameHistory
  <2>6. CASE Kept(j) \/ Released(j) \/ Removed(j)
    BY <2>6 DEF Kept, Released, Removed
  <2>7. CASE Enqueued(j)
    <3>1. conflict[j[1]] # "open"
      BY <2>7, JobPair DEF IInv, Asked, Enqueued
    <3> QED
      BY <2>7, <3>1 DEF Enqueued
  <2>8. CASE Claimed(j) \/ Executed(j)
    BY <2>8 DEF Claimed, Executed
  <2>9. CASE Succeeded(j) \/ Failed(j)
    BY <2>9 DEF Succeeded, Failed
  <2>10. CASE Unblocked(j)
    BY <2>10 DEF Unblocked, IInv, HeldBack
  <2>11. CASE Retried(j)
    BY <2>11 DEF Retried
  <2> QED
    BY <2>5, <2>6, <2>7, <2>8, <2>9, <2>10, <2>11 DEF Effect
<1> QED
  BY <1>1, <1>2 DEF HeldBack

\* The claimed copy of the counter is never below the row's, and a row that
\* can be claimed or unblocked has an attempt left.
LEMMA CountersNext == IInv /\ [Next]_vars /\ TypeOK' => Counters'
<1> SUFFICES ASSUME IInv, [Next]_vars, TypeOK', NEW j \in Job
             PROVE  (/\ job[j].attempts <= MaxAttempts + 1
                     /\ job[j].status # "deadletter"
                          => job[j].attempts <= MaxAttempts
                     /\ Blocked(j) => job[j].attempts <= MaxAttempts
                     /\ Blocked(j) /\ job[j].status # "deadletter"
                          => job[j].attempts < MaxAttempts
                     /\ Holds(j) =>
                          /\ job[j].status \in {"none", "running", "queued"}
                          /\ job[j].attempts <= worker[j[2]].attempts)'
  BY DEF Counters
<1>1. /\ Holds(j)' <=> Hand(j)' # "idle"
      /\ Holds(j)' => Copy(j)' = worker'[j[2]].attempts
  BY After
<1>2. /\ job[j].attempts <= MaxAttempts + 1
      /\ job[j].status # "deadletter" => job[j].attempts <= MaxAttempts
      /\ Blocked(j) => job[j].attempts <= MaxAttempts
      /\ Blocked(j) /\ job[j].status # "deadletter"
           => job[j].attempts < MaxAttempts
      /\ Hand(j) # "idle" =>
           /\ job[j].status \in {"none", "running", "queued"}
           /\ job[j].attempts <= Copy(j)
  BY Before, HeldJob DEF IInv, Counters, Copy
<1>3. Effect(j)
  BY Before, EffectNext
<1>4. Copy(j) \in Nat
  BY Before, HeldJob
<1> USE <1>1, <1>2, <1>4, Before, OutboxAssumption
    DEF SameRow, SameHand, SameHistory
<1>5. CASE Kept(j) \/ Released(j) \/ Removed(j)
  BY <1>5 DEF Kept, Released, Removed
<1>6. CASE Enqueued(j) \/ Retried(j)
  <2>1. Enqueued(j) => Hand(j) = "idle"
    BY DEF Enqueued
  <2> QED
    BY <1>6, <2>1 DEF Enqueued, Retried
<1>7. CASE Claimed(j) \/ Executed(j)
  BY <1>7 DEF Claimed, Executed, Queued
<1>8. CASE Succeeded(j)
  BY <1>8 DEF Succeeded, Exists
<1>9. CASE Failed(j)
  BY <1>9 DEF Failed, Exists, Dead
<1>10. CASE Unblocked(j)
  BY <1>10 DEF Unblocked
<1> QED
  BY <1>3, <1>5, <1>6, <1>7, <1>8, <1>9, <1>10 DEF Effect

\* As long as the user stays away, row and copy agree.
LEMMA UntouchedNext == IInv /\ [Next]_vars /\ TypeOK' => Untouched'
<1> SUFFICES ASSUME IInv, [Next]_vars, TypeOK', NEW j \in Job,
                    Exists(j)', asked'[j] < 2
             PROVE  (/\ job[j].status = "deadletter"
                          => job[j].attempts = MaxAttempts
                     /\ job[j].status # "deadletter"
                          => job[j].attempts < MaxAttempts
                     /\ Blocked(j) <=> job[j].status = "blocked_by_conflict"
                     /\ Holds(j) => /\ job[j].status = "running"
                                    /\ job[j].attempts
                                         = worker[j[2]].attempts)'
  BY DEF Untouched
<1>1. /\ Holds(j)' <=> Hand(j)' # "idle"
      /\ Holds(j)' => Copy(j)' = worker'[j[2]].attempts
  BY After
<1>2. Exists(j) /\ asked[j] < 2 =>
        /\ job[j].status = "deadletter" => job[j].attempts = MaxAttempts
        /\ job[j].status # "deadletter" => job[j].attempts < MaxAttempts
        /\ Blocked(j) <=> job[j].status = "blocked_by_conflict"
        /\ Hand(j) # "idle" => /\ job[j].status = "running"
                               /\ job[j].attempts = Copy(j)
  BY Before, HeldJob DEF IInv, Untouched, Copy
<1>3. Effect(j)
  BY Before, EffectNext
<1>4. Copy(j) \in Nat
  BY Before, HeldJob
<1> USE <1>1, <1>2, <1>4, Before, OutboxAssumption
    DEF SameRow, SameHand, SameHistory, Exists
<1>5. CASE Kept(j) \/ Released(j) \/ Removed(j)
  BY <1>5 DEF Kept, Released, Removed
<1>6. CASE Enqueued(j) \/ Retried(j)
  <2>1. Enqueued(j) => Hand(j) = "idle"
    BY DEF Enqueued
  <2> QED
    BY <1>6, <2>1 DEF Enqueued, Retried
<1>7. CASE Claimed(j) \/ Executed(j)
  BY <1>7 DEF Claimed, Executed, Queued
<1>8. CASE Succeeded(j)
  BY <1>8 DEF Succeeded
<1>9. CASE Failed(j)
  <2>1. Exists(j) /\ asked[j] < 2 /\ Hand(j) # "idle" /\ Hand(j)' = "idle"
    BY <1>9 DEF Failed
  <2>2. ~Blocked(j) /\ ~Blocked(j)'
    BY <1>9, <2>1 DEF Failed
  <2>3. /\ job[j].attempts < MaxAttempts /\ job[j].attempts = Copy(j)
        /\ job'[j].attempts = job[j].attempts + 1
        /\ job'[j].status = IF job[j].attempts + 1 >= MaxAttempts
                            THEN "deadletter" ELSE "retrying"
    BY <1>9, <2>1 DEF Failed, Dead
  <2>4. job'[j].status # "deadletter" => job'[j].attempts < MaxAttempts
    BY <2>3
  <2>5. job'[j].status = "deadletter" => job'[j].attempts = MaxAttempts
    BY <2>3
  <2>6. job'[j].status # "blocked_by_conflict"
    BY <2>3
  <2>7. ~Holds(j)'
    BY <2>1
  <2>8. Blocked(j)' <=> job'[j].status = "blocked_by_conflict"
    BY <2>2, <2>6
  <2> QED
    BY <2>4, <2>5, <2>7, <2>8
<1>10. CASE Unblocked(j)
  BY <1>10 DEF Unblocked
<1> QED
  BY <1>3, <1>5, <1>6, <1>7, <1>8, <1>9, <1>10 DEF Effect

LEMMA IInvNext == IInv /\ [Next]_vars => IInv'
<1> SUFFICES ASSUME IInv, [Next]_vars PROVE IInv'
  OBVIOUS
<1>1. TypeOK'
  BY TypeNext DEF IInv
<1> QED
  BY <1>1, BudgetNext, AskedNext, HeldBackNext, CountersNext, UntouchedNext
     DEF IInv

-----------------------------------------------------------------------------
(* The theorems.                                                           *)

\* The inductive invariant holds at every interleaving of pipeline, workers,
\* user and faults.
THEOREM Inductive == Spec => []IInv
BY IInvInit, IInvNext, PTL DEF Spec

\* Nothing of an event whose conflict is open reaches a target unasked.
THEOREM HeldBackTheorem == Spec => []ConflictHoldsBack
<1>1. IInv => ConflictHoldsBack
  <2> SUFFICES ASSUME IInv, NEW j \in Job, conflict[j[1]] = "open",
                      delivered[j] > 0
               PROVE  asked[j] >= 2
    BY DEF ConflictHoldsBack
  <2> QED
    BY Before DEF IInv, HeldBack
<1> QED
  BY <1>1, Inductive, PTL

\* Each delivery was asked for.
THEOREM AtMostAsked == Spec => []DeliveredAtMostAsked
<1>1. IInv => DeliveredAtMostAsked
  <2> SUFFICES ASSUME IInv, NEW j \in Job PROVE delivered[j] <= asked[j]
    BY DEF DeliveredAtMostAsked
  <2> QED
    BY Before DEF Count
<1> QED
  BY <1>1, Inductive, PTL

\* The counter of a row passes MaxAttempts by one at most.
THEOREM Bounded == Spec => []AttemptsBounded
<1>1. IInv => AttemptsBounded
  BY DEF IInv, Counters, AttemptsBounded
<1> QED
  BY <1>1, Inductive, PTL

\* A row the user left alone dies after MaxAttempts failures, not before.
THEOREM Exhausted == Spec => []GivenUpExhausted
<1>1. IInv => GivenUpExhausted
  BY DEF IInv, Untouched, GivenUpExhausted, Exists
<1> QED
  BY <1>1, Inductive, PTL

\* Only a restart or a lost status write can leave a row running with nobody
\* at work on it.
THEOREM RunningHeld == Spec => []RunningIsHeld
<1>1. Init => RunningIsHeld
  BY DEF Init, RunningIsHeld, NoRow, NewRow
<1>2. IInv /\ RunningIsHeld /\ [Next]_vars /\ IInv' => RunningIsHeld'
  <2> SUFFICES ASSUME IInv, RunningIsHeld, [Next]_vars, IInv', faults' = 0,
                      NEW j \in Job, job'[j].status = "running"
               PROVE  Hand(j)' # "idle"
    BY After DEF RunningIsHeld, Holds, IInv
  <2>1. faults = 0
    BY FaultsStep DEF IInv
  <2>2. job[j].status = "running" => Hand(j) # "idle"
    BY <2>1, Before, HeldJob DEF RunningIsHeld, Holds
  <2>3. Effect(j)
    BY Before, EffectNext
  <2> QED
    BY <2>2, <2>3
       DEF Effect, Kept, Enqueued, Claimed, Executed, Succeeded, Failed,
           Released, Unblocked, Retried, Removed, SameRow, SameHand, Exists
<1> QED
  BY <1>1, <1>2, Inductive, PTL DEF Spec

-----------------------------------------------------------------------------
(* The order of deliveries.                                                *)

\* Only a failed attempt makes a row wait.
LEMMA WaitingNext ==
  ASSUME TypeOK, [Next]_vars, NEW j \in Job,
         job[j].waiting => job[j].attempts > 0,
         job'[j].waiting
  PROVE  job'[j].attempts > 0
<1>0. job[j] \in Row /\ job[j].attempts \in Nat
  BY DEF TypeOK, Row
<1>1. ASSUME NEW s \in Source, EnqueueWritebacks(s) \/ EnqueueBlockedJobs(s)
      PROVE  job'[j] = job[j]
  BY <1>1 DEF EnqueueWritebacks, EnqueueBlockedJobs, Enqueue, NewRow
<1>2. ASSUME NEW t \in Target, ClaimJob(t)
      PROVE  /\ job'[j].waiting = job[j].waiting
             /\ job'[j].attempts = job[j].attempts
  <2>1. PICK e \in Claimable(t) :
          job' = [job EXCEPT ![<<e, t>>].status = "running"]
    BY <1>2 DEF ClaimJob
  <2> QED
    BY <1>0, <2>1 DEF TypeOK, Row
<1>3. ASSUME NEW t \in Target,
             ExecuteOk(t) \/ ExecuteError(t) \/ MarkLost(t)
      PROVE  job' = job
  BY <1>3 DEF ExecuteOk, ExecuteError, MarkLost
<1>4. ASSUME NEW t \in Target, MarkSucceeded(t)
      PROVE  /\ job'[j].waiting = job[j].waiting
             /\ job'[j].attempts = job[j].attempts
  BY <1>0, <1>4 DEF MarkSucceeded, Update, TypeOK, Row
<1>5. ASSUME NEW t \in Target, MarkFailed(t)
      PROVE  job'[j] = job[j] \/ job'[j].attempts > 0
  <2> DEFINE status == IF Dead(worker[t].attempts) THEN "deadletter"
                                                   ELSE "retrying"
             row == [job[Held(t)] EXCEPT !.status = status,
                                         !.attempts = @ + 1,
                                         !.waiting = TRUE]
  <2>1. worker[t].pc = "failed" /\ Update(t, row)
    BY <1>5 DEF MarkFailed
  <2>2. row.attempts = job[Held(t)].attempts + 1
        /\ job[Held(t)].attempts \in Nat
    BY <2>1, HeldType DEF TypeOK, Row
  <2> HIDE DEF row
  <2> QED
    BY <2>1, <2>2 DEF Update, TypeOK
<1>6. ASSUME NEW i \in Job, RetryDue(i) \/ RetryOutbox(i) \/ DropOutbox(i)
      PROVE  job'[j] = job[j] \/ ~job'[j].waiting
  <2>1. CASE RetryDue(i)
    BY <1>0, <2>1 DEF RetryDue, TypeOK, Row
  <2>2. CASE RetryOutbox(i)
    BY <1>0, <2>2 DEF RetryOutbox, TypeOK, Row
  <2>3. CASE DropOutbox(i)
    BY <2>3 DEF DropOutbox, TypeOK, NoRow, NewRow
  <2> QED
    BY <1>6, <2>1, <2>2, <2>3
<1>7. ASSUME NEW c \in Event, UnblockJobs(c)
      PROVE  /\ job'[j].waiting = job[j].waiting
             /\ job'[j].attempts = job[j].attempts
  BY <1>0, <1>7 DEF UnblockJobs, Row
<1>8. ASSUME NEW c \in Event,
             ResolveConflict(c) \/ DismissConflict(c) \/ UnblockLost(c)
      PROVE  job' = job
  BY <1>8 DEF ResolveConflict, DismissConflict, UnblockLost
<1>9. CASE ClearDeadletter
  BY <1>9 DEF ClearDeadletter, NoRow, NewRow
<1>10. CASE Restart \/ UNCHANGED vars
  BY <1>10 DEF Restart, vars
<1> QED
  BY <1>1, <1>2, <1>3, <1>4, <1>5, <1>6, <1>7, <1>8, <1>9, <1>10
     DEF Next, Pipeline, ProcessOne, User, Fault

\* A row that is there, neither delayed nor delivered.
Due(j) == Exists(j) /\ ~Delayed(j) /\ delivered[j] = 0

\* A row that is due after a step was due before it or has just come, and
\* the step has not put it into any other status.
LEMMA DueStep ==
  ASSUME IInv, InTurn, [Next]_vars, NEW j \in Job, Due(j)'
  PROVE  /\ Due(j) \/ (j[1] = nextEvent /\ nextEvent' = nextEvent + 1)
         /\ job'[j].status \in {"queued", "running"} /\ Hand(j)' # "ok"
<1> USE DEF Due
<1>1. TypeOK /\ Effect(j) /\ j[1] \in Event
  BY Before, EffectNext, JobPair
<1>2. /\ conflict'[j[1]] = "none" /\ ~(job'[j].attempts > 0)
      /\ ~(asked'[j] >= 2) /\ delivered'[j] = 0 /\ job'[j].status # "none"
  BY DEF Delayed, Exists
<1>3. conflict[j[1]] = "none"
  BY <1>1, <1>2, ConflictStep
<1>4. Due(j) => job[j].status \in {"queued", "running"} /\ Hand(j) # "ok"
  BY <1>1, HeldJob DEF InTurn, Hand
<1>5. job[j].attempts \in Nat /\ asked[j] \in Nat /\ delivered[j] \in Nat
  BY Before
<1>6. CASE Kept(j) \/ Claimed(j) \/ Executed(j) \/ Released(j)
  <2>1. Exists(j) /\ job[j].attempts = job'[j].attempts
        /\ asked[j] = asked'[j] /\ delivered[j] = 0
    BY <1>2, <1>5, <1>6
       DEF Kept, Claimed, Executed, Released, SameRow, SameHistory, Exists,
           Queued
  <2>2. Due(j)
    BY <1>2, <1>3, <2>1 DEF Delayed
  <2> QED
    BY <1>2, <1>4, <1>5, <1>6, <2>2
       DEF Kept, Claimed, Executed, Released, SameRow, SameHand, SameHistory
<1>7. CASE Enqueued(j)
  <2>1. conflict'[j[1]] # "open"
    BY <1>2
  <2> QED
    BY <1>1, <1>7, <2>1, HeldJob, Before
       DEF Enqueued, SameHand, IInv, Asked
<1>8. CASE Succeeded(j)
  <2>1. Exists(j) /\ job[j].attempts = job'[j].attempts
        /\ asked[j] = asked'[j] /\ delivered[j] = 0 /\ Hand(j) = "ok"
    BY <1>2, <1>8 DEF Succeeded, SameHistory
  <2> QED
    BY <1>2, <1>3, <1>4, <2>1 DEF Delayed
<1>9. CASE Failed(j)
  BY <1>2, <1>5, <1>9 DEF Failed
<1>10. CASE Unblocked(j)
  BY <1>3, <1>10 DEF Unblocked, IInv, HeldBack
<1>11. CASE Retried(j)
  BY <1>2, <1>5, <1>11, Before DEF Retried
<1>12. CASE Removed(j)
  BY <1>2, <1>12 DEF Removed
<1> QED
  BY <1>1, <1>6, <1>7, <1>8, <1>9, <1>10, <1>11, <1>12 DEF Effect

\* The worker holds, and has carried out, nothing younger than a due row: it
\* claims the oldest, and a due row can be claimed.
LEMMA InTurnNext ==
  IInv /\ RunningIsHeld /\ InTurn /\ [Next]_vars /\ IInv' => InTurn'
<1> SUFFICES ASSUME IInv, RunningIsHeld, InTurn, [Next]_vars, IInv'
             PROVE  InTurn'
  OBVIOUS
<1>0. TypeOK /\ TypeOK'
  BY DEF IInv
<1>1. ASSUME NEW j \in Job, job'[j].waiting PROVE job'[j].attempts > 0
  BY <1>0, <1>1, WaitingNext DEF InTurn
<1>2. ASSUME NEW j \in Job, Exists(j)', ~Delayed(j)', delivered'[j] = 0
      PROVE  /\ job'[j].status \in {"queued", "running"}
             /\ Holds(j)' => worker'[j[2]].pc # "ok"
  BY <1>2, DueStep DEF Due, Hand
<1>3. ASSUME faults' = 0, NEW j \in Job, NEW k \in Job,
             j[2] = k[2], j[1] < k[1],
             delivered'[k] > 0 \/ Holds(k)',
             Exists(j)', delivered'[j] = 0, ~Delayed(j)'
      PROVE  FALSE
  <2>1. faults = 0
    BY <1>0, <1>3, FaultsStep
  <2>2. Due(j) \/ (j[1] = nextEvent /\ nextEvent' = nextEvent + 1)
    BY <1>3, DueStep DEF Due
  <2>3. /\ j[1] \in Nat /\ k[1] \in Nat /\ nextEvent \in Nat
        /\ asked'[k] \in Nat /\ delivered'[k] \in Nat
    BY <1>0, Before DEF TypeOK
  <2>4. Due(j)
    <3>1. ~(k[1] >= nextEvent')
      <4>1. asked'[k] # 0
        BY <1>3, <2>3 DEF IInv, Asked, Budget, Count
      <4> QED
        BY <4>1 DEF IInv, Asked
    <3> QED
      BY <1>3, <2>2, <2>3, <3>1
  <2>5. ~(delivered[k] > 0) /\ ~Holds(k)
    BY <1>3, <2>1, <2>4 DEF InTurn, Due
  <2>6. Hand(k) = "idle" /\ (delivered'[k] > 0 \/ Hand(k)' # "idle")
    BY <1>0, <1>3, <2>5, HeldJob, After
  <2>7. Claimed(k)
    <3>1. Effect(k) /\ delivered[k] \in Nat
      BY <1>0, EffectNext, Before
    <3> QED
      BY <2>5, <2>6, <3>1
         DEF Effect, Kept, Enqueued, Claimed, Executed, Succeeded, Failed,
             Released, Unblocked, Retried, Removed, SameHand, SameHistory
  <2>8. j[1] \in Claimable(j[2])
    <3>1. job[j].status = "queued"
      BY <1>3, <2>1, <2>4, <2>7 DEF InTurn, Due, RunningIsHeld, Claimed
    <3>2. ~job[j].waiting
      BY <2>4 DEF InTurn, Due, Delayed
    <3> QED
      BY <3>1, <3>2, JobPair DEF Claimable
  <2> QED
    BY <1>3, <2>3, <2>7, <2>8 DEF Claimed
<1> QED
  BY <1>1, <1>2, <1>3 DEF InTurn

\* Without faults a write-back is carried out before an older one of the same
\* target only if that was delayed by a conflict, a failure or the user.
THEOREM InOrder == Spec => []OvertakenForCause
<1>1. Init => InTurn
  <2> SUFFICES ASSUME Init PROVE InTurn
    OBVIOUS
  <2>1. \A j \in Job : ~Exists(j) /\ ~job[j].waiting
    BY DEF Init, Exists, NoRow, NewRow
  <2> QED
    BY <2>1 DEF InTurn
<1>2. InTurn => OvertakenForCause
  BY DEF InTurn, OvertakenForCause
<1> QED
  BY <1>1, <1>2, InTurnNext, Inductive, RunningHeld, PTL DEF Spec

-----------------------------------------------------------------------------
(* Refinement.                                                             *)

\* A transaction asks for all its write-backs at once, a retry for one, and
\* an execution delivers one that was asked for; the rest is invisible.
LEMMA DeliveryStep ==
  IInv /\ [Next]_vars => [Delivery!Next]_(Delivery!vars)
<1> SUFFICES ASSUME IInv, [Next]_vars
             PROVE  Delivery!Next \/ UNCHANGED <<asked, delivered>>
  BY DEF Delivery!vars
<1>0. TypeOK
  BY DEF IInv
<1>1. ASSUME NEW s \in Source, EnqueueWritebacks(s) \/ EnqueueBlockedJobs(s)
      PROVE  Delivery!Next
  <2> DEFINE new == {nextEvent} \X WritebackTargets(s)
  <2>1. /\ nextEvent \in Event
        /\ asked' = [j \in Job |-> IF j \in new THEN asked[j] + 1
                                                ELSE asked[j]]
        /\ delivered' = delivered
    BY <1>1 DEF EnqueueWritebacks, EnqueueBlockedJobs, Enqueue
  <2>2. new \in SUBSET Job
    BY <2>1 DEF WritebackTargets, Job
  <2>3. Delivery!Ask(new)
    BY <2>1 DEF Delivery!Ask
  <2> QED
    BY <2>2, <2>3 DEF Delivery!Next
<1>2. ASSUME NEW j \in Job, RetryOutbox(j) PROVE Delivery!Next
  <2>1. asked' = [i \in Job |-> IF i \in {j} THEN asked[i] + 1 ELSE asked[i]]
        /\ delivered' = delivered
    BY <1>0, <1>2 DEF RetryOutbox, TypeOK
  <2>2. Delivery!Ask({j})
    BY <2>1 DEF Delivery!Ask
  <2> QED
    BY <2>2 DEF Delivery!Next
<1>3. ASSUME NEW t \in Target, ExecuteOk(t) PROVE Delivery!Next
  <2>1. Held(t) \in Job /\ Hand(Held(t)) = "executing"
    BY <1>0, <1>3, HeldType DEF ExecuteOk, Hand, Holds, Held
  <2>2. delivered[Held(t)] < asked[Held(t)]
    BY <2>1, Before DEF Count
  <2>3. Delivery!Deliver(Held(t))
    BY <1>3, <2>2 DEF ExecuteOk, Delivery!Deliver
  <2> QED
    BY <2>1, <2>3 DEF Delivery!Next
<1>4. ASSUME NEW t \in Target,
             \/ ClaimJob(t) \/ ExecuteError(t) \/ MarkSucceeded(t)
             \/ MarkFailed(t) \/ MarkLost(t)
      PROVE  UNCHANGED <<asked, delivered>>
  BY <1>4
     DEF ClaimJob, ExecuteError, MarkSucceeded, MarkFailed, Update, MarkLost
<1>5. ASSUME NEW j \in Job, RetryDue(j) \/ DropOutbox(j)
      PROVE  UNCHANGED <<asked, delivered>>
  BY <1>5 DEF RetryDue, DropOutbox
<1>6. ASSUME NEW c \in Event,
             \/ ResolveConflict(c) \/ DismissConflict(c)
             \/ UnblockJobs(c) \/ UnblockLost(c)
      PROVE  UNCHANGED <<asked, delivered>>
  BY <1>6 DEF ResolveConflict, DismissConflict, UnblockJobs, UnblockLost
<1>7. CASE ClearDeadletter \/ Restart \/ UNCHANGED vars
  BY <1>7 DEF ClearDeadletter, Restart, vars
<1> QED
  BY <1>1, <1>2, <1>3, <1>4, <1>5, <1>6, <1>7
     DEF Next, Pipeline, ProcessOne, User, Fault

\* The outbox implements the abstract specification of write-back delivery.
THEOREM Refinement == Spec => DeliverySpec
<1>1. Init => Delivery!Init
  BY DEF Init, Delivery!Init
<1> QED
  BY <1>1, DeliveryStep, Inductive, PTL DEF Spec, DeliverySpec, Delivery!Spec
=============================================================================
