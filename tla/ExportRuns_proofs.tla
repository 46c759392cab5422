------------------------- MODULE ExportRuns_proofs --------------------------
(***************************************************************************)
(* Theorems about ExportRuns for any number of requests, attempts, runs    *)
(* and deliveries.                                                         *)
(***************************************************************************)
EXTENDS ExportRuns, SequenceTheorems, TLAPS

-----------------------------------------------------------------------------
(* Types.  The queue's counter stays in range because a waiting job has     *)
(* deliveries left, and an attempt names a job and its run.                 *)

WaitingLeft == \A j \in DOMAIN jobs : jobs[j].state = "waiting" => jobs[j].left > 0

RunsKnown ==
  /\ \A j \in DOMAIN jobs : jobs[j].run <= Len(runs)
  /\ \A u \in Requester : request[u] <= Len(runs)

Names(s) == s.job \in DOMAIN jobs /\ s.run = jobs[s.job].run

AttemptsKnown == \A a \in Attempt : attempt[a].pc # "idle" => Names(attempt[a])

TInv == TypeOK /\ WaitingLeft /\ RunsKnown /\ AttemptsKnown

LEMMA IdleTyped == Idle \in AttemptState
BY DEF Idle, AttemptState

LEMMA LengthTyped ==
  ASSUME TypeOK PROVE Len(runs) \in Nat /\ DOMAIN runs = 1 .. Len(runs)
                      /\ DOMAIN jobs = 1 .. Len(jobs) /\ Len(jobs) \in Nat
BY LenProperties DEF TypeOK

\* What appending to a sequence leaves and adds.
LEMMA Appended ==
  ASSUME NEW S, NEW s \in Seq(S), NEW x \in S
  PROVE  /\ Append(s, x) \in Seq(S)
         /\ Len(Append(s, x)) = Len(s) + 1
         /\ DOMAIN Append(s, x) = 1 .. Len(s) + 1
         /\ \A i \in DOMAIN s : i \in DOMAIN Append(s, x) /\ Append(s, x)[i] = s[i]
         /\ Append(s, x)[Len(s) + 1] = x
<1>1. /\ Append(s, x) \in Seq(S) /\ Len(Append(s, x)) = Len(s) + 1
      /\ \A i \in 1 .. Len(s) : Append(s, x)[i] = s[i]
      /\ Append(s, x)[Len(s) + 1] = x
  BY AppendProperties
<1>2. DOMAIN Append(s, x) = 1 .. Len(s) + 1 /\ DOMAIN s = 1 .. Len(s) /\ Len(s) \in Nat
  BY <1>1, LenProperties
<1> QED
  BY <1>1, <1>2

\* A sequence with one entry replaced.
LEMMA Replaced ==
  ASSUME NEW S, NEW s \in Seq(S), NEW i \in DOMAIN s, NEW x \in S
  PROVE  /\ [s EXCEPT ![i] = x] \in Seq(S)
         /\ Len([s EXCEPT ![i] = x]) = Len(s)
         /\ DOMAIN [s EXCEPT ![i] = x] = DOMAIN s
         /\ [s EXCEPT ![i] = x][i] = x
         /\ \A j \in DOMAIN s : j # i => [s EXCEPT ![i] = x][j] = s[j]
BY ExceptSeq

LEMMA AttemptKept ==
  ASSUME TInv, NEW a \in Attempt, NEW s \in AttemptState,
         attempt' = [attempt EXCEPT ![a] = s],
         s.pc # "idle" => Names(s),
         UNCHANGED jobs
  PROVE  AttemptsKnown' /\ attempt' \in [Attempt -> AttemptState]
<1>1. attempt' \in [Attempt -> AttemptState] /\ attempt'[a] = s
      /\ \A b \in Attempt : b # a => attempt'[b] = attempt[b]
  BY DEF TInv, TypeOK
<1> QED
  BY <1>1 DEF TInv, AttemptsKnown, Names

\* What a step may do to the queue: change a job's state and what it has left.
QueueKept ==
  /\ jobs' \in Seq(Job) /\ DOMAIN jobs' = DOMAIN jobs
  /\ \A j \in DOMAIN jobs : jobs'[j].run = jobs[j].run
  /\ WaitingLeft'

LEMMA JobReplaced ==
  ASSUME TInv, NEW j \in DOMAIN jobs, NEW x \in Job, jobs' = [jobs EXCEPT ![j] = x],
         x.run = jobs[j].run, x.state = "waiting" => x.left > 0
  PROVE  QueueKept
<1>1. jobs \in Seq(Job)
  BY DEF TInv, TypeOK
<1>2. /\ jobs' \in Seq(Job) /\ DOMAIN jobs' = DOMAIN jobs /\ jobs'[j] = x
      /\ \A i \in DOMAIN jobs : i # j => jobs'[i] = jobs[i]
  BY <1>1, Replaced
<1> QED
  BY <1>2 DEF QueueKept, TInv, WaitingLeft

LEMMA JobTyped ==
  ASSUME TInv, NEW j \in DOMAIN jobs
  PROVE  jobs[j] \in Job /\ jobs[j].left \in 0 .. MaxDeliveries /\ jobs[j].run \in RunId
<1>1. jobs[j] \in Job
  BY LengthTyped, ElementOfSeq DEF TInv, TypeOK
<1> QED
  BY <1>1 DEF Job

LEMMA JobsFailingKept ==
  ASSUME TInv, NEW a \in Attempt, attempt[a].pc # "idle", jobs' = JobsFailing(a)
  PROVE  QueueKept
<1> DEFINE j == attempt[a].job
           x == [jobs[j] EXCEPT !.state = IF jobs[j].left = 0 THEN "failed" ELSE "waiting"]
<1>1. CASE ~attempt[a].counts
  BY <1>1 DEF JobsFailing, QueueKept, TInv, TypeOK, WaitingLeft
<1>2. CASE attempt[a].counts
  <2>1. j \in DOMAIN jobs
    BY DEF TInv, AttemptsKnown, Names
  <2>2. jobs[j] \in Job /\ jobs[j].left \in 0 .. MaxDeliveries
    BY <2>1, JobTyped
  <2>3. x \in Job /\ x.run = jobs[j].run /\ (x.state = "waiting" => x.left > 0)
    BY <2>2, ExportRunsAssumption DEF Job
  <2>4. jobs' = [jobs EXCEPT ![j] = x]
    BY <1>2 DEF JobsFailing
  <2> QED
    BY <2>1, <2>3, <2>4, JobReplaced
<1> QED
  BY <1>1, <1>2

\* A step that changes the queue and one attempt.
LEMMA QueueStep ==
  ASSUME TInv, QueueKept, NEW a \in Attempt, NEW s \in AttemptState,
         attempt' = [attempt EXCEPT ![a] = s], s.pc # "idle" => Names(s),
         UNCHANGED <<runs, files, request>>
  PROVE  TInv'
<1>1. attempt' \in [Attempt -> AttemptState] /\ attempt'[a] = s
      /\ \A b \in Attempt : b # a => attempt'[b] = attempt[b]
  BY DEF TInv, TypeOK
<1>2. AttemptsKnown'
  BY <1>1 DEF TInv, AttemptsKnown, Names, QueueKept
<1>3. RunsKnown'
  BY DEF TInv, RunsKnown, QueueKept
<1>4. TypeOK'
  BY <1>1 DEF TInv, TypeOK, QueueKept
<1> QED
  BY <1>2, <1>3, <1>4 DEF TInv, QueueKept

\* A step that changes one run, its files and one attempt.
LEMMA RunStep ==
  ASSUME TInv, NEW a \in Attempt, attempt[a].pc # "idle", NEW pc,
         [attempt[a] EXCEPT !.pc = pc] \in AttemptState,
         attempt' = [attempt EXCEPT ![a].pc = pc],
         runs' \in Seq(Run), Len(runs') = Len(runs), files' \in [RunId -> Nat],
         UNCHANGED <<jobs, request>>
  PROVE  TInv'
<1> DEFINE s == [attempt[a] EXCEPT !.pc = pc]
<1>1. attempt[a] \in AttemptState /\ Names(attempt[a])
  BY DEF TInv, TypeOK, AttemptsKnown
<1>2. Names(s)
  BY <1>1 DEF Names, AttemptState
<1>3. attempt' = [attempt EXCEPT ![a] = s]
  BY DEF TInv, TypeOK
<1>4. AttemptsKnown' /\ attempt' \in [Attempt -> AttemptState]
  BY <1>2, <1>3, AttemptKept
<1> QED
  BY <1>4 DEF TInv, TypeOK, WaitingLeft, RunsKnown

LEMMA AttemptRun ==
  ASSUME TInv, NEW a \in Attempt, attempt[a].pc # "idle"
  PROVE  /\ attempt[a] \in AttemptState /\ attempt[a].job \in DOMAIN jobs
         /\ attempt[a].run = jobs[attempt[a].job].run
         /\ attempt[a].run \in RunId /\ attempt[a].run \in DOMAIN runs
<1>1. attempt[a] \in AttemptState /\ Names(attempt[a])
  BY DEF TInv, TypeOK, AttemptsKnown
<1>2. jobs[attempt[a].job].run \in RunId /\ jobs[attempt[a].job].run <= Len(runs)
  BY <1>1, JobTyped DEF Names, TInv, RunsKnown
<1> QED
  BY <1>1, <1>2, LengthTyped, ExportRunsAssumption DEF Names, RunId, TInv

LEMMA CreatePendingTyped == ASSUME TInv, NEW u \in Requester, CreatePending(u) PROVE TInv'
<1> DEFINE x == [status |-> "pending", error |-> FALSE]
<1>1. runs \in Seq(Run) /\ x \in Run /\ Len(runs) \in Nat
  BY LengthTyped DEF TInv, TypeOK, Run
<1>2. runs' \in Seq(Run) /\ Len(runs') = Len(runs) + 1
  BY <1>1, Appended DEF CreatePending
<1>3. Len(runs) < MaxRuns /\ Len(runs) + 1 \in RunId
  BY <1>1, ExportRunsAssumption DEF CreatePending, RunId
<1>4. TypeOK'
  BY <1>2, <1>3, ExportRunsAssumption DEF TInv, TypeOK, CreatePending
<1>5. \A j \in DOMAIN jobs : jobs[j].run \in RunId
  BY JobTyped
<1>6. RunsKnown'
  BY <1>1, <1>2, <1>5 DEF TInv, TypeOK, RunsKnown, CreatePending, RunId
<1> QED
  BY <1>4, <1>6 DEF TInv, CreatePending, WaitingLeft, AttemptsKnown, Names

LEMMA EnqueueTyped == ASSUME TInv, NEW u \in Requester, Enqueue(u) PROVE TInv'
<1> DEFINE x == [run |-> request[u], state |-> "waiting", left |-> MaxDeliveries]
<1>1. jobs \in Seq(Job) /\ Len(jobs) \in Nat /\ request[u] \in RunId
  BY LengthTyped DEF TInv, TypeOK, Enqueue
<1>2. x \in Job /\ x.left > 0
  BY <1>1, ExportRunsAssumption DEF Job
<1>3. /\ jobs' \in Seq(Job) /\ DOMAIN jobs' = 1 .. Len(jobs) + 1 /\ jobs'[Len(jobs) + 1] = x
      /\ \A j \in DOMAIN jobs : j \in DOMAIN jobs' /\ jobs'[j] = jobs[j]
  BY <1>1, <1>2, Appended DEF Enqueue
<1>4. \A j \in DOMAIN jobs' : j \in DOMAIN jobs \/ j = Len(jobs) + 1
  BY <1>1, <1>3, LengthTyped DEF TInv
<1>5. TypeOK'
  BY <1>3 DEF TInv, TypeOK, Enqueue
<1>6. WaitingLeft'
  BY <1>2, <1>3, <1>4 DEF TInv, WaitingLeft
<1>7. RunsKnown'
  BY <1>3, <1>4, LengthTyped DEF TInv, TypeOK, RunsKnown, Enqueue
<1>8. AttemptsKnown'
  BY <1>3 DEF TInv, AttemptsKnown, Names, Enqueue
<1> QED
  BY <1>5, <1>6, <1>7, <1>8 DEF TInv

LEMMA FailEnqueueTyped == ASSUME TInv, NEW u \in Requester, FailEnqueue(u) PROVE TInv'
BY LengthTyped
   DEF TInv, TypeOK, WaitingLeft, RunsKnown, AttemptsKnown, Names, FailEnqueue

LEMMA DeliverTyped ==
  ASSUME TInv, NEW a \in Attempt, NEW j \in DOMAIN jobs, Deliver(a, j) PROVE TInv'
<1> DEFINE x == Delivered(jobs[j])
           s == [pc |-> "start", job |-> j, run |-> jobs[j].run, counts |-> TRUE]
<1>1. jobs[j] \in Job /\ jobs[j].left \in 0 .. MaxDeliveries /\ jobs[j].left > 0
      /\ jobs[j].run \in RunId
  BY JobTyped DEF TInv, WaitingLeft, Deliver
<1>2. x \in Job /\ x.run = jobs[j].run /\ x.state # "waiting"
  <2> DEFINE n == jobs[j].left - 1
  <2>1. n \in 0 .. MaxDeliveries
    BY <1>1, ExportRunsAssumption
  <2>2. x = [jobs[j] EXCEPT !.state = "active", !.left = n]
    BY DEF Delivered
  <2> HIDE DEF n
  <2> QED
    BY <1>1, <2>1, <2>2 DEF Job
<1>3. QueueKept
  BY <1>2, JobReplaced DEF Deliver
<1>4. s \in AttemptState
  BY <1>1, LengthTyped DEF AttemptState, RunId, TInv
<1> QED
  BY <1>3, <1>4, QueueStep DEF Deliver, Names

LEMMA OutliveTyped == ASSUME TInv, NEW a \in Attempt, Outlive(a) PROVE TInv'
<1> DEFINE s == [attempt[a] EXCEPT !.counts = FALSE]
<1>1. attempt[a] \in AttemptState /\ Names(attempt[a])
  BY DEF TInv, TypeOK, AttemptsKnown, Outlive
<1>2. s \in AttemptState /\ Names(s)
  BY <1>1 DEF AttemptState, Names
<1> QED
  BY <1>2, JobsFailingKept, QueueStep DEF Outlive

LEMMA StopTyped == ASSUME TInv, NEW a \in Attempt, Stop(a) PROVE TInv'
<1>1. QueueKept
  BY JobsFailingKept DEF Stop
<1> QED
  BY <1>1, IdleTyped, QueueStep DEF Stop, Idle

LEMMA ReportTyped == ASSUME TInv, NEW a \in Attempt, Report(a) PROVE TInv'
<1> DEFINE j == attempt[a].job
           x == [jobs[j] EXCEPT !.state = "completed"]
<1>1. attempt[a].pc # "idle" /\ j \in DOMAIN jobs
  BY AttemptRun DEF Report
<1>2. jobs[j] \in Job /\ x \in Job /\ x.run = jobs[j].run /\ x.state # "waiting"
  BY <1>1, JobTyped DEF Job
<1>3. CASE jobs' = JobsFailing(a)
  BY <1>1, <1>3, JobsFailingKept, QueueStep, IdleTyped DEF Report, Idle
<1>4. CASE jobs' = [jobs EXCEPT ![j] = x]
  BY <1>1, <1>2, <1>4, JobReplaced, QueueStep, IdleTyped DEF Report, Idle
<1>5. CASE jobs' = jobs
  <2>1. QueueKept
    BY <1>5 DEF QueueKept, TInv, TypeOK, WaitingLeft
  <2> QED
    BY <2>1, QueueStep, IdleTyped DEF Report, Idle
<1> QED
  BY <1>3, <1>4, <1>5 DEF Report

LEMMA RunReplaced ==
  ASSUME TInv, NEW r \in DOMAIN runs, NEW x \in Run, runs' = [runs EXCEPT ![r] = x]
  PROVE  /\ runs' \in Seq(Run) /\ Len(runs') = Len(runs) /\ DOMAIN runs' = DOMAIN runs
         /\ runs'[r] = x /\ \A q \in DOMAIN runs : q # r => runs'[q] = runs[q]
BY Replaced DEF TInv, TypeOK

LEMMA RunTyped == ASSUME TInv, NEW r \in DOMAIN runs PROVE runs[r] \in Run
BY LengthTyped, ElementOfSeq DEF TInv, TypeOK

\* What the steps of an attempt do to its run.
LEMMA StartRuns ==
  ASSUME TInv, NEW a \in Attempt, Start(a)
  PROVE  \/ runs' = runs /\ attempt' = [attempt EXCEPT ![a].pc = "thrown"]
            /\ runs[attempt[a].run].status = "completed"
         \/ /\ runs' = [runs EXCEPT ![attempt[a].run] = [status |-> "running", error |-> FALSE]]
            /\ attempt' = [attempt EXCEPT ![a].pc = "build"]
            /\ runs[attempt[a].run].status # "completed"
<1>1. runs[attempt[a].run] \in Run
  BY AttemptRun, RunTyped DEF Start
<1> QED
  BY <1>1 DEF Start, Run

LEMMA AttemptStepTyped ==
  ASSUME TInv, NEW a \in Attempt, AttemptStep(a) \/ FailAttempt(a) PROVE TInv'
<1> DEFINE r == attempt[a].run
<1>1. CASE Report(a)
  BY <1>1, ReportTyped
<1>2. CASE ~Report(a)
  <2>1. attempt[a].pc # "idle"
    BY <1>2 DEF AttemptStep, Start, Build, Store, RecordFailure, FailAttempt
  <2>2. attempt[a] \in AttemptState /\ r \in DOMAIN runs /\ r \in RunId
    BY <2>1, AttemptRun
  <2>3. runs[r] \in Run
    BY <2>2, RunTyped
  <2>4. \A pc \in {"idle", "start", "build", "store", "record", "done", "thrown"} :
          [attempt[a] EXCEPT !.pc = pc] \in AttemptState
    BY <2>2 DEF AttemptState
  <2>5. runs \in Seq(Run) /\ files \in [RunId -> Nat]
    BY DEF TInv, TypeOK
  <2>6. CASE Start(a)
    <3>1. [status |-> "running", error |-> FALSE] \in Run
      BY DEF Run
    <3>2. runs' \in Seq(Run) /\ Len(runs') = Len(runs)
      BY <2>2, <2>5, <2>6, <3>1, StartRuns, RunReplaced
    <3> QED
      BY <2>1, <2>4, <2>5, <2>6, <3>2, StartRuns, RunStep DEF Start
  <2>7. CASE Build(a)
    BY <2>1, <2>4, <2>5, <2>7, RunStep DEF Build
  <2>8. CASE Store(a)
    <3>1. [runs[r] EXCEPT !.status = "completed"] \in Run
      BY <2>3 DEF Run
    <3>2. runs' = [runs EXCEPT ![r] = [runs[r] EXCEPT !.status = "completed"]]
      BY <2>8 DEF Store
    <3>3. runs' \in Seq(Run) /\ Len(runs') = Len(runs)
      BY <2>2, <3>1, <3>2, RunReplaced
    <3>4. files' \in [RunId -> Nat]
      BY <2>2, <2>5, <2>8 DEF Store
    <3> QED
      BY <2>1, <2>4, <2>8, <3>3, <3>4, RunStep DEF Store
  <2>9. CASE RecordFailure(a)
    <3>1. [status |-> "failed", error |-> TRUE] \in Run
      BY DEF Run
    <3>2. runs' \in Seq(Run) /\ Len(runs') = Len(runs)
      BY <2>2, <2>9, <3>1, RunReplaced DEF RecordFailure
    <3> QED
      BY <2>1, <2>4, <2>5, <2>9, <3>2, RunStep DEF RecordFailure
  <2>10. CASE FailAttempt(a)
    <3> DEFINE pc == IF attempt[a].pc = "start" THEN "thrown" ELSE "record"
    <3>1. attempt' = [attempt EXCEPT ![a].pc = pc]
      BY <2>10 DEF FailAttempt, TInv, TypeOK
    <3>2. [attempt[a] EXCEPT !.pc = pc] \in AttemptState
      BY <2>4
    <3> QED
      BY <2>1, <2>5, <2>10, <3>1, <3>2, RunStep DEF FailAttempt
  <2> QED
    BY <1>2, <2>6, <2>7, <2>8, <2>9, <2>10 DEF AttemptStep
<1> QED
  BY <1>1, <1>2

LEMMA InitTyped == Init => TInv
<1> SUFFICES ASSUME Init PROVE TInv
  OBVIOUS
<1>1. runs \in Seq(Run) /\ Len(runs) = 0 /\ jobs \in Seq(Job) /\ DOMAIN jobs = {}
  BY DEF Init
<1> QED
  BY <1>1, IdleTyped, ExportRunsAssumption
     DEF Init, TInv, TypeOK, WaitingLeft, RunsKnown, AttemptsKnown, Idle

LEMMA StepTyped == TInv /\ [Next]_vars => TInv'
<1> SUFFICES ASSUME TInv, [Next]_vars PROVE TInv'
  OBVIOUS
<1>1. ASSUME NEW u \in Requester, CreatePending(u) \/ Enqueue(u) \/ FailEnqueue(u)
      PROVE  TInv'
  BY <1>1, CreatePendingTyped, EnqueueTyped, FailEnqueueTyped
<1>2. CASE Delivery
  BY <1>2, DeliverTyped DEF Delivery
<1>3. ASSUME NEW a \in Attempt, AttemptStep(a) \/ FailAttempt(a) \/ Outlive(a) \/ Stop(a)
      PROVE  TInv'
  BY <1>3, AttemptStepTyped, OutliveTyped, StopTyped
<1>4. CASE UNCHANGED vars
  BY <1>4 DEF vars, TInv, TypeOK, WaitingLeft, RunsKnown, AttemptsKnown, Names
<1> QED
  BY <1>1, <1>2, <1>3, <1>4 DEF Next

\* Tables, queue and attempts keep their types: no redelivery takes more
\* deliveries than pg-boss has left (TypeOK).
THEOREM TypeCorrect == Spec => []TypeOK
<1>1. TInv => TypeOK
  BY DEF TInv
<1> QED
  BY <1>1, InitTyped, StepTyped, PTL DEF Spec

-----------------------------------------------------------------------------
(* Done jobs have files.  An attempt reports success only after it stored   *)
(* its file, and no step takes a file away.                                 *)

StoredFirst == \A a \in Attempt : attempt[a].pc = "done" => files[attempt[a].run] > 0

DInv == TInv /\ StoredFirst /\ DoneJobsHaveFiles

LEMMA FilesGrow ==
  ASSUME TInv, [Next]_vars, NEW r \in RunId PROVE files'[r] >= files[r]
<1>1. files \in [RunId -> Nat]
  BY DEF TInv, TypeOK
<1>2. ASSUME NEW a \in Attempt, Store(a) PROVE files'[r] >= files[r]
  <2>1. files' = [files EXCEPT ![attempt[a].run] = @ + 1] /\ attempt[a].run \in RunId
    BY <1>2, AttemptRun DEF Store
  <2> QED
    BY <1>1, <2>1
<1>3. CASE files' = files
  BY <1>1, <1>3
<1>4. files' = files \/ \E a \in Attempt : Store(a)
  BY DEF Next, vars, CreatePending, Enqueue, FailEnqueue, Delivery, Deliver,
         AttemptStep, Start, Build, RecordFailure, Report, FailAttempt, Outlive, Stop
<1> QED
  BY <1>2, <1>3, <1>4

LEMMA FilesStay ==
  ASSUME TInv, [Next]_vars, NEW r \in RunId, files[r] > 0 PROVE files'[r] > 0
<1>1. files[r] \in Nat
  BY DEF TInv, TypeOK
<1>2. TInv'
  BY StepTyped
<1>3. files'[r] \in Nat
  BY <1>2 DEF TInv, TypeOK
<1> QED
  BY <1>1, <1>3, FilesGrow

\* Only a successful report completes a job.
LEMMA JobsFailingOpen ==
  ASSUME TInv, NEW a \in Attempt, attempt[a].pc # "idle", jobs' = JobsFailing(a),
         NEW j \in DOMAIN jobs, jobs'[j].state = "completed"
  PROVE  jobs[j].state = "completed"
<1>1. jobs[j] \in Job /\ attempt[a].job \in DOMAIN jobs
  BY JobTyped, AttemptRun
<1>2. CASE j = attempt[a].job /\ attempt[a].counts
  BY <1>1, <1>2 DEF JobsFailing, Job
<1>3. CASE j # attempt[a].job \/ ~attempt[a].counts
  BY <1>3 DEF JobsFailing
<1> QED
  BY <1>2, <1>3

LEMMA CompletedBefore ==
  ASSUME TInv, Next, NEW j \in DOMAIN jobs', jobs'[j].state = "completed"
  PROVE  /\ j \in DOMAIN jobs /\ jobs'[j].run = jobs[j].run
         /\ \/ jobs[j].state = "completed"
            \/ \E a \in Attempt : attempt[a].pc = "done" /\ attempt[a].job = j
<1>1. CASE jobs' = jobs
  BY <1>1
<1>2. ASSUME NEW u \in Requester, Enqueue(u) PROVE j \in DOMAIN jobs /\ jobs'[j] = jobs[j]
  <2> DEFINE x == [run |-> request[u], state |-> "waiting", left |-> MaxDeliveries]
  <2>1. jobs \in Seq(Job) /\ Len(jobs) \in Nat /\ DOMAIN jobs = 1 .. Len(jobs)
        /\ request[u] \in RunId
    BY <1>2, LengthTyped DEF TInv, TypeOK, Enqueue
  <2>2. x \in Job
    BY <2>1, ExportRunsAssumption DEF Job
  <2>3. /\ DOMAIN jobs' = 1 .. Len(jobs) + 1 /\ jobs'[Len(jobs) + 1] = x
        /\ \A i \in DOMAIN jobs : jobs'[i] = jobs[i]
    BY <1>2, <2>1, <2>2, Appended DEF Enqueue
  <2> QED
    BY <2>1, <2>3
<1>3. ASSUME NEW a \in Attempt, NEW i \in DOMAIN jobs, Deliver(a, i)
      PROVE  j \in DOMAIN jobs /\ jobs'[j] = jobs[j]
  <2>1. DOMAIN jobs' = DOMAIN jobs
    BY <1>3 DEF Deliver
  <2>2. j # i
    BY <1>3, <2>1, JobTyped DEF Deliver, Delivered, Job
  <2> QED
    BY <1>3, <2>1, <2>2 DEF Deliver
<1>4. ASSUME NEW a \in Attempt, attempt[a].pc # "idle", jobs' = JobsFailing(a)
      PROVE  j \in DOMAIN jobs /\ jobs'[j].run = jobs[j].run /\ jobs[j].state = "completed"
  <2>1. QueueKept
    BY <1>4, JobsFailingKept
  <2> QED
    BY <1>4, <2>1, JobsFailingOpen DEF QueueKept
<1>5. ASSUME NEW a \in Attempt, attempt[a].pc = "done",
             jobs' = [jobs EXCEPT ![attempt[a].job].state = "completed"]
      PROVE  /\ j \in DOMAIN jobs /\ jobs'[j].run = jobs[j].run
             /\ jobs[j].state = "completed" \/ attempt[a].job = j
  <2>1. attempt[a].job \in DOMAIN jobs
    BY <1>5, AttemptRun
  <2>2. jobs[attempt[a].job] \in Job
    BY <2>1, JobTyped
  <2> QED
    BY <1>5, <2>1, <2>2 DEF Job
<1>6. ASSUME NEW a \in Attempt, Report(a), ~(jobs' = jobs) PROVE
        \/ attempt[a].pc # "idle" /\ jobs' = JobsFailing(a)
        \/ attempt[a].pc = "done" /\ jobs' = [jobs EXCEPT ![attempt[a].job].state = "completed"]
  BY <1>6 DEF Report
<1> QED
  BY <1>1, <1>2, <1>3, <1>4, <1>5, <1>6
     DEF Next, CreatePending, FailEnqueue, Delivery, AttemptStep, Start, Build, Store,
         RecordFailure, FailAttempt, Outlive, Stop

LEMMA DoneBefore ==
  ASSUME TInv, Next, NEW a \in Attempt, attempt'[a].pc = "done"
  PROVE  \/ attempt[a].pc = "done" /\ attempt'[a].run = attempt[a].run
         \/ Store(a) /\ attempt'[a].run = attempt[a].run
<1>1. attempt \in [Attempt -> AttemptState]
  BY DEF TInv, TypeOK
<1>2. CASE attempt' = attempt
  BY <1>2
<1>3. ASSUME NEW b \in Attempt, NEW s, attempt' = [attempt EXCEPT ![b] = s], s.pc # "done"
      PROVE  attempt[a].pc = "done" /\ attempt'[a].run = attempt[a].run
  BY <1>1, <1>3
<1>4. ASSUME NEW b \in Attempt, NEW pc, attempt' = [attempt EXCEPT ![b].pc = pc], pc # "done"
      PROVE  attempt[a].pc = "done" /\ attempt'[a].run = attempt[a].run
  <2>1. b # a
    BY <1>1, <1>4 DEF AttemptState
  <2> QED
    BY <1>1, <1>4, <2>1
<1>5. ASSUME NEW b \in Attempt, Store(b)
      PROVE  /\ attempt[a].pc = "done" \/ Store(a)
             /\ attempt'[a].run = attempt[a].run
  <2>1. CASE a = b
    BY <1>1, <1>5, <2>1 DEF Store, AttemptState
  <2>2. CASE a # b
    BY <1>1, <1>5, <2>2 DEF Store
  <2> QED
    BY <2>1, <2>2
<1>6. ASSUME NEW b \in Attempt, Outlive(b)
      PROVE  attempt[a].pc = "done" /\ attempt'[a].run = attempt[a].run
  BY <1>1, <1>6 DEF Outlive, AttemptState
<1>7. ASSUME NEW b \in Attempt, FailAttempt(b)
      PROVE  \E pc : attempt' = [attempt EXCEPT ![b].pc = pc] /\ pc # "done"
  <2> DEFINE pc == IF attempt[b].pc = "start" THEN "thrown" ELSE "record"
  <2>1. attempt' = [attempt EXCEPT ![b].pc = pc] /\ pc # "done"
    BY <1>1, <1>7 DEF FailAttempt
  <2> QED
    BY <2>1
<1>8. ASSUME NEW b \in Attempt, Start(b) \/ Build(b) \/ RecordFailure(b)
      PROVE  \E pc : attempt' = [attempt EXCEPT ![b].pc = pc] /\ pc # "done"
  BY <1>8 DEF Start, Build, RecordFailure
<1>9. ASSUME NEW b \in Attempt, Stop(b) \/ Report(b)
      PROVE  attempt' = [attempt EXCEPT ![b] = Idle] /\ Idle.pc # "done"
  BY <1>9 DEF Stop, Report, Idle
<1>10. ASSUME NEW b \in Attempt, NEW j \in DOMAIN jobs, Deliver(b, j)
       PROVE  \E s : attempt' = [attempt EXCEPT ![b] = s] /\ s.pc # "done"
  <2> DEFINE s == [pc |-> "start", job |-> j, run |-> jobs[j].run, counts |-> TRUE]
  <2>1. attempt' = [attempt EXCEPT ![b] = s]
    BY <1>10 DEF Deliver
  <2>2. s.pc # "done"
    OBVIOUS
  <2> QED
    BY <2>1, <2>2
<1> QED
  BY <1>2, <1>3, <1>4, <1>5, <1>6, <1>7, <1>8, <1>9, <1>10
     DEF Next, CreatePending, Enqueue, FailEnqueue, Delivery, AttemptStep

LEMMA StepDone == DInv /\ [Next]_vars => DInv'
<1> SUFFICES ASSUME DInv, [Next]_vars PROVE DInv'
  OBVIOUS
<1>1. TInv /\ TInv'
  BY StepTyped DEF DInv
<1>2. CASE UNCHANGED vars
  BY <1>1, <1>2 DEF DInv, StoredFirst, DoneJobsHaveFiles, vars
<1>3. CASE Next
  <2>1. StoredFirst'
    <3> SUFFICES ASSUME NEW a \in Attempt, attempt'[a].pc = "done"
                 PROVE  files'[attempt'[a].run] > 0
      BY DEF StoredFirst
    <3>1. attempt[a].pc # "idle"
      BY <1>1, <1>3, DoneBefore DEF Store
    <3>2. attempt[a].run \in RunId
      BY <1>1, <3>1, AttemptRun
    <3>3. CASE attempt[a].pc = "done" /\ attempt'[a].run = attempt[a].run
      BY <1>1, <3>2, <3>3, FilesStay DEF DInv, StoredFirst
    <3>4. CASE Store(a) /\ attempt'[a].run = attempt[a].run
      <4>1. files \in [RunId -> Nat]
        BY <1>1 DEF TInv, TypeOK
      <4> QED
        BY <3>2, <3>4, <4>1 DEF Store
    <3> QED
      BY <1>1, <1>3, <3>3, <3>4, DoneBefore
  <2>2. DoneJobsHaveFiles'
    <3> SUFFICES ASSUME NEW j \in DOMAIN jobs', jobs'[j].state = "completed"
                 PROVE  files'[jobs'[j].run] > 0
      BY DEF DoneJobsHaveFiles
    <3>1. j \in DOMAIN jobs /\ jobs'[j].run = jobs[j].run
      BY <1>1, <1>3, CompletedBefore
    <3>2. jobs[j].run \in RunId
      BY <1>1, <3>1, JobTyped
    <3>3. CASE jobs[j].state = "completed"
      BY <1>1, <3>1, <3>2, <3>3, FilesStay DEF DInv, DoneJobsHaveFiles
    <3>4. ASSUME NEW a \in Attempt, attempt[a].pc = "done", attempt[a].job = j
          PROVE  files[jobs[j].run] > 0
      BY <1>1, <3>4, AttemptRun DEF DInv, StoredFirst
    <3> QED
      BY <1>1, <1>3, <3>1, <3>2, <3>3, <3>4, FilesStay, CompletedBefore
  <2> QED
    BY <1>1, <2>1, <2>2 DEF DInv
<1> QED
  BY <1>2, <1>3

\* However many attempts at a job overlap, fail or stop, pg-boss takes it as
\* done only when its run has a file (DoneJobsHaveFiles).
THEOREM DoneJobs == Spec => []DoneJobsHaveFiles
<1>1. Init => DInv
  <2> SUFFICES ASSUME Init PROVE DInv
    OBVIOUS
  <2>1. TInv
    BY InitTyped
  <2>2. StoredFirst /\ DoneJobsHaveFiles
    BY DEF Init, StoredFirst, DoneJobsHaveFiles, Idle
  <2> QED
    BY <2>1, <2>2 DEF DInv
<1>2. DInv => DoneJobsHaveFiles
  BY DEF DInv
<1> QED
  BY <1>1, <1>2, StepDone, PTL DEF Spec

-----------------------------------------------------------------------------
(* The life of a run.  While no attempt outlives its delivery, the attempts *)
(* under way hold active jobs, one each; a run is named by one job or by    *)
(* one request that is about to send it; so nobody else writes to the run   *)
(* an attempt has started.                                                  *)

Holding ==
  \A a \in Attempt : attempt[a].pc # "idle" =>
    attempt[a].counts /\ jobs[attempt[a].job].state = "active"

OneAttempt ==
  \A a, b \in Attempt :
    a # b /\ attempt[a].pc # "idle" /\ attempt[b].pc # "idle" => attempt[a].job # attempt[b].job

OneJob == \A i, j \in DOMAIN jobs : i # j => jobs[i].run # jobs[j].run

OneRequest ==
  \A u \in Requester : request[u] # 0 =>
    /\ \A v \in Requester : v # u => request[v] # request[u]
    /\ \A j \in DOMAIN jobs : jobs[j].run # request[u]

Started(s) == s.pc \in {"build", "store", "record"}

RunningRuns ==
  \A a \in Attempt : Started(attempt[a]) => runs[attempt[a].run].status = "running"

LInv == TInv /\ Holding /\ OneAttempt /\ OneJob /\ OneRequest /\ RunningRuns

LEMMA DistinctRuns ==
  ASSUME LInv, NEW a \in Attempt, NEW b \in Attempt, a # b,
         attempt[a].pc # "idle", attempt[b].pc # "idle"
  PROVE  attempt[a].run # attempt[b].run
<1>1. attempt[a].job \in DOMAIN jobs /\ attempt[b].job \in DOMAIN jobs
      /\ attempt[a].run = jobs[attempt[a].job].run /\ attempt[b].run = jobs[attempt[b].job].run
  BY AttemptRun DEF LInv
<1> QED
  BY <1>1 DEF LInv, OneAttempt, OneJob

\* A step of the web server.
LEMMA CreatePendingLives ==
  ASSUME LInv, TInv', NEW u \in Requester, CreatePending(u) PROVE LInv'
<1> DEFINE x == [status |-> "pending", error |-> FALSE]
           n == Len(runs) + 1
<1>1. runs \in Seq(Run) /\ x \in Run /\ Len(runs) \in Nat
  BY LengthTyped DEF LInv, TInv, TypeOK, Run
<1>2. \A r \in DOMAIN runs : runs'[r] = runs[r]
  BY <1>1, Appended DEF CreatePending
<1>3. \A a \in Attempt : attempt[a].pc # "idle" => attempt[a].run \in DOMAIN runs
  BY AttemptRun DEF LInv
<1>4. RunningRuns'
  BY <1>2, <1>3 DEF LInv, RunningRuns, Started, CreatePending
<1>5. \A j \in DOMAIN jobs : jobs[j].run # n
  BY <1>1, JobTyped DEF LInv, TInv, RunsKnown, RunId
<1>6. \A v \in Requester : request[v] # n
  BY <1>1 DEF LInv, TInv, RunsKnown, TypeOK, RunId
<1>7. OneRequest'
  BY <1>5, <1>6 DEF LInv, TInv, TypeOK, OneRequest, CreatePending
<1> QED
  BY <1>4, <1>7 DEF LInv, Holding, OneAttempt, OneJob, CreatePending

LEMMA EnqueueLives ==
  ASSUME LInv, TInv', NEW u \in Requester, Enqueue(u) PROVE LInv'
<1> DEFINE x == [run |-> request[u], state |-> "waiting", left |-> MaxDeliveries]
           n == Len(jobs) + 1
<1>1. jobs \in Seq(Job) /\ Len(jobs) \in Nat /\ request[u] \in RunId /\ DOMAIN jobs = 1 .. Len(jobs)
  BY LengthTyped DEF LInv, TInv, TypeOK, Enqueue
<1>2. x \in Job
  BY <1>1, ExportRunsAssumption DEF Job
<1>3. /\ DOMAIN jobs' = 1 .. n /\ jobs'[n] = x
      /\ \A j \in DOMAIN jobs : j \in DOMAIN jobs' /\ jobs'[j] = jobs[j]
  BY <1>1, <1>2, Appended DEF Enqueue
<1>4. \A j \in DOMAIN jobs' : j \in DOMAIN jobs \/ j = n
  BY <1>1, <1>3
<1>5. \A a \in Attempt : attempt[a].pc # "idle" => attempt[a].job \in DOMAIN jobs
  BY AttemptRun DEF LInv
<1>6. Holding'
  BY <1>3, <1>5 DEF LInv, Holding, Enqueue
<1>7. \A j \in DOMAIN jobs : jobs[j].run # request[u]
  BY DEF LInv, OneRequest, Enqueue
<1>8. OneJob'
  BY <1>3, <1>4, <1>7 DEF LInv, OneJob
<1>9. request' = [request EXCEPT ![u] = 0] /\ request \in [Requester -> RunId \cup {0}]
  BY DEF LInv, TInv, TypeOK, Enqueue
<1>10. OneRequest'
  BY <1>3, <1>4, <1>9 DEF LInv, OneRequest, Enqueue
<1> QED
  BY <1>6, <1>8, <1>10 DEF LInv, OneAttempt, RunningRuns, Started, Enqueue

LEMMA FailEnqueueLives ==
  ASSUME LInv, TInv', NEW u \in Requester, FailEnqueue(u) PROVE LInv'
<1>1. request' = [request EXCEPT ![u] = 0] /\ request \in [Requester -> RunId \cup {0}]
  BY DEF LInv, TInv, TypeOK, FailEnqueue
<1>2. OneRequest'
  BY <1>1 DEF LInv, OneRequest, FailEnqueue
<1> QED
  BY <1>2 DEF LInv, Holding, OneAttempt, OneJob, RunningRuns, Started, FailEnqueue

\* A step of the queue keeps the runs each job names.
LEMMA QueueLives ==
  ASSUME LInv, QueueKept, UNCHANGED request PROVE OneJob' /\ OneRequest'
BY DEF LInv, OneJob, OneRequest, QueueKept

LEMMA DeliverLives ==
  ASSUME LInv, TInv', NEW a \in Attempt, NEW j \in DOMAIN jobs, Deliver(a, j) PROVE LInv'
<1> DEFINE s == [pc |-> "start", job |-> j, run |-> jobs[j].run, counts |-> TRUE]
<1>1. /\ attempt'[a] = s /\ \A b \in Attempt : b # a => attempt'[b] = attempt[b]
  BY DEF LInv, TInv, TypeOK, Deliver
<1>2. /\ DOMAIN jobs' = DOMAIN jobs /\ jobs'[j].state = "active"
      /\ \A i \in DOMAIN jobs : jobs'[i].run = jobs[i].run
      /\ \A i \in DOMAIN jobs : i # j => jobs'[i] = jobs[i]
  BY JobTyped DEF Deliver, Delivered, Job, LInv
<1>3. \A b \in Attempt : attempt[b].pc # "idle" => attempt[b].job # j
  BY DEF LInv, Holding, Deliver
<1>4. \A b \in Attempt : attempt[b].pc # "idle" => attempt[b].job \in DOMAIN jobs
  BY AttemptRun DEF LInv
<1>5. Holding'
  BY <1>1, <1>2, <1>3, <1>4 DEF LInv, Holding
<1>6. OneAttempt'
  BY <1>1, <1>3 DEF LInv, OneAttempt
<1>7. OneJob' /\ OneRequest'
  BY <1>2 DEF LInv, OneJob, OneRequest, Deliver
<1>8. RunningRuns'
  BY <1>1 DEF LInv, RunningRuns, Started, Deliver
<1> QED
  BY <1>5, <1>6, <1>7, <1>8 DEF LInv

\* An attempt ends, and its job is failed or completed.
LEMMA EndingLives ==
  ASSUME LInv, TInv', NEW a \in Attempt, attempt[a].pc # "idle",
         attempt' = [attempt EXCEPT ![a] = Idle], QueueKept,
         \A j \in DOMAIN jobs : j # attempt[a].job => jobs'[j] = jobs[j],
         UNCHANGED <<runs, request>>
  PROVE  LInv'
<1>1. attempt'[a] = Idle /\ \A b \in Attempt : b # a => attempt'[b] = attempt[b]
  BY DEF LInv, TInv, TypeOK
<1>2. \A b \in Attempt : b # a /\ attempt[b].pc # "idle" =>
        attempt[b].job # attempt[a].job /\ attempt[b].job \in DOMAIN jobs
  BY AttemptRun DEF LInv, OneAttempt
<1>3. Holding'
  BY <1>1, <1>2 DEF LInv, Holding, Idle
<1>4. OneAttempt' /\ RunningRuns'
  BY <1>1 DEF LInv, OneAttempt, RunningRuns, Started, Idle
<1> QED
  BY <1>3, <1>4, QueueLives DEF LInv

LEMMA JobsFailingLocal ==
  ASSUME LInv, NEW a \in Attempt, attempt[a].pc # "idle", jobs' = JobsFailing(a)
  PROVE  QueueKept /\ \A j \in DOMAIN jobs : j # attempt[a].job => jobs'[j] = jobs[j]
<1>1. QueueKept
  BY JobsFailingKept DEF LInv
<1> QED
  BY <1>1 DEF JobsFailing

LEMMA StopLives == ASSUME LInv, TInv', NEW a \in Attempt, Stop(a) PROVE LInv'
BY JobsFailingLocal, EndingLives DEF Stop

LEMMA ReportLives == ASSUME LInv, TInv', NEW a \in Attempt, Report(a) PROVE LInv'
<1> DEFINE j == attempt[a].job
           x == [jobs[j] EXCEPT !.state = "completed"]
<1>1. attempt[a].pc # "idle" /\ attempt[a].counts /\ j \in DOMAIN jobs /\ TInv
  BY AttemptRun DEF Report, LInv, Holding
<1>2. jobs[j] \in Job /\ x \in Job /\ x.run = jobs[j].run /\ x.state # "waiting"
  BY <1>1, JobTyped DEF Job
<1>3. CASE jobs' = JobsFailing(a)
  BY <1>1, <1>3, JobsFailingLocal, EndingLives DEF Report
<1>4. CASE jobs' = [jobs EXCEPT ![j] = x]
  <2>1. QueueKept
    BY <1>1, <1>2, <1>4, JobReplaced
  <2>2. \A i \in DOMAIN jobs : i # j => jobs'[i] = jobs[i]
    BY <1>4
  <2> QED
    BY <1>1, <2>1, <2>2, EndingLives DEF Report
<1> QED
  BY <1>1, <1>3, <1>4 DEF Report

\* A step of an attempt that stays at its job.
LEMMA WorkLives ==
  ASSUME LInv, TInv', NEW a \in Attempt, attempt[a].pc # "idle", NEW pc, pc # "idle",
         attempt' = [attempt EXCEPT ![a].pc = pc],
         \A r \in DOMAIN runs : r # attempt[a].run => runs'[r] = runs[r],
         pc \in {"build", "store", "record"} => runs'[attempt[a].run].status = "running",
         UNCHANGED <<jobs, request>>
  PROVE  LInv'
<1>1. /\ attempt'[a] = [attempt[a] EXCEPT !.pc = pc] /\ attempt[a] \in AttemptState
      /\ \A b \in Attempt : b # a => attempt'[b] = attempt[b]
  BY DEF LInv, TInv, TypeOK
<1>2. /\ attempt'[a].pc = pc /\ attempt'[a].job = attempt[a].job
      /\ attempt'[a].run = attempt[a].run /\ attempt'[a].counts = attempt[a].counts
  BY <1>1 DEF AttemptState
<1>3. Holding' /\ OneAttempt'
  BY <1>1, <1>2 DEF LInv, Holding, OneAttempt
<1>4. \A b \in Attempt : b # a /\ Started(attempt[b]) =>
        attempt[b].run \in DOMAIN runs /\ attempt[b].run # attempt[a].run
  BY AttemptRun, DistinctRuns DEF LInv, Started
<1>5. RunningRuns'
  BY <1>1, <1>2, <1>4 DEF LInv, RunningRuns, Started
<1> QED
  BY <1>3, <1>5 DEF LInv, OneJob, OneRequest

LEMMA AttemptStepLives ==
  ASSUME LInv, TInv', NEW a \in Attempt, AttemptStep(a) \/ FailAttempt(a) PROVE LInv'
<1> DEFINE r == attempt[a].run
<1>1. CASE Report(a)
  BY <1>1, ReportLives
<1>2. CASE ~Report(a)
  <2>1. attempt[a].pc # "idle" /\ TInv
    BY <1>2 DEF AttemptStep, Start, Build, Store, RecordFailure, FailAttempt, LInv
  <2>2. r \in DOMAIN runs /\ runs[r] \in Run /\ runs \in Seq(Run)
    BY <2>1, AttemptRun, RunTyped DEF TInv, TypeOK
  <2>3. CASE Start(a)
    <3>1. CASE runs' = runs /\ attempt' = [attempt EXCEPT ![a].pc = "thrown"]
      BY <2>1, <2>3, <3>1, WorkLives DEF Start
    <3>2. CASE /\ runs' = [runs EXCEPT ![r] = [status |-> "running", error |-> FALSE]]
               /\ attempt' = [attempt EXCEPT ![a].pc = "build"]
      <4>1. /\ runs'[r].status = "running"
            /\ \A q \in DOMAIN runs : q # r => runs'[q] = runs[q]
        BY <2>2, <3>2
      <4> QED
        BY <2>1, <2>3, <3>2, <4>1, WorkLives DEF Start
    <3> QED
      BY <2>1, <2>3, <3>1, <3>2, StartRuns
  <2>4. CASE Build(a)
    <3>1. runs[r].status = "running"
      BY <2>4 DEF LInv, RunningRuns, Started, Build
    <3> QED
      BY <2>1, <2>4, <3>1, WorkLives DEF Build
  <2>5. CASE Store(a)
    <3>1. \A q \in DOMAIN runs : q # r => runs'[q] = runs[q]
      BY <2>2, <2>5 DEF Store
    <3> QED
      BY <2>1, <2>5, <3>1, WorkLives DEF Store
  <2>6. CASE RecordFailure(a)
    <3>1. \A q \in DOMAIN runs : q # r => runs'[q] = runs[q]
      BY <2>2, <2>6 DEF RecordFailure
    <3> QED
      BY <2>1, <2>6, <3>1, WorkLives DEF RecordFailure
  <2>7. CASE FailAttempt(a)
    <3> DEFINE pc == IF attempt[a].pc = "start" THEN "thrown" ELSE "record"
    <3>1. attempt' = [attempt EXCEPT ![a].pc = pc] /\ pc # "idle"
      BY <2>7 DEF FailAttempt, LInv, TInv, TypeOK
    <3>2. pc = "record" => runs[r].status = "running"
      BY <2>7 DEF LInv, RunningRuns, Started, FailAttempt
    <3>3. pc \in {"build", "store", "record"} => pc = "record"
      OBVIOUS
    <3> HIDE DEF pc
    <3> QED
      BY <2>1, <2>7, <3>1, <3>2, <3>3, WorkLives DEF FailAttempt
  <2> QED
    BY <1>2, <2>3, <2>4, <2>5, <2>6, <2>7 DEF AttemptStep
<1> QED
  BY <1>1, <1>2

LEMMA StepLives == ASSUME ~Outlives PROVE LInv /\ [Next]_vars => LInv'
<1> SUFFICES ASSUME LInv, [Next]_vars PROVE LInv'
  OBVIOUS
<1>1. TInv'
  BY StepTyped DEF LInv
<1>2. CASE UNCHANGED vars
  BY <1>1, <1>2
     DEF LInv, Holding, OneAttempt, OneJob, OneRequest, RunningRuns, Started, vars
<1>3. CASE Delivery
  BY <1>1, <1>3, DeliverLives DEF Delivery
<1> QED
  BY <1>1, <1>2, <1>3, CreatePendingLives, EnqueueLives, FailEnqueueLives, StopLives,
     AttemptStepLives
     DEF Next, Outlive

LEMMA InitLives == Init => LInv
<1> SUFFICES ASSUME Init PROVE LInv
  OBVIOUS
<1>1. TInv
  BY InitTyped
<1> QED
  BY <1>1
     DEF Init, Idle, LInv, Holding, OneAttempt, OneJob, OneRequest, RunningRuns, Started

LifeOf(r) == IF r <= Len(runs) THEN runs[r].status ELSE "none"

Lives == [r \in RunId |-> LifeOf(r)]

LEMMA LivesKept ==
  ASSUME TInv, runs' = runs PROVE Lives' = Lives
BY DEF Lives, LifeOf

\* The life that changes when one run does.
LEMMA LivesReplaced ==
  ASSUME TInv, NEW r \in DOMAIN runs, NEW x \in Run, runs' = [runs EXCEPT ![r] = x]
  PROVE  Lives' = [Lives EXCEPT ![r] = x.status] /\ Lives[r] = runs[r].status /\ r \in RunId
<1>1. /\ Len(runs') = Len(runs) /\ runs'[r] = x
      /\ \A q \in DOMAIN runs : q # r => runs'[q] = runs[q]
  BY RunReplaced
<1>2. Len(runs) \in Nat /\ DOMAIN runs = 1 .. Len(runs) /\ Len(runs) <= MaxRuns
  BY LengthTyped DEF TInv, TypeOK
<1>3. r \in RunId /\ r <= Len(runs)
  BY <1>2, ExportRunsAssumption DEF RunId
<1>4. \A q \in RunId : q # r => LifeOf(q)' = LifeOf(q)
  BY <1>1, <1>2, ExportRunsAssumption DEF LifeOf, RunId
<1>5. LifeOf(r)' = x.status /\ LifeOf(r) = runs[r].status
  BY <1>1, <1>3 DEF LifeOf
<1> QED
  BY <1>3, <1>4, <1>5 DEF Lives

LEMMA CreatePendingLife ==
  ASSUME LInv, NEW u \in Requester, CreatePending(u)
  PROVE  \E r \in RunId : Lives[r] = "none" /\ Lives' = [Lives EXCEPT ![r] = "pending"]
<1> DEFINE x == [status |-> "pending", error |-> FALSE]
<1>1. runs \in Seq(Run) /\ x \in Run /\ Len(runs) \in Nat /\ DOMAIN runs = 1 .. Len(runs)
  BY LengthTyped DEF LInv, TInv, TypeOK, Run
<1>2. PICK n \in RunId : n = Len(runs) + 1
  BY <1>1, ExportRunsAssumption DEF CreatePending, RunId
<1>3. Len(runs') = n /\ runs'[n] = x /\ \A r \in DOMAIN runs : runs'[r] = runs[r]
  BY <1>1, <1>2, Appended DEF CreatePending
<1>4. LifeOf(n) = "none" /\ LifeOf(n)' = "pending"
  BY <1>1, <1>2, <1>3 DEF LifeOf
<1>5. \A r \in RunId : r # n => LifeOf(r)' = LifeOf(r)
  BY <1>1, <1>2, <1>3, ExportRunsAssumption DEF LifeOf, RunId
<1> QED
  BY <1>4, <1>5 DEF Lives

LEMMA StepLife == LInv /\ [Next]_vars => [Life!Next]_<<Lives, files>>
<1> SUFFICES ASSUME LInv, [Next]_vars PROVE Life!Next \/ UNCHANGED <<Lives, files>>
  OBVIOUS
<1>1. TInv
  BY DEF LInv
<1>2. CASE UNCHANGED <<runs, files>>
  BY <1>1, <1>2, LivesKept
<1>3. ASSUME NEW u \in Requester, CreatePending(u) PROVE Life!Next
  <2>1. PICK r \in RunId : Lives[r] = "none" /\ Lives' = [Lives EXCEPT ![r] = "pending"]
    BY <1>3, CreatePendingLife
  <2>2. Life!Request(r)
    BY <1>3, <2>1 DEF Life!Request, Life!Move, CreatePending, Lives, LifeOf
  <2> QED
    BY <2>2 DEF Life!Next
<1>4. ASSUME NEW a \in Attempt, Start(a) PROVE Life!Next \/ UNCHANGED <<Lives, files>>
  <2> DEFINE x == [status |-> "running", error |-> FALSE]
  <2>0. PICK r \in DOMAIN runs : r = attempt[a].run
    BY <1>1, <1>4, AttemptRun DEF Start
  <2>1. runs[r] \in Run /\ x \in Run
    BY <1>1, RunTyped DEF Run
  <2>2. CASE runs' = runs
    BY <1>1, <1>4, <2>2, LivesKept DEF Start
  <2>3. CASE runs' = [runs EXCEPT ![r] = x] /\ runs[r].status # "completed"
    <3>1. Lives' = [Lives EXCEPT ![r] = "running"] /\ Lives[r] = runs[r].status /\ r \in RunId
      BY <1>1, <2>1, <2>3, LivesReplaced
    <3>2. CASE runs[r].status = "running"
      BY <1>4, <3>1, <3>2 DEF Start, Lives
    <3>3. CASE runs[r].status # "running"
      <4>1. Lives[r] \in {"pending", "failed"}
        BY <2>1, <2>3, <3>1, <3>3 DEF Run
      <4>2. Life!Try(r)
        BY <1>4, <3>1, <4>1 DEF Life!Try, Life!Move, Start, Lives, LifeOf
      <4> QED
        BY <3>1, <4>2 DEF Life!Next
    <3> QED
      BY <3>2, <3>3
  <2> QED
    BY <1>1, <1>4, <2>0, <2>2, <2>3, StartRuns
<1>5. ASSUME NEW a \in Attempt, Store(a) PROVE Life!Next
  <2>0. PICK r \in DOMAIN runs : r = attempt[a].run
    BY <1>1, <1>5, AttemptRun DEF Store
  <2> DEFINE x == [runs[r] EXCEPT !.status = "completed"]
  <2>1. runs[r] \in Run /\ runs[r].status = "running"
    BY <1>1, <1>5, <2>0, RunTyped DEF Store, LInv, RunningRuns, Started
  <2>2. x \in Run /\ x.status = "completed" /\ runs' = [runs EXCEPT ![r] = x]
    BY <1>5, <2>0, <2>1 DEF Run, Store
  <2>3. Lives' = [Lives EXCEPT ![r] = "completed"] /\ Lives[r] = "running" /\ r \in RunId
    BY <1>1, <2>1, <2>2, LivesReplaced
  <2>4. Life!Finish(r)
    BY <1>5, <2>0, <2>3 DEF Life!Finish, Life!Move, Store, Lives, LifeOf
  <2> QED
    BY <2>3, <2>4 DEF Life!Next
<1>6. ASSUME NEW a \in Attempt, RecordFailure(a) PROVE Life!Next
  <2> DEFINE x == [status |-> "failed", error |-> TRUE]
  <2>0. PICK r \in DOMAIN runs : r = attempt[a].run
    BY <1>1, <1>6, AttemptRun DEF RecordFailure
  <2>1. runs[r].status = "running" /\ x \in Run
    BY <1>6, <2>0 DEF RecordFailure, LInv, RunningRuns, Started, Run
  <2>2. Lives' = [Lives EXCEPT ![r] = "failed"] /\ Lives[r] = "running" /\ r \in RunId
    BY <1>1, <1>6, <2>0, <2>1, LivesReplaced DEF RecordFailure
  <2>3. Life!Fail(r)
    BY <1>6, <2>2 DEF Life!Fail, Life!Move, RecordFailure, Lives, LifeOf
  <2> QED
    BY <2>2, <2>3 DEF Life!Next
<1> QED
  BY <1>2, <1>3, <1>4, <1>5, <1>6
     DEF Next, vars, Enqueue, FailEnqueue, Delivery, Deliver, AttemptStep, Build, Report,
         FailAttempt, Outlive, Stop

LEMMA InitLife == Init => Life!Init
<1> SUFFICES ASSUME Init PROVE Life!Init
  OBVIOUS
<1>1. Len(runs) = 0
  BY DEF Init
<1>2. \A r \in RunId : ~(r <= Len(runs))
  BY <1>1, ExportRunsAssumption DEF RunId
<1> QED
  BY <1>2 DEF Init, Life!Init

\* As long as no attempt outlives its delivery, every export run is worked on
\* by one attempt at a time, succeeds once and then keeps its one file, through
\* failures, stops and redeliveries (ExportsKeepToTheirLife).
THEOREM ExportsRefineLife ==
  ASSUME ~Outlives PROVE Spec => ExportsKeepToTheirLife
<1>1. LInv /\ [Next]_vars => LInv'
  BY StepLives
<1>2. LInv /\ [Next]_vars => [Life!Next]_<<Lives, files>>
  BY StepLife
<1>3. <<Lives, files>>
        = <<[r \in RunId |-> IF r <= Len(runs) THEN runs[r].status ELSE "none"], files>>
  BY DEF Lives, LifeOf
<1> QED
  BY <1>1, <1>2, <1>3, InitLife, InitLives, PTL
     DEF Spec, ExportsKeepToTheirLife, Life!Spec, Lives, LifeOf
=============================================================================
