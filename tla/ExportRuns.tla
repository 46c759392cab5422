----------------------------- MODULE ExportRuns -----------------------------
(***************************************************************************)
(* Exports on their way from a request to a file.  The web server records  *)
(* a pending run and then queues a job that names it, in two steps; the    *)
(* worker's attempts at the job start the run, read the workbook and, in   *)
(* one transaction, store the file and complete the run.                   *)
(*                                                                         *)
(* pg-boss delivers a job again when an attempt throws, when its worker    *)
(* stops, or when the attempt outlives the job's expiry; nothing cancels   *)
(* an attempt that was given up, and its outcome no longer counts.         *)
(***************************************************************************)
EXTENDS Naturals, Sequences

CONSTANTS
  Requester,      \* requests of the web server
  Attempt,        \* attempts that may be under way at a time
  MaxRuns,        \* bound on the number of runs
  MaxDeliveries,  \* pg-boss: a first delivery and the retries
  Outlives        \* whether an attempt may outlive the job's expiry

ASSUME ExportRunsAssumption ==
  MaxRuns \in Nat /\ MaxDeliveries \in Nat \ {0} /\ Outlives \in BOOLEAN

VARIABLES
  runs,      \* export_runs in id order
  files,     \* how many export_files each run has
  jobs,      \* generate_xlsx_export jobs in the order they were sent
  request,   \* per request the run it is about to queue, or 0
  attempt    \* attempts under way

vars == <<runs, files, jobs, request, attempt>>

RunId == 1 .. MaxRuns

\* error: an error message is recorded.
Run == [status: {"pending", "running", "completed", "failed"}, error: BOOLEAN]

\* left: deliveries pg-boss has left.
Job == [run: RunId, state: {"waiting", "active", "completed", "failed"},
        left: 0 .. MaxDeliveries]

\* counts: pg-boss still waits for the attempt's outcome.
AttemptState ==
  [pc: {"idle", "start", "build", "store", "record", "done", "thrown"},
   job: Nat, run: Nat, counts: BOOLEAN]

Idle == [pc |-> "idle", job |-> 0, run |-> 0, counts |-> FALSE]

TypeOK ==
  /\ runs \in Seq(Run) /\ Len(runs) <= MaxRuns
  /\ files \in [RunId -> Nat]
  /\ jobs \in Seq(Job)
  /\ request \in [Requester -> RunId \cup {0}]
  /\ attempt \in [Attempt -> AttemptState]

Init ==
  /\ runs = <<>>
  /\ files = [r \in RunId |-> 0]
  /\ jobs = <<>>
  /\ request = [u \in Requester |-> 0]
  /\ attempt = [a \in Attempt |-> Idle]

-----------------------------------------------------------------------------
(* The web server: POST /api/exports *)

CreatePending(u) ==
  /\ request[u] = 0
  /\ Len(runs) < MaxRuns
  /\ runs' = Append(runs, [status |-> "pending", error |-> FALSE])
  /\ request' = [request EXCEPT ![u] = Len(runs) + 1]
  /\ UNCHANGED <<files, jobs, attempt>>

\* Variant: the payload leaves out the run, which its schema allows.
EnqueueWithoutRun(u) ==
  /\ request[u] # 0
  /\ jobs' = Append(jobs, [run |-> 0, state |-> "waiting", left |-> MaxDeliveries])
  /\ request' = [request EXCEPT ![u] = 0]
  /\ UNCHANGED <<runs, files, attempt>>

Enqueue(u) ==
  /\ request[u] # 0
  /\ jobs' = Append(jobs, [run |-> request[u], state |-> "waiting",
                           left |-> MaxDeliveries])
  /\ request' = [request EXCEPT ![u] = 0]
  /\ UNCHANGED <<runs, files, attempt>>

\* pg-boss cannot be reached, or the server stops: the run stays pending.
FailEnqueue(u) ==
  /\ request[u] # 0
  /\ request' = [request EXCEPT ![u] = 0]
  /\ UNCHANGED <<runs, files, jobs, attempt>>

-----------------------------------------------------------------------------
(* pg-boss *)

Delivered(job) == [job EXCEPT !.state = "active", !.left = @ - 1]

Deliver(a, j) ==
  /\ attempt[a].pc = "idle"
  /\ jobs[j].state = "waiting"
  /\ jobs' = [jobs EXCEPT ![j] = Delivered(@)]
  /\ attempt' = [attempt EXCEPT ![a] =
       [pc |-> "start", job |-> j, run |-> jobs[j].run, counts |-> TRUE]]
  /\ UNCHANGED <<runs, files, request>>

\* The queue after the attempt failed its job.
JobsFailing(a) ==
  IF attempt[a].counts
    THEN [jobs EXCEPT ![attempt[a].job].state =
            IF jobs[attempt[a].job].left = 0 THEN "failed" ELSE "waiting"]
    ELSE jobs

\* The attempt is given up and goes on.
Outlive(a) ==
  /\ Outlives
  /\ attempt[a].pc # "idle" /\ attempt[a].counts
  /\ jobs' = JobsFailing(a)
  /\ attempt' = [attempt EXCEPT ![a].counts = FALSE]
  /\ UNCHANGED <<runs, files, request>>

\* The worker stops; PostgreSQL rolls back, and the job expires.
Stop(a) ==
  /\ attempt[a].pc # "idle"
  /\ jobs' = JobsFailing(a)
  /\ attempt' = [attempt EXCEPT ![a] = Idle]
  /\ UNCHANGED <<runs, files, request>>

-----------------------------------------------------------------------------
(* An attempt: createXlsxExport of a run that exists *)

\* Variant: a run is started whatever its status.
StartAnyRun(a) ==
  /\ attempt[a].pc = "start"
  /\ runs' = [runs EXCEPT ![attempt[a].run] = [status |-> "running", error |-> FALSE]]
  /\ attempt' = [attempt EXCEPT ![a].pc = "build"]
  /\ UNCHANGED <<files, jobs, request>>

\* A completed run is refused, and no failure is recorded.
Start(a) ==
  /\ attempt[a].pc = "start"
  /\ IF runs[attempt[a].run].status \in {"pending", "running", "failed"}
       THEN /\ runs' = [runs EXCEPT ![attempt[a].run] =
                          [status |-> "running", error |-> FALSE]]
            /\ attempt' = [attempt EXCEPT ![a].pc = "build"]
       ELSE /\ runs' = runs
            /\ attempt' = [attempt EXCEPT ![a].pc = "thrown"]
  /\ UNCHANGED <<files, jobs, request>>

\* workbookBuffer
Build(a) ==
  /\ attempt[a].pc = "build"
  /\ attempt' = [attempt EXCEPT ![a].pc = "store"]
  /\ UNCHANGED <<runs, files, jobs, request>>

\* The file and the run's completion, in one transaction; the UPDATE names the
\* run by its id only.
Store(a) ==
  /\ attempt[a].pc = "store"
  /\ files' = [files EXCEPT ![attempt[a].run] = @ + 1]
  /\ runs' = [runs EXCEPT ![attempt[a].run].status = "completed"]
  /\ attempt' = [attempt EXCEPT ![a].pc = "done"]
  /\ UNCHANGED <<jobs, request>>

\* A query fails or the workbook cannot be written: ROLLBACK.  What fails before
\* the run is started is not recorded.
FailAttempt(a) ==
  /\ attempt[a].pc \in {"start", "build", "store"}
  /\ attempt' = [attempt EXCEPT ![a].pc = IF @ = "start" THEN "thrown" ELSE "record"]
  /\ UNCHANGED <<runs, files, jobs, request>>

\* Variant: the error is recorded and not thrown again.
RecordFailureSilently(a) ==
  /\ attempt[a].pc = "record"
  /\ runs' = [runs EXCEPT ![attempt[a].run] = [status |-> "failed", error |-> TRUE]]
  /\ attempt' = [attempt EXCEPT ![a].pc = "done"]
  /\ UNCHANGED <<files, jobs, request>>

RecordFailure(a) ==
  /\ attempt[a].pc = "record"
  /\ runs' = [runs EXCEPT ![attempt[a].run] = [status |-> "failed", error |-> TRUE]]
  /\ attempt' = [attempt EXCEPT ![a].pc = "thrown"]
  /\ UNCHANGED <<files, jobs, request>>

\* Variant: the handler logs what an attempt throws and never settles.
ReportSuccessOnly(a) ==
  /\ attempt[a].pc \in {"done", "thrown"}
  /\ jobs' = IF attempt[a].pc = "done" /\ attempt[a].counts
               THEN [jobs EXCEPT ![attempt[a].job].state = "completed"]
             ELSE jobs
  /\ attempt' = [attempt EXCEPT ![a] = Idle]
  /\ UNCHANGED <<runs, files, request>>

\* The attempt returns or throws, and the worker tells pg-boss.
Report(a) ==
  /\ attempt[a].pc \in {"done", "thrown"}
  /\ jobs' = IF attempt[a].pc = "thrown" THEN JobsFailing(a)
             ELSE IF attempt[a].counts
               THEN [jobs EXCEPT ![attempt[a].job].state = "completed"]
             ELSE jobs
  /\ attempt' = [attempt EXCEPT ![a] = Idle]
  /\ UNCHANGED <<runs, files, request>>

-----------------------------------------------------------------------------
AttemptStep(a) ==
  Start(a) \/ Build(a) \/ Store(a) \/ RecordFailure(a) \/ Report(a)

Delivery == \E a \in Attempt, j \in DOMAIN jobs : Deliver(a, j)

Next ==
  \/ \E u \in Requester : CreatePending(u) \/ Enqueue(u) \/ FailEnqueue(u)
  \/ Delivery
  \/ \E a \in Attempt : AttemptStep(a) \/ FailAttempt(a) \/ Outlive(a) \/ Stop(a)

Spec == Init /\ [][Next]_vars

\* The worker polls its queue, and an attempt's queries are answered or fail.
FairSpec ==
  Spec /\ WF_vars(Delivery) /\ \A a \in Attempt : WF_vars(AttemptStep(a))

-----------------------------------------------------------------------------
(* Properties *)

Life == INSTANCE ExportLife WITH
  Runs <- RunId,
  life <- [r \in RunId |-> IF r <= Len(runs) THEN runs[r].status ELSE "none"],
  made <- files

\* As long as no attempt outlives its delivery, a run is worked on by one
\* attempt at a time, succeeds once, and then keeps its state and its one file
\* through every redelivery, lost reports included (startPendingExportRun).
ExportsKeepToTheirLife == Life!Spec

\* pg-boss takes a job as done only when its run has a file to download, also
\* when other attempts at it fail or go on; an attempt that outlived its delivery
\* may still make that run failed or add a file (createXlsxExport).
DoneJobsHaveFiles ==
  \A j \in DOMAIN jobs : jobs[j].state = "completed" => files[jobs[j].run] > 0

\* A queued job is done or given up in the end.
JobsEnd ==
  \A j \in RunId :
    j \in DOMAIN jobs ~> j \in DOMAIN jobs /\ jobs[j].state \in {"completed", "failed"}
=============================================================================
