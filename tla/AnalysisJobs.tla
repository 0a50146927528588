---------------------------- MODULE AnalysisJobs ----------------------------
(***************************************************************************)
(* Durable analysis jobs of Portfell: the uvicorn worker processes, each   *)
(* with one AnalysisJobExecutor thread, the analysis_jobs, analysis_runs,  *)
(* analysis_artifacts and multivariate_checkpoints rows they share, and    *)
(* the market snapshot they read.                                          *)
(*                                                                         *)
(* One action is one database transaction (the repository commits inside   *)
(* every call) together with the local step that follows it.  Where the    *)
(* repository reads in one statement and writes in a later one             *)
(* (create_analysis_run, link_job_run, complete_job) the two are two       *)
(* actions, because another process can commit in between.                 *)
(*                                                                         *)
(* Sources: app_services/analysis_executor.py, app_services/workspace.py,  *)
(* app_services/multivariate_compute.py, app_state/repository.py and the   *)
(* triggers of app_state/schema.py and migrations/v002.                    *)
(*                                                                         *)
(* An operator named Fault_... is not part of the specification: it is the *)
(* definition after it with one plausible mistake, kept to show that the   *)
(* properties below notice the mistake.                                    *)
(***************************************************************************)
EXTENDS Integers, Sequences, FiniteSets

CONSTANTS
    Workers,        \* uvicorn worker processes (hosted_runtime: at least two)
    Jobs,           \* job ids; every create_or_get_active_job call brings a fresh one
    Inputs,         \* logical inputs: a (stage, input_ref, requested_objective)
    StageOf,        \* the stage of an input
    Work,           \* the progress total of an input: members, pairs, phases
    ArtifactCount,  \* how many artifacts a run of an input publishes
    Snapshots,      \* market snapshot ids
    Pinned,         \* for a multivariate input, its bivariate run's snapshot
    SlowPhases,     \* TRUE: a live executor may go stale_after without a write
    LostWrites,     \* TRUE: the database may refuse the write that fails a job
    NoJob, NoRun,   \* null values
    RecoverLimit,   \* rows one list_analysis_jobs call returns (500 in recover)
    MaxAttempts,    \* bound: claims of one job
    MaxRetries,     \* bound: retry nonces of one multivariate run
    MaxCalls,       \* bound: start_*_job calls
    MaxCrashes,     \* bound: process crashes
    MaxEvents       \* bound: process closes and market refreshes

Stages   == {"univariate", "bivariate", "multivariate"}
Active   == {"queued", "running"}
Terminal == {"succeeded", "failed"}
NoTotal  == -1      \* progress_total is null

\* run_id is opaque_id(logical_hash): equal ids are equal inputs.  Nonce 0 is the
\* deterministic identity, the others are run_multivariate's retry_nonce (a uuid4).
RunIds == [input : Inputs, snap : Snapshots, nonce : 0 .. MaxRetries]

ASSUME JobsAssumption  == IsFiniteSet(Jobs)
ASSUME StageAssumption == Inputs # {} /\ StageOf \in [Inputs -> Stages]
ASSUME WorkAssumption ==
    /\ Work \in [Inputs -> Nat]
    /\ \A i \in Inputs : StageOf[i] = "multivariate" => Work[i] >= 2
ASSUME ArtifactAssumption == ArtifactCount \in [Inputs -> Nat \ {0}]
ASSUME PinnedAssumption   == Pinned \in [Inputs -> Snapshots]
ASSUME NullAssumption     == NoJob \notin Jobs /\ NoRun \notin RunIds
ASSUME SwitchAssumption   == SlowPhases \in BOOLEAN /\ LostWrites \in BOOLEAN
ASSUME BoundAssumption ==
    /\ RecoverLimit \in Nat
    /\ MaxAttempts \in Nat
    /\ MaxRetries \in Nat
    /\ MaxCalls \in Nat
    /\ MaxCrashes \in Nat
    /\ MaxEvents \in Nat

VARIABLES
    jobs,       \* analysis_jobs rows
    runs,       \* analysis_runs rows, each with the artifacts it owns
    ckpt,       \* multivariate_checkpoints rows, by input (dataset_digest)
    market,     \* the snapshot id the market store would return now
    proc,       \* process state
    lookedUp,   \* inputs whose HTTP call passed its lookup and will insert
    toSubmit,   \* jobs an HTTP call has persisted and will hand to the executor
    queue,      \* the executor's FIFO of submitted jobs
    exec,       \* the executor thread: program counter and locals
    calls,      \* start_*_job calls so far
    crashes,    \* process crashes so far
    events      \* closes and market refreshes so far

dbVars   == <<jobs, runs, ckpt>>
httpVars == <<lookedUp, toSubmit>>
bounds   == <<calls, crashes, events>>
vars     == <<jobs, runs, ckpt, market, proc, lookedUp, toSubmit, queue, exec, calls, crashes, events>>

NoRow   == [status |-> "absent", input |-> CHOOSE i \in Inputs : TRUE, run |-> NoRun,
            current |-> 0, total |-> NoTotal, attempt |-> 0, stale |-> FALSE]
Idle    == [pc |-> "idle", job |-> NoJob, attempt |-> 0, run |-> NoRun,
            step |-> 0, made |-> 0, used |-> {}]

\* Before a run row exists or outside run_*'s try block: an exception fails the job only.
OutsideTry == {"announce", "read", "size", "lookup", "insert", "fetch",
               "linkCheck", "linkWrite", "finishCheck", "finishWrite"}
\* Inside run_*'s try block: an exception fails the run first.
InsideTry  == {"load", "open", "compute", "report", "publish", "drop", "top",
               "settle", "final"}
Locations  == {"idle", "failRun", "giveUp", "done"} \cup OutsideTry \cup InsideTry

JobRows == [status : {"absent"} \cup Active \cup Terminal, input : Inputs,
            run : RunIds \cup {NoRun}, current : Nat, total : Int,
            attempt : 0 .. MaxAttempts, stale : BOOLEAN]
RunRows == [status : {"absent", "running"} \cup Terminal,
            artifacts : Seq(SUBSET Snapshots)]
Threads == [pc : Locations, job : Jobs \cup {NoJob}, attempt : 0 .. MaxAttempts,
            run : RunIds \cup {NoRun}, step : Nat, made : Nat, used : SUBSET Snapshots]

Init ==
    /\ jobs = [j \in Jobs |-> NoRow]
    /\ runs = [r \in RunIds |-> [status |-> "absent", artifacts |-> <<>>]]
    /\ ckpt = [i \in Inputs |-> [phase |-> 0, used |-> {}]]
    /\ market \in Snapshots
    /\ proc = [w \in Workers |-> "up"]
    /\ lookedUp = [w \in Workers |-> {}]
    /\ toSubmit = [w \in Workers |-> {}]
    /\ queue = [w \in Workers |-> <<>>]
    /\ exec = [w \in Workers |-> Idle]
    /\ calls = 0
    /\ crashes = 0
    /\ events = 0

-----------------------------------------------------------------------------
(***************************************************************************)
(* HTTP side: start_univariate_job, start_bivariate_job,                   *)
(* start_multivariate_job and _submit_analysis_job.                        *)
(***************************************************************************)
ActiveJobs(i)    == {j \in Jobs : jobs[j].input = i /\ jobs[j].status \in Active}
SucceededJobs(i) == {j \in Jobs : jobs[j].input = i /\ jobs[j].status = "succeeded"}

\* Bivariate and multivariate calls return a succeeded job of the same input.
StartJob(w, i) ==
    /\ proc[w] = "up"
    /\ lookedUp[w] = {} /\ toSubmit[w] = {}
    /\ calls < MaxCalls /\ calls' = calls + 1
    /\ StageOf[i] # "univariate" => SucceededJobs(i) = {}
    /\ lookedUp' = [lookedUp EXCEPT ![w] = {i}]
    /\ UNCHANGED <<dbVars, market, proc, toSubmit, queue, exec, crashes, events>>

\* Insert on conflict do nothing: the partial unique index admits one active job
\* per input; the call returns the row that is there.
CreateOrGetActiveJob(w, i, j) ==
    /\ i \in lookedUp[w]
    /\ \/ /\ ActiveJobs(i) = {}
          /\ jobs[j].status = "absent"
          /\ jobs' = [jobs EXCEPT ![j] = [NoRow EXCEPT !.status = "queued", !.input = i]]
       \/ j \in ActiveJobs(i) /\ UNCHANGED jobs
    /\ lookedUp' = [lookedUp EXCEPT ![w] = {}]
    /\ toSubmit' = [toSubmit EXCEPT ![w] = {j}]
    /\ UNCHANGED <<runs, ckpt, market, proc, queue, exec, bounds>>

Waiting(w) == {queue[w][k] : k \in DOMAIN queue[w]}
Futures(w) == Waiting(w) \cup {exec[w].job}

\* AnalysisJobExecutor.submit: ignored once closed or while the job has a future.
Submit(w, j) ==
    /\ j \in toSubmit[w]
    /\ toSubmit' = [toSubmit EXCEPT ![w] = {}]
    /\ queue' = IF proc[w] = "up" /\ j \notin Futures(w)
                THEN [queue EXCEPT ![w] = Append(@, j)]
                ELSE queue
    /\ UNCHANGED <<dbVars, market, proc, lookedUp, exec, bounds>>

-----------------------------------------------------------------------------
(***************************************************************************)
(* The executor thread.  At(w, pc) is where it stands, Goto moves it.      *)
(***************************************************************************)
At(w, pc)      == exec[w].pc = pc
Row(w)         == jobs[exec[w].job]
Input(w)       == Row(w).input
Stage(w)       == StageOf[Input(w)]
Goto(w, pc)    == exec' = [exec EXCEPT ![w].pc = pc]
ThreadOnly     == UNCHANGED <<market, proc, lookedUp, toSubmit, queue, bounds>>

\* _run catches: only the job remains to be failed, the locals are gone.
GiveUp(w) == exec' = [exec EXCEPT
    ![w] = [Idle EXCEPT !.pc = "giveUp", !.job = exec[w].job, !.attempt = exec[w].attempt]]

\* The thread takes the next work item; claim_job is its first statement.
Fault_ClaimIgnoresHeartbeat(j) == jobs[j].status \in Active

Claimable(j) ==
    \/ jobs[j].status = "queued"
    \/ jobs[j].status = "running" /\ jobs[j].stale

Fault_ClaimKeepsProgress(w) ==
    /\ At(w, "idle") /\ queue[w] # <<>>
    /\ LET j == Head(queue[w]) IN
       /\ Claimable(j)
       /\ jobs[j].attempt < MaxAttempts
       /\ jobs' = [jobs EXCEPT ![j].status = "running", ![j].attempt = @ + 1, ![j].stale = FALSE]
       /\ exec' = [exec EXCEPT ![w] = [Idle EXCEPT
              !.pc = IF StageOf[jobs[j].input] = "multivariate" THEN "read" ELSE "announce",
              !.job = j, !.attempt = jobs[j].attempt + 1]]
    /\ queue' = [queue EXCEPT ![w] = Tail(@)]
    /\ UNCHANGED <<runs, ckpt, market, proc, lookedUp, toSubmit, bounds>>

ClaimJob(w) ==
    /\ At(w, "idle") /\ queue[w] # <<>>
    /\ LET j == Head(queue[w]) IN
       /\ Claimable(j)
       /\ jobs[j].attempt < MaxAttempts
       /\ jobs' = [jobs EXCEPT ![j].status = "running", ![j].attempt = @ + 1,
                               ![j].current = 0, ![j].total = NoTotal, ![j].stale = FALSE]
       /\ exec' = [exec EXCEPT ![w] = [Idle EXCEPT
              !.pc = IF StageOf[jobs[j].input] = "multivariate" THEN "read" ELSE "announce",
              !.job = j, !.attempt = jobs[j].attempt + 1]]
    /\ queue' = [queue EXCEPT ![w] = Tail(@)]
    /\ UNCHANGED <<runs, ckpt, market, proc, lookedUp, toSubmit, bounds>>

\* No row matched: APP_STATE_CONFLICT, _run returns without touching the job.
ClaimConflict(w) ==
    /\ At(w, "idle") /\ queue[w] # <<>>
    /\ ~Claimable(Head(queue[w]))
    /\ exec' = [exec EXCEPT ![w] = [Idle EXCEPT !.pc = "done", !.job = Head(queue[w])]]
    /\ queue' = [queue EXCEPT ![w] = Tail(@)]
    /\ UNCHANGED <<dbVars, market, proc, lookedUp, toSubmit, bounds>>

\* update_job_progress: a running row, a progress that does not go back and a
\* total that is new or the same; every accepted write renews the heartbeat.
AcceptsProgress(row, current, total) ==
    /\ row.status = "running"
    /\ row.current <= current
    /\ row.total \in {NoTotal, total}

UpdateJobProgress(w, current, total, next) ==
    LET j == exec[w].job IN
    \/ /\ AcceptsProgress(jobs[j], current, total)
       /\ jobs' = [jobs EXCEPT ![j].current = current, ![j].total = total, ![j].stale = FALSE]
       /\ Goto(w, next)
    \/ /\ ~AcceptsProgress(jobs[j], current, total)
       /\ IF exec[w].pc \in InsideTry THEN Goto(w, "failRun") ELSE GiveUp(w)
       /\ UNCHANGED jobs

Fault_AnnounceCountsMembers(w) ==
    /\ At(w, "announce")
    /\ UpdateJobProgress(w, 0, IF Stage(w) = "univariate" THEN NoTotal ELSE Work[Input(w)] + 1,
                         "read")
    /\ UNCHANGED <<runs, ckpt>> /\ ThreadOnly

\* _execute_analysis_job: the first write, before the market is read.
Announce(w) ==
    /\ At(w, "announce")
    /\ UpdateJobProgress(w, 0, IF Stage(w) = "univariate" THEN NoTotal ELSE Work[Input(w)],
                         "read")
    /\ UNCHANGED <<runs, ckpt>> /\ ThreadOnly

\* _read_market names the run after the snapshot it reads;
\* _read_market_for_pinned_snapshot reads the same store but keeps the pinned name.
ReadMarket(w) ==
    /\ At(w, "read")
    /\ exec' = [exec EXCEPT
          ![w].pc = IF Stage(w) = "univariate" THEN "size" ELSE "lookup",
          ![w].used = {market},
          ![w].run = [input |-> Input(w), nonce |-> 0,
                      snap |-> IF Stage(w) = "multivariate" THEN Pinned[Input(w)] ELSE market]]
    /\ UNCHANGED dbVars /\ ThreadOnly

\* run_univariate publishes its total before it creates the run.
SizeUnivariate(w) ==
    /\ At(w, "size")
    /\ UpdateJobProgress(w, 0, Work[Input(w)], "lookup")
    /\ UNCHANGED <<runs, ckpt>> /\ ThreadOnly

\* create_analysis_run: look the logical hash up, insert when it is not there,
\* then fetch the row.
LookupRun(w) ==
    /\ At(w, "lookup")
    /\ Goto(w, IF runs[exec[w].run].status = "absent" THEN "insert" ELSE "fetch")
    /\ UNCHANGED dbVars /\ ThreadOnly

Fault_RunInsertedQueued(w) ==
    /\ At(w, "insert")
    /\ runs[exec[w].run].status = "absent"
    /\ runs' = [runs EXCEPT ![exec[w].run].status = "queued"]
    /\ Goto(w, "fetch")
    /\ UNCHANGED <<jobs, ckpt>> /\ ThreadOnly

InsertRun(w) ==
    /\ At(w, "insert")
    /\ \/ /\ runs[exec[w].run].status = "absent"
          /\ runs' = [runs EXCEPT ![exec[w].run].status = "running"]
          /\ Goto(w, "fetch")
       \/ /\ runs[exec[w].run].status # "absent"    \* unique violation
          /\ GiveUp(w)
          /\ UNCHANGED runs
    /\ UNCHANGED <<jobs, ckpt>> /\ ThreadOnly

FreshNonces(r) ==
    {n \in 1 .. MaxRetries :
        LET retry == [r EXCEPT !.nonce = n]
        IN  runs[retry].status = "absent" /\ \A v \in Workers : exec[v].run # retry}

Fault_FailedRunReused(w) ==
    /\ At(w, "fetch")
    /\ LET status == runs[exec[w].run].status IN
       \/ status = "running" /\ Goto(w, "load")
       \/ status \in Terminal /\ Goto(w, "linkCheck")
    /\ UNCHANGED dbVars /\ ThreadOnly

\* A succeeded run is returned, a failed one too except by run_multivariate, which
\* creates another under a retry nonce; a running one is computed.
FetchRun(w) ==
    /\ At(w, "fetch")
    /\ LET r == exec[w].run
           status == runs[r].status
           retried == status = "failed" /\ Stage(w) = "multivariate" /\ r.nonce = 0
       IN \/ /\ status = "running"
             /\ Goto(w, CASE Stage(w) = "univariate"   -> "compute"
                          [] Stage(w) = "bivariate"    -> "open"
                          [] Stage(w) = "multivariate" -> "load")
          \/ /\ retried
             /\ \E n \in FreshNonces(r) :
                    exec' = [exec EXCEPT ![w].pc = "lookup", ![w].run.nonce = n]
          \/ status \in Terminal /\ ~retried /\ Goto(w, "linkCheck")
    /\ UNCHANGED dbVars /\ ThreadOnly

\* _load_multivariate_checkpoint.  dataset_digest is the hash without the nonce.
LoadCheckpoint(w) ==
    /\ At(w, "load")
    /\ exec' = [exec EXCEPT ![w].pc = "open",
                            ![w].step = ckpt[Input(w)].phase,
                            ![w].used = @ \cup ckpt[Input(w)].used]
    /\ UNCHANGED dbVars /\ ThreadOnly

\* current = 0 with the total; a resumed computation then reports its phase.
OpenProgress(w) ==
    /\ At(w, "open")
    /\ UpdateJobProgress(w, 0, Work[Input(w)], IF exec[w].step > 0 THEN "report" ELSE "compute")
    /\ UNCHANGED <<runs, ckpt>> /\ ThreadOnly

\* A multivariate total counts the computing phases and two more:
\* artifact_persistence and complete.  Its phases 4 and 5 count as one here: they
\* are reported back to back after one checkpoint.
ComputeSteps(i) == IF StageOf[i] = "multivariate" THEN Work[i] - 2 ELSE Work[i]

\* A batch of members or pairs, or one phase; multivariate phases after the first
\* save a checkpoint (which never goes back) before they are reported.
ComputeStep(w) ==
    /\ At(w, "compute")
    /\ \E n \in exec[w].step + 1 .. ComputeSteps(Input(w)) :
          /\ Stage(w) = "multivariate" => n = exec[w].step + 1
          /\ exec' = [exec EXCEPT ![w].pc = "report", ![w].step = n]
          /\ ckpt' = IF Stage(w) = "multivariate" /\ n > 1 /\ ckpt[Input(w)].phase <= n
                     THEN [ckpt EXCEPT ![Input(w)] = [phase |-> n, used |-> exec[w].used]]
                     ELSE ckpt
    /\ UNCHANGED <<jobs, runs>> /\ ThreadOnly

ReportProgress(w) ==
    /\ At(w, "report")
    /\ UpdateJobProgress(w, exec[w].step, Work[Input(w)], "compute")
    /\ UNCHANGED <<runs, ckpt>> /\ ThreadOnly

FinishCompute(w) ==
    /\ At(w, "compute")
    /\ Stage(w) = "multivariate" => exec[w].step = ComputeSteps(Input(w))
    /\ Goto(w, "publish")
    /\ UNCHANGED dbVars /\ ThreadOnly

Fault_LastArtifactSkipped(w) ==
    /\ At(w, "publish")
    /\ LET r     == exec[w].run
           k     == exec[w].made + 1
           isNew == Len(runs[r].artifacts) < k
       IN /\ runs' = IF isNew
                     THEN [runs EXCEPT ![r].artifacts = Append(@, exec[w].used)] ELSE runs
          /\ exec' = [exec EXCEPT ![w].made = k,
                 ![w].pc = IF k + 1 < ArtifactCount[Input(w)] THEN "publish" ELSE "drop"]
    /\ UNCHANGED <<jobs, ckpt>> /\ ThreadOnly

\* One artifact a transaction, in order.  The same content is already published,
\* different content under the same run and type is a conflict.
PublishArtifact(w) ==
    /\ At(w, "publish")
    /\ LET r     == exec[w].run
           k     == exec[w].made + 1
           isNew == Len(runs[r].artifacts) < k
           clash == ~isNew /\ runs[r].artifacts[k] # exec[w].used
           next  == IF k < ArtifactCount[Input(w)] THEN "publish"
                    ELSE IF Stage(w) = "multivariate" THEN "drop" ELSE "top"
       IN \/ /\ ~clash
             /\ runs' = IF isNew
                        THEN [runs EXCEPT ![r].artifacts = Append(@, exec[w].used)]
                        ELSE runs
             /\ exec' = [exec EXCEPT ![w].pc = next, ![w].made = k]
          \/ clash /\ Goto(w, "failRun") /\ UNCHANGED runs
    /\ UNCHANGED <<jobs, ckpt>> /\ ThreadOnly

DeleteCheckpoint(w) ==
    /\ At(w, "drop")
    /\ ckpt' = [ckpt EXCEPT ![Input(w)] = [phase |-> 0, used |-> {}]]
    /\ Goto(w, "top")
    /\ UNCHANGED <<jobs, runs>> /\ ThreadOnly

Fault_LinkBeforeSettle(w) ==
    /\ At(w, "top")
    /\ UpdateJobProgress(w, IF Stage(w) = "multivariate" THEN Work[Input(w)] - 1
                                                         ELSE Work[Input(w)],
                         Work[Input(w)], "linkCheck")
    /\ UNCHANGED <<runs, ckpt>> /\ ThreadOnly

\* The last write before the run succeeds: the total, or artifact_persistence.
TopProgress(w) ==
    /\ At(w, "top")
    /\ UpdateJobProgress(w, IF Stage(w) = "multivariate" THEN Work[Input(w)] - 1
                                                         ELSE Work[Input(w)],
                         Work[Input(w)], "settle")
    /\ UNCHANGED <<runs, ckpt>> /\ ThreadOnly

\* transition_analysis_run; the trigger rejects any update of a terminal run.
SettleRun(w) ==
    /\ At(w, "settle")
    /\ \/ /\ runs[exec[w].run].status = "running"
          /\ runs' = [runs EXCEPT ![exec[w].run].status = "succeeded"]
          /\ Goto(w, IF Stage(w) = "multivariate" THEN "final" ELSE "linkCheck")
       \/ /\ runs[exec[w].run].status # "running"
          /\ Goto(w, "failRun")
          /\ UNCHANGED runs
    /\ UNCHANGED <<jobs, ckpt>> /\ ThreadOnly

\* run_multivariate reports `complete` after the run has succeeded, in its try block.
FinalProgress(w) ==
    /\ At(w, "final")
    /\ UpdateJobProgress(w, Work[Input(w)], Work[Input(w)], "linkCheck")
    /\ UNCHANGED <<runs, ckpt>> /\ ThreadOnly

Fault_FailRunOverwrites(w) ==
    /\ At(w, "failRun")
    /\ runs' = [runs EXCEPT ![exec[w].run].status = "failed"]
    /\ GiveUp(w)
    /\ UNCHANGED <<jobs, ckpt>> /\ ThreadOnly

\* _fail_run swallows the trigger's refusal.
FailRun(w) ==
    /\ At(w, "failRun")
    /\ runs' = IF runs[exec[w].run].status = "running"
               THEN [runs EXCEPT ![exec[w].run].status = "failed"] ELSE runs
    /\ GiveUp(w)
    /\ UNCHANGED <<jobs, ckpt>> /\ ThreadOnly

\* link_job_run reads the job, then updates it; the update checks the status only.
LinkCheck(w) ==
    /\ At(w, "linkCheck")
    /\ IF Row(w).status \in Active /\ Row(w).run \in {NoRun, exec[w].run}
       THEN Goto(w, "linkWrite") ELSE GiveUp(w)
    /\ UNCHANGED dbVars /\ ThreadOnly

LinkWrite(w) ==
    /\ At(w, "linkWrite")
    /\ \/ /\ Row(w).status \in Active
          /\ jobs' = [jobs EXCEPT ![exec[w].job].run = exec[w].run]
          /\ Goto(w, "finishCheck")
       \/ Row(w).status \notin Active /\ GiveUp(w) /\ UNCHANGED jobs
    /\ UNCHANGED <<runs, ckpt>> /\ ThreadOnly

Fault_FinishIgnoresRunStatus(w) ==
    /\ At(w, "finishCheck")
    /\ IF Row(w).status \in Active /\ Row(w).run # NoRun
       THEN Goto(w, "finishWrite") ELSE GiveUp(w)
    /\ UNCHANGED dbVars /\ ThreadOnly

\* complete_job(succeeded) reads the job and its run, then updates the job; the
\* update checks the status only.
FinishCheck(w) ==
    /\ At(w, "finishCheck")
    /\ IF /\ Row(w).status \in Active
          /\ Row(w).run # NoRun /\ runs[Row(w).run].status = "succeeded"
       THEN Goto(w, "finishWrite") ELSE GiveUp(w)
    /\ UNCHANGED dbVars /\ ThreadOnly

FinishWrite(w) ==
    /\ At(w, "finishWrite")
    /\ \/ /\ Row(w).status \in Active
          /\ jobs' = [jobs EXCEPT ![exec[w].job].status = "succeeded"]
          /\ exec' = [exec EXCEPT ![w] = [Idle EXCEPT !.pc = "done", !.job = exec[w].job]]
       \/ Row(w).status \notin Active /\ GiveUp(w) /\ UNCHANGED jobs
    /\ UNCHANGED <<runs, ckpt>> /\ ThreadOnly

Fault_FailureNotRecorded(w) ==
    /\ At(w, "giveUp")
    /\ exec' = [exec EXCEPT ![w] = [Idle EXCEPT !.pc = "done", !.job = exec[w].job]]
    /\ UNCHANGED dbVars /\ ThreadOnly

\* _complete_failed: a refusal is swallowed.
CompleteFailed(w) ==
    /\ At(w, "giveUp")
    /\ jobs' = IF Row(w).status \in Active
               THEN [jobs EXCEPT ![exec[w].job].status = "failed"] ELSE jobs
    /\ exec' = [exec EXCEPT ![w] = [Idle EXCEPT !.pc = "done", !.job = exec[w].job]]
    /\ UNCHANGED <<runs, ckpt>> /\ ThreadOnly

\* The database refuses that last write as well: the row stays as it is.
LoseCompletion(w) ==
    /\ At(w, "giveUp")
    /\ LostWrites
    /\ exec' = [exec EXCEPT ![w] = [Idle EXCEPT !.pc = "done", !.job = exec[w].job]]
    /\ UNCHANGED dbVars /\ ThreadOnly

\* The future's done callback drops the job from _futures.
Forget(w) ==
    /\ At(w, "done")
    /\ exec' = [exec EXCEPT ![w] = Idle]
    /\ UNCHANGED dbVars /\ ThreadOnly

\* A typed compute, market or persistence error at any call.
RaiseError(w) ==
    /\ \/ exec[w].pc \in InsideTry /\ Goto(w, "failRun")
       \/ exec[w].pc \in OutsideTry /\ GiveUp(w)
    /\ UNCHANGED dbVars /\ ThreadOnly

-----------------------------------------------------------------------------
(***************************************************************************)
(* Processes, time and the market.                                         *)
(***************************************************************************)
\* AnalysisJobExecutor.close: no new work, wait for what was submitted.
BeginClose(w) ==
    /\ proc[w] = "up" /\ events < MaxEvents
    /\ proc' = [proc EXCEPT ![w] = "closing"]
    /\ events' = events + 1
    /\ UNCHANGED <<dbVars, market, httpVars, queue, exec, calls, crashes>>

Exit(w) ==
    /\ proc[w] = "closing" /\ queue[w] = <<>> /\ At(w, "idle")
    /\ proc' = [proc EXCEPT ![w] = "down"]
    /\ lookedUp' = [lookedUp EXCEPT ![w] = {}]
    /\ toSubmit' = [toSubmit EXCEPT ![w] = {}]
    /\ UNCHANGED <<dbVars, market, queue, exec, bounds>>

Crash(w) ==
    /\ proc[w] # "down" /\ crashes < MaxCrashes
    /\ proc' = [proc EXCEPT ![w] = "down"]
    /\ lookedUp' = [lookedUp EXCEPT ![w] = {}]
    /\ toSubmit' = [toSubmit EXCEPT ![w] = {}]
    /\ queue' = [queue EXCEPT ![w] = <<>>]
    /\ exec' = [exec EXCEPT ![w] = Idle]
    /\ crashes' = crashes + 1
    /\ UNCHANGED <<dbVars, market, calls, events>>

\* The rows of one list_analysis_jobs call; the order among them (created_at) is free.
Listings(status) ==
    LET rows == {j \in Jobs : jobs[j].status = status}
        size == IF Cardinality(rows) < RecoverLimit THEN Cardinality(rows) ELSE RecoverLimit
    IN  {s \in [1 .. size -> rows] : \A a, b \in 1 .. size : s[a] = s[b] => a = b}

Fault_RecoverOnlyRunning(w) ==
    /\ proc[w] = "down"
    /\ proc' = [proc EXCEPT ![w] = "up"]
    /\ \E running \in Listings("running") : queue' = [queue EXCEPT ![w] = running]
    /\ UNCHANGED <<dbVars, market, httpVars, exec, bounds>>

\* Process start: recover submits every queued, then every running job, once.
Restart(w) ==
    /\ proc[w] = "down"
    /\ proc' = [proc EXCEPT ![w] = "up"]
    /\ \E queued \in Listings("queued"), running \in Listings("running") :
          queue' = [queue EXCEPT ![w] = queued \o running]
    /\ UNCHANGED <<dbVars, market, httpVars, exec, bounds>>

Executing(w, j) == exec[w].job = j /\ exec[w].pc \notin {"idle", "done"}

Fault_PhaseOutlastsHeartbeat(j) ==
    /\ jobs[j].status = "running" /\ ~jobs[j].stale
    /\ jobs' = [jobs EXCEPT ![j].stale = TRUE]
    /\ UNCHANGED <<runs, ckpt, market, proc, httpVars, queue, exec, bounds>>

\* Five minutes pass without a write.  Unless SlowPhases, a live executor's calls
\* and phases each take less than that.
HeartbeatExpires(j) ==
    /\ jobs[j].status = "running" /\ ~jobs[j].stale
    /\ SlowPhases \/ \A w \in Workers : ~Executing(w, j)
    /\ jobs' = [jobs EXCEPT ![j].stale = TRUE]
    /\ UNCHANGED <<runs, ckpt, market, proc, httpVars, queue, exec, bounds>>

\* portfell-market-refresh publishes another snapshot.
MarketRefresh ==
    /\ events < MaxEvents
    /\ market' \in Snapshots \ {market}
    /\ events' = events + 1
    /\ UNCHANGED <<dbVars, proc, httpVars, queue, exec, calls, crashes>>

-----------------------------------------------------------------------------
HttpStep(w) ==
    \/ \E i \in Inputs, j \in Jobs : CreateOrGetActiveJob(w, i, j)
    \/ \E j \in Jobs : Submit(w, j)

RunStep(w) ==
    \/ Announce(w) \/ ReadMarket(w) \/ SizeUnivariate(w)
    \/ LookupRun(w) \/ InsertRun(w) \/ FetchRun(w) \/ LoadCheckpoint(w)
    \/ OpenProgress(w) \/ ComputeStep(w) \/ ReportProgress(w) \/ FinishCompute(w)
    \/ PublishArtifact(w) \/ DeleteCheckpoint(w) \/ TopProgress(w) \/ SettleRun(w)
    \/ FinalProgress(w) \/ FailRun(w)

ThreadStep(w) ==
    \/ ClaimJob(w) \/ ClaimConflict(w) \/ RunStep(w)
    \/ LinkCheck(w) \/ LinkWrite(w) \/ FinishCheck(w) \/ FinishWrite(w)
    \/ CompleteFailed(w) \/ Forget(w)

ProcessStep(w) ==
    \/ \E i \in Inputs : StartJob(w, i)
    \/ LoseCompletion(w) \/ RaiseError(w)
    \/ BeginClose(w) \/ Exit(w) \/ Crash(w) \/ Restart(w)

Next ==
    \/ \E w \in Workers : HttpStep(w) \/ ThreadStep(w) \/ ProcessStep(w)
    \/ \E j \in Jobs : HeartbeatExpires(j)
    \/ MarketRefresh

Spec == Init /\ [][Next]_vars

\* A thread that has work runs it, a request is carried through, a closing process
\* exits, a dead one is restarted and time passes.  Nothing obliges a client to
\* call, a process to close or crash, or the market to change.
Fairness ==
    /\ \A w \in Workers : /\ WF_vars(ThreadStep(w))
                          /\ WF_vars(HttpStep(w))
                          /\ WF_vars(Exit(w))
                          /\ WF_vars(Restart(w))
    /\ \A j \in Jobs : WF_vars(HeartbeatExpires(j))

FairSpec == Spec /\ Fairness

-----------------------------------------------------------------------------
(***************************************************************************)
(* Properties.                                                             *)
(***************************************************************************)
\* Every row, thread local and counter has the type the schema and the code give it.
TypeOK ==
    /\ jobs \in [Jobs -> JobRows]
    /\ runs \in [RunIds -> RunRows]
    /\ ckpt \in [Inputs -> [phase : Nat, used : SUBSET Snapshots]]
    /\ market \in Snapshots
    /\ proc \in [Workers -> {"up", "closing", "down"}]
    /\ lookedUp \in [Workers -> SUBSET Inputs]
    /\ toSubmit \in [Workers -> SUBSET Jobs]
    /\ queue \in [Workers -> Seq(Jobs)]
    /\ exec \in [Workers -> Threads]
    /\ calls \in 0 .. MaxCalls
    /\ crashes \in 0 .. MaxCrashes
    /\ events \in 0 .. MaxEvents

\* "Durable PostgreSQL job claims prevent duplicate work" (hosted_runtime.py): no
\* two processes execute the same job.
OneExecutor ==
    \A v, w \in Workers : \A j \in Jobs :
        Executing(v, j) /\ Executing(w, j) => v = w

\* A thread executing a job holds its latest claim and the row is still running, so
\* nothing it writes lands in another attempt (claim_job, update_job_progress).
ExecutorOwnsAttempt ==
    \A w \in Workers : \A j \in Jobs :
        Executing(w, j) => /\ jobs[j].status = "running"
                           /\ jobs[j].attempt = exec[w].attempt

\* A job that reports success names a succeeded run of its own input: what
\* complete_job checks, although link and run may change between its check and its
\* update.
SucceededJobHasSucceededRun ==
    \A j \in Jobs : jobs[j].status = "succeeded" =>
        /\ jobs[j].run \in RunIds
        /\ runs[jobs[j].run].status = "succeeded"
        /\ jobs[j].run.input = jobs[j].input

\* A run that reports success has published every artifact readers of a succeeded
\* run ask for, through crashes, reclaims and resumed attempts (run_*).
SucceededRunIsComplete ==
    \A r \in RunIds : runs[r].status = "succeeded" =>
        Len(runs[r].artifacts) = ArtifactCount[r.input]

\* The progress the thread will write next is one update_job_progress accepts: a job
\* never fails because of its own progress, also when it resumes a checkpoint.
OwnProgressIsAccepted ==
    \A w \in Workers :
        LET total == Work[Input(w)] IN
        /\ At(w, "announce") => AcceptsProgress(Row(w), 0,
                IF Stage(w) = "univariate" THEN NoTotal ELSE total)
        /\ exec[w].pc \in {"size", "open"} => AcceptsProgress(Row(w), 0, total)
        /\ At(w, "report") => AcceptsProgress(Row(w), exec[w].step, total)
        /\ At(w, "top")    => AcceptsProgress(Row(w),
                IF Stage(w) = "multivariate" THEN total - 1 ELSE total, total)
        /\ At(w, "final")  => AcceptsProgress(Row(w), total, total)

\* A multivariate job never concludes from a run that an earlier job failed:
\* "terminal unsuccessful runs must be retryable" (run_multivariate). The other
\* stages do not keep this.
RetryComputes ==
    \A w \in Workers :
        At(w, "linkCheck") /\ Stage(w) = "multivariate" => runs[exec[w].run].status = "succeeded"

\* The evidence of an ended run is final: no process changes its status or adds to
\* its artifacts, whatever attempt it still believes to be executing.
RunEvidenceIsFinal == [][
    \A r \in RunIds : runs[r].status \in Terminal => runs'[r] = runs[r]]_vars

\* Without a crash every persisted job is eventually succeeded or failed, through
\* errors, refused claims, a closing process and its restart.
JobsFinish ==
    \A j \in Jobs : jobs[j].status \in Active ~>
        jobs[j].status \in Terminal \/ crashes > 0

\* A job still queued when its process dies is taken up after the restart
\* (recover lists every queued job).
QueuedJobsAreTaken ==
    \A j \in Jobs : jobs[j].status = "queued" ~> jobs[j].status # "queued"

\* The job and run tables, driven by these processes, keep the promises of JobContract.
Contract == INSTANCE JobContract WITH
    job <- [j \in Jobs |-> [status |-> jobs[j].status, input |-> jobs[j].input,
                            attempt |-> jobs[j].attempt, run |-> jobs[j].run]],
    run <- [r \in RunIds |-> runs[r].status],
    RunInput <- [r \in RunIds |-> r.input]

ImplementsContract == Contract!Spec

-----------------------------------------------------------------------------
(* What docs and comments say and the code does not keep.                   *)

\* Everything a run publishes was computed from the snapshot its identity names
\* (create_analysis_run's input_snapshot_id).
ArtifactLineage ==
    \A r \in RunIds : \A k \in DOMAIN runs[r].artifacts :
        runs[r].artifacts[k] = {r.snap}

\* Success reaches the exact total the stage published.
SuccessReachesTotal ==
    \A j \in Jobs : jobs[j].status = "succeeded" =>
        jobs[j].current = Work[jobs[j].input] /\ jobs[j].total = Work[jobs[j].input]

\* A job of a process that crashed ends as well: a restart within five minutes
\* finds its heartbeat young, drops it, and nothing scans again.
EveryJobFinishes ==
    \A j \in Jobs : jobs[j].status \in Active ~> jobs[j].status \in Terminal

=============================================================================
