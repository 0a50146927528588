---------------------------- MODULE JobContract -----------------------------
(***************************************************************************)
(* What the durable job store promises its clients, whatever processes run *)
(* behind it: one active job for a logical input, attempts that only move  *)
(* forward, a job that keeps the run it names, success only through a      *)
(* succeeded run of the same input, and terminal jobs and runs that stay   *)
(* as they are.  The lifecycle is the one the guards and triggers of       *)
(* app_state/repository.py, app_state/schema.py and migrations/v002 spell  *)
(* out; AnalysisJobs implements it.                                        *)
(***************************************************************************)
EXTENDS Naturals

CONSTANTS Jobs, Inputs, RunIds, RunInput, NoRun

VARIABLES
    job,    \* [status, input, attempt, run] of each job
    run     \* status of each run

vars == <<job, run>>

Null == CHOOSE i \in Inputs : TRUE

Init ==
    /\ job = [j \in Jobs |-> [status |-> "absent", input |-> Null, attempt |-> 0, run |-> NoRun]]
    /\ run = [r \in RunIds |-> "absent"]

Active(j) == job[j].status \in {"queued", "running"}

\* analysis_jobs_active_logical_idx: one active job for an input.
Request(j, i) ==
    /\ job[j].status = "absent"
    /\ \A k \in Jobs : Active(k) => job[k].input # i
    /\ job' = [job EXCEPT ![j].status = "queued", ![j].input = i]
    /\ UNCHANGED run

\* A first attempt, or the reclaim of a stale one.
Attempt(j) ==
    /\ Active(j)
    /\ job' = [job EXCEPT ![j].status = "running", ![j].attempt = @ + 1]
    /\ UNCHANGED run

\* A run exists from its first attempt on and ends at most once.
BeginRun(r) ==
    /\ run[r] = "absent"
    /\ run' = [run EXCEPT ![r] = "running"]
    /\ UNCHANGED job

EndRun(r) ==
    /\ run[r] = "running"
    /\ \E status \in {"succeeded", "failed"} : run' = [run EXCEPT ![r] = status]
    /\ UNCHANGED job

\* A running job that names no run yet names an ended one of its input.
NameRun(j, r) ==
    /\ job[j].status = "running" /\ job[j].run = NoRun
    /\ RunInput[r] = job[j].input /\ run[r] \in {"succeeded", "failed"}
    /\ job' = [job EXCEPT ![j].run = r]
    /\ UNCHANGED run

Succeed(j) ==
    /\ job[j].status = "running"
    /\ job[j].run # NoRun /\ run[job[j].run] = "succeeded"
    /\ job' = [job EXCEPT ![j].status = "succeeded"]
    /\ UNCHANGED run

Fail(j) ==
    /\ job[j].status = "running"
    /\ job' = [job EXCEPT ![j].status = "failed"]
    /\ UNCHANGED run

Next ==
    \/ \E j \in Jobs : \/ \E i \in Inputs : Request(j, i)
                       \/ Attempt(j) \/ Succeed(j) \/ Fail(j)
                       \/ \E r \in RunIds : NameRun(j, r)
    \/ \E r \in RunIds : BeginRun(r) \/ EndRun(r)

Spec == Init /\ [][Next]_vars
=============================================================================
