------------------------ MODULE AnalysisJobs_proofs -------------------------
(***************************************************************************)
(* Theorems about AnalysisJobs for every number of processes, jobs, inputs *)
(* and snapshots and every value of its bounds.                            *)
(***************************************************************************)
EXTENDS AnalysisJobs, FiniteSetTheorems, SequenceTheorems, TLAPS

\* Locations at which the thread holds the identity of the run it works on.
HasRun == {"size", "lookup", "insert", "fetch", "failRun", "linkCheck", "linkWrite",
           "finishCheck", "finishWrite"} \cup InsideTry

\* A thread with work has a job, the job is a row, and the run is one of its input.
Fits(t) ==
    /\ t.pc # "idle" => t.job \in Jobs
    /\ t.pc \notin {"idle", "done"} => jobs[t.job].status # "absent"
    /\ t.pc \in HasRun => t.run \in RunIds /\ t.run.input = jobs[t.job].input

ThreadOK == \A w \in Workers : Fits(exec[w])

-----------------------------------------------------------------------------
(***************************************************************************)
(* Updates of one row or one thread stay in their sets.                    *)
(***************************************************************************)
\* The row of a job that does not exist.
LEMMA NoRowType == NoRow \in JobRows
BY StageAssumption, BoundAssumption DEF NoRow, JobRows, NoTotal

\* The thread without work.
LEMMA IdleType == Idle \in Threads
BY BoundAssumption DEF Idle, Threads, Locations

\* Moving the program counter keeps the rest of the thread.
LEMMA GotoType ==
    ASSUME exec \in [Workers -> Threads], NEW w \in Workers, NEW p \in Locations,
           Goto(w, p)
    PROVE  exec' \in [Workers -> Threads]
<1>1. [exec[w] EXCEPT !.pc = p] \in Threads
    BY DEF Threads
<1>2. QED BY <1>1 DEF Goto

\* A thread's record may be replaced by another.
LEMMA ThreadType ==
    ASSUME exec \in [Workers -> Threads], NEW w \in Workers, NEW t \in Threads,
           exec' = [exec EXCEPT ![w] = t]
    PROVE  exec' \in [Workers -> Threads]
OBVIOUS

\* Giving up keeps the job and its attempt only.
LEMMA GiveUpType ==
    ASSUME exec \in [Workers -> Threads], NEW w \in Workers, GiveUp(w)
    PROVE  exec' \in [Workers -> Threads]
BY BoundAssumption DEF GiveUp, Threads, Idle, Locations

\* A thread that is done keeps its job until _forget.
LEMMA DoneType ==
    ASSUME exec \in [Workers -> Threads], NEW w \in Workers, NEW j \in Jobs \cup {NoJob},
           exec' = [exec EXCEPT ![w] = [Idle EXCEPT !.pc = "done", !.job = j]]
    PROVE  exec' \in [Workers -> Threads]
<1>1. [Idle EXCEPT !.pc = "done", !.job = j] \in Threads
    BY IdleType DEF Threads, Locations
<1>2. QED BY <1>1

\* complete_job and the queue change a status.
LEMMA RowStatusType ==
    ASSUME jobs \in [Jobs -> JobRows], NEW j \in Jobs,
           NEW s \in {"absent"} \cup Active \cup Terminal,
           jobs' = [jobs EXCEPT ![j].status = s]
    PROVE  jobs' \in [Jobs -> JobRows]
BY DEF JobRows

\* transition_analysis_run changes a status.
LEMMA RunStatusType ==
    ASSUME runs \in [RunIds -> RunRows], NEW r \in RunIds,
           NEW s \in {"absent", "running"} \cup Terminal,
           runs' = [runs EXCEPT ![r].status = s]
    PROVE  runs' \in [RunIds -> RunRows]
BY DEF RunRows

\* A progress write, accepted or refused.
LEMMA ProgressType ==
    ASSUME jobs \in [Jobs -> JobRows], exec \in [Workers -> Threads],
           NEW w \in Workers, exec[w].job \in Jobs,
           NEW c \in Nat, NEW t \in Int, NEW p \in Locations,
           UpdateJobProgress(w, c, t, p)
    PROVE  jobs' \in [Jobs -> JobRows] /\ exec' \in [Workers -> Threads]
<1>1. CASE /\ jobs' = [jobs EXCEPT ![exec[w].job].current = c,
                                  ![exec[w].job].total = t, ![exec[w].job].stale = FALSE]
           /\ Goto(w, p)
    <2>1. jobs' \in [Jobs -> JobRows]
        BY <1>1 DEF JobRows
    <2>2. QED BY <1>1, <2>1, GotoType
<1>2. CASE /\ UNCHANGED jobs
           /\ Goto(w, "failRun") \/ GiveUp(w)
    <2>1. "failRun" \in Locations BY DEF Locations
    <2>2. QED BY <1>2, <2>1, GotoType, GiveUpType
<1>3. QED BY <1>1, <1>2 DEF UpdateJobProgress

-----------------------------------------------------------------------------
(***************************************************************************)
(* Type correctness.                                                       *)
(***************************************************************************)
TypeInv == TypeOK /\ ThreadOK

\* No row, thread or counter is out of type at the start.
LEMMA InitType == Init => TypeInv
<1> SUFFICES ASSUME Init PROVE TypeInv OBVIOUS
<1>1. NoRow \in JobRows
    BY NoRowType
<1>2. Idle \in Threads
    BY IdleType
<1>3. [status |-> "absent", artifacts |-> <<>>] \in RunRows
    BY DEF RunRows
<1>4. TypeOK
    BY <1>1, <1>2, <1>3, BoundAssumption DEF Init, TypeOK
<1>5. ThreadOK
    <2>1. \A w \in Workers : exec[w].pc = "idle"
        BY DEF Init, Idle
    <2>2. QED BY <2>1 DEF ThreadOK, Fits, HasRun, InsideTry
<1>6. QED BY <1>4, <1>5 DEF TypeInv

\* The HTTP side and the processes.
LEMMA EnvironmentType ==
    ASSUME TypeInv, NEW w \in Workers,
           \/ \E i \in Inputs : StartJob(w, i)
           \/ HttpStep(w)
           \/ BeginClose(w) \/ Exit(w) \/ Crash(w) \/ Restart(w)
    PROVE  TypeOK'
<1> USE DEF TypeInv, dbVars, httpVars, bounds
<1>1. ASSUME NEW i \in Inputs, StartJob(w, i) PROVE TypeOK'
    BY <1>1, BoundAssumption DEF StartJob, TypeOK
<1>2. ASSUME NEW i \in Inputs, NEW j \in Jobs, CreateOrGetActiveJob(w, i, j) PROVE TypeOK'
    <2>1. [NoRow EXCEPT !.status = "queued", !.input = i] \in JobRows
        BY NoRowType DEF JobRows, Active
    <2>2. jobs' \in [Jobs -> JobRows]
        <3>1. CASE jobs' = [jobs EXCEPT ![j] = [NoRow EXCEPT !.status = "queued", !.input = i]]
            BY <3>1, <2>1 DEF TypeOK
        <3>2. CASE UNCHANGED jobs
            BY <3>2 DEF TypeOK
        <3>3. QED BY <1>2, <3>1, <3>2 DEF CreateOrGetActiveJob
    <2>3. QED BY <1>2, <2>2 DEF CreateOrGetActiveJob, TypeOK
<1>3. ASSUME NEW j \in Jobs, Submit(w, j) PROVE TypeOK'
    <2>1. queue' \in [Workers -> Seq(Jobs)]
        BY <1>3 DEF Submit, TypeOK
    <2>2. QED BY <1>3, <2>1 DEF Submit, TypeOK
<1>4. CASE BeginClose(w)
    BY <1>4, BoundAssumption DEF BeginClose, TypeOK
<1>5. CASE Exit(w)
    BY <1>5 DEF Exit, TypeOK
<1>6. CASE Crash(w)
    BY <1>6, IdleType, BoundAssumption DEF Crash, TypeOK
<1>7. CASE Restart(w)
    <2>1. PICK q \in Listings("queued"), s \in Listings("running") :
              queue' = [queue EXCEPT ![w] = q \o s]
        BY <1>7 DEF Restart
    <2>2. \A status \in Active : \A x \in Listings(status) : x \in Seq(Jobs)
        <3> SUFFICES ASSUME NEW status \in Active, NEW x \in Listings(status)
                     PROVE  x \in Seq(Jobs)
            OBVIOUS
        <3> DEFINE rows == {j \in Jobs : jobs[j].status = status}
                   size == IF Cardinality(rows) < RecoverLimit
                           THEN Cardinality(rows) ELSE RecoverLimit
        <3>1. x \in [1 .. size -> rows]
            BY DEF Listings
        <3>2. size \in Nat
            <4>1. IsFiniteSet(rows)
                BY JobsAssumption, FS_Subset
            <4>2. QED BY <4>1, FS_CardinalityType, BoundAssumption
        <3>3. x \in [1 .. size -> Jobs]
            BY <3>1
        <3> HIDE DEF size
        <3>4. QED BY <3>2, <3>3, SeqDef
    <2>3. queue' \in [Workers -> Seq(Jobs)]
        BY <2>1, <2>2 DEF TypeOK, Active
    <2>4. QED BY <1>7, <2>3 DEF Restart, TypeOK
<1>8. QED BY <1>1, <1>2, <1>3, <1>4, <1>5, <1>6, <1>7 DEF HttpStep

\* Time and the market.
LEMMA ClockType ==
    ASSUME TypeInv, (\E j \in Jobs : HeartbeatExpires(j)) \/ MarketRefresh
    PROVE  TypeOK'
<1> USE DEF TypeInv, dbVars, httpVars, bounds
<1>1. ASSUME NEW j \in Jobs, HeartbeatExpires(j) PROVE TypeOK'
    <2>1. jobs' \in [Jobs -> JobRows]
        <3>1. jobs \in [Jobs -> JobRows] BY DEF TypeOK
        <3>2. [jobs[j] EXCEPT !.stale = TRUE] \in JobRows
            BY ONLY <3>1, j \in Jobs DEF JobRows
        <3>3. jobs' = [jobs EXCEPT ![j].stale = TRUE] BY <1>1 DEF HeartbeatExpires
        <3>4. QED BY ONLY <3>1, <3>2, <3>3
    <2>2. QED BY <1>1, <2>1 DEF HeartbeatExpires, TypeOK
<1>2. CASE MarketRefresh
    BY <1>2, BoundAssumption DEF MarketRefresh, TypeOK
<1>3. QED BY <1>1, <1>2

\* The executor thread's actions that write job progress.
LEMMA ProgressStepType ==
    ASSUME TypeInv, NEW w \in Workers,
           Announce(w) \/ SizeUnivariate(w) \/ OpenProgress(w) \/ ReportProgress(w)
           \/ TopProgress(w) \/ FinalProgress(w)
    PROVE  TypeOK'
<1> USE DEF TypeInv, ThreadOnly, bounds, At
<1>1. exec[w].pc # "idle" => /\ exec[w].job \in Jobs
                             /\ Input(w) \in Inputs
                             /\ Work[Input(w)] \in Nat
                             /\ Stage(w) = "multivariate" => Work[Input(w)] - 1 \in Nat
    BY WorkAssumption DEF TypeOK, ThreadOK, Fits, JobRows, Input, Row, Stage
<1>2. exec[w].step \in Nat
    BY DEF TypeOK, Threads
<1>3. {"read", "lookup", "report", "compute", "settle", "linkCheck"} \subseteq Locations
    BY DEF Locations, OutsideTry, InsideTry
<1>4. NoTotal \in Int /\ \A n \in Nat : n \in Int
    BY DEF NoTotal
<1>5. CASE Announce(w)
    <2>1. jobs' \in [Jobs -> JobRows] /\ exec' \in [Workers -> Threads]
        BY <1>1, <1>3, <1>4, <1>5, ProgressType DEF Announce, TypeOK
    <2>2. QED BY <1>5, <2>1 DEF Announce, TypeOK
<1>6. CASE SizeUnivariate(w)
    <2>1. jobs' \in [Jobs -> JobRows] /\ exec' \in [Workers -> Threads]
        BY <1>1, <1>3, <1>4, <1>6, ProgressType DEF SizeUnivariate, TypeOK
    <2>2. QED BY <1>6, <2>1 DEF SizeUnivariate, TypeOK
<1>7. CASE OpenProgress(w)
    <2>1. jobs' \in [Jobs -> JobRows] /\ exec' \in [Workers -> Threads]
        BY <1>1, <1>3, <1>4, <1>7, ProgressType DEF OpenProgress, TypeOK
    <2>2. QED BY <1>7, <2>1 DEF OpenProgress, TypeOK
<1>8. CASE ReportProgress(w)
    <2>1. jobs' \in [Jobs -> JobRows] /\ exec' \in [Workers -> Threads]
        BY <1>1, <1>2, <1>3, <1>4, <1>8, ProgressType DEF ReportProgress, TypeOK
    <2>2. QED BY <1>8, <2>1 DEF ReportProgress, TypeOK
<1>9. CASE TopProgress(w)
    <2>1. jobs' \in [Jobs -> JobRows] /\ exec' \in [Workers -> Threads]
        BY <1>1, <1>3, <1>4, <1>9, ProgressType DEF TopProgress, TypeOK
    <2>2. QED BY <1>9, <2>1 DEF TopProgress, TypeOK
<1>10. CASE FinalProgress(w)
    <2>1. jobs' \in [Jobs -> JobRows] /\ exec' \in [Workers -> Threads]
        BY <1>1, <1>3, <1>4, <1>10, ProgressType DEF FinalProgress, TypeOK
    <2>2. QED BY <1>10, <2>1 DEF FinalProgress, TypeOK
<1>11. QED BY <1>5, <1>6, <1>7, <1>8, <1>9, <1>10

\* The executor thread's actions on runs, checkpoints and artifacts.
LEMMA RunStepType ==
    ASSUME TypeInv, NEW w \in Workers,
           ReadMarket(w) \/ LookupRun(w) \/ InsertRun(w) \/ FetchRun(w)
           \/ LoadCheckpoint(w) \/ ComputeStep(w) \/ FinishCompute(w)
           \/ PublishArtifact(w) \/ DeleteCheckpoint(w) \/ SettleRun(w) \/ FailRun(w)
    PROVE  TypeOK'
<1> USE DEF TypeInv, dbVars, ThreadOnly, bounds, At
<1>1. exec[w].pc # "idle" => /\ exec[w].job \in Jobs
                             /\ Input(w) \in Inputs
    BY DEF TypeOK, ThreadOK, Fits, JobRows, Input, Row
<1>2. exec[w] \in Threads /\ exec[w].step \in Nat /\ exec[w].used \in SUBSET Snapshots
    BY DEF TypeOK, Threads
<1>3. exec[w].pc \in HasRun => exec[w].run \in RunIds
    BY DEF ThreadOK, Fits
<1>4. CASE ReadMarket(w)
    <2> DEFINE pc == IF Stage(w) = "univariate" THEN "size" ELSE "lookup"
               r  == [input |-> Input(w), nonce |-> 0,
                      snap |-> IF Stage(w) = "multivariate" THEN Pinned[Input(w)] ELSE market]
    <2>1. pc \in Locations
        BY DEF Locations, OutsideTry
    <2>2. r \in RunIds
        BY <1>1, <1>4, PinnedAssumption, BoundAssumption DEF ReadMarket, TypeOK, RunIds
    <2>3. {market} \in SUBSET Snapshots
        BY DEF TypeOK
    <2> HIDE DEF pc, r
    <2>4. [exec[w] EXCEPT !.pc = pc, !.used = {market}, !.run = r] \in Threads
        BY <1>2, <2>1, <2>2, <2>3 DEF Threads
    <2>5. exec' = [exec EXCEPT ![w] = [exec[w] EXCEPT !.pc = pc, !.used = {market}, !.run = r]]
        BY <1>4, <1>2 DEF ReadMarket, pc, r, TypeOK, Threads
    <2>6. exec' \in [Workers -> Threads]
        BY <2>4, <2>5, ThreadType DEF TypeOK
    <2>7. QED BY <1>4, <2>6 DEF ReadMarket, TypeOK
<1>5. CASE LookupRun(w)
    <2>1. exec' \in [Workers -> Threads]
        BY <1>5, GotoType DEF LookupRun, TypeOK, Locations, OutsideTry
    <2>2. QED BY <1>5, <2>1 DEF LookupRun, TypeOK
<1>6. CASE InsertRun(w)
    <2>1. exec' \in [Workers -> Threads]
        BY <1>6, GotoType, GiveUpType DEF InsertRun, TypeOK, Locations, OutsideTry
    <2>2. runs' \in [RunIds -> RunRows]
        BY <1>3, <1>6, RunStatusType DEF InsertRun, TypeOK, HasRun
    <2>3. QED BY <1>6, <2>1, <2>2 DEF InsertRun, TypeOK
<1>7. CASE FetchRun(w)
    <2> DEFINE Places == {"compute", "open", "load", "linkCheck"}
    <2>1. ASSUME \E p \in Places : Goto(w, p)
          PROVE  exec' \in [Workers -> Threads]
        <3>1. Places \subseteq Locations
            BY DEF Locations, OutsideTry, InsideTry
        <3> HIDE DEF Places
        <3>2. QED BY <2>1, <3>1, GotoType DEF TypeOK
    <2>2. ASSUME \E n \in FreshNonces(exec[w].run) :
                     exec' = [exec EXCEPT ![w].pc = "lookup", ![w].run.nonce = n]
          PROVE  exec' \in [Workers -> Threads]
        <3>1. PICK n \in 1 .. MaxRetries :
                  exec' = [exec EXCEPT ![w].pc = "lookup", ![w].run.nonce = n]
            BY <2>2 DEF FreshNonces
        <3>2. [exec[w].run EXCEPT !.nonce = n] \in RunIds
            BY <1>3, <1>7, BoundAssumption DEF FetchRun, HasRun, RunIds
        <3>3. [exec[w] EXCEPT !.pc = "lookup", !.run = [exec[w].run EXCEPT !.nonce = n]]
                  \in Threads
            BY <1>2, <3>2 DEF Threads, Locations, OutsideTry
        <3>4. exec' = [exec EXCEPT ![w] =
                  [exec[w] EXCEPT !.pc = "lookup", !.run = [exec[w].run EXCEPT !.nonce = n]]]
            BY <1>2, <3>1 DEF TypeOK, Threads
        <3>5. QED BY <3>3, <3>4, ThreadType DEF TypeOK
    <2>3. exec' \in [Workers -> Threads]
        <3>1. Stage(w) \in Stages
            BY <1>1, <1>7, StageAssumption DEF FetchRun, Stage
        <3>2. QED BY <1>7, <2>1, <2>2, <3>1 DEF FetchRun, Stages
    <2>4. QED BY <1>7, <2>3 DEF FetchRun, TypeOK
<1>8. CASE LoadCheckpoint(w)
    <2>1. ckpt[Input(w)].phase \in Nat /\ ckpt[Input(w)].used \in SUBSET Snapshots
        BY <1>1, <1>8 DEF LoadCheckpoint, TypeOK
    <2>2. [exec[w] EXCEPT !.pc = "open", !.step = ckpt[Input(w)].phase,
                          !.used = exec[w].used \cup ckpt[Input(w)].used] \in Threads
        BY <1>2, <2>1 DEF Threads, Locations, InsideTry
    <2>3. QED BY <1>8, <2>2 DEF LoadCheckpoint, TypeOK
<1>9. CASE ComputeStep(w)
    <2>1. PICK n \in exec[w].step + 1 .. ComputeSteps(Input(w)) :
              /\ exec' = [exec EXCEPT ![w].pc = "report", ![w].step = n]
              /\ \/ ckpt' = [ckpt EXCEPT ![Input(w)] = [phase |-> n, used |-> exec[w].used]]
                 \/ ckpt' = ckpt
        BY <1>9 DEF ComputeStep
    <2>2. n \in Nat
        BY <1>1, <1>2, <1>9, WorkAssumption DEF ComputeStep, ComputeSteps
    <2>3. [exec[w] EXCEPT !.pc = "report", !.step = n] \in Threads
        BY <1>2, <2>2 DEF Threads, Locations, InsideTry
    <2>4. ckpt' \in [Inputs -> [phase : Nat, used : SUBSET Snapshots]]
        <3>1. [phase |-> n, used |-> exec[w].used] \in [phase : Nat, used : SUBSET Snapshots]
            BY <1>2, <2>2
        <3>2. QED BY <2>1, <3>1 DEF TypeOK
    <2>5. exec' = [exec EXCEPT ![w] = [exec[w] EXCEPT !.pc = "report", !.step = n]]
        BY <2>1, <1>2 DEF TypeOK, Threads
    <2>6. exec' \in [Workers -> Threads]
        BY <2>3, <2>5, ThreadType DEF TypeOK
    <2>7. QED BY <1>9, <2>4, <2>6 DEF ComputeStep, TypeOK
<1>10. CASE FinishCompute(w)
    <2>1. exec' \in [Workers -> Threads]
        BY <1>10, GotoType DEF FinishCompute, TypeOK, Locations, InsideTry
    <2>2. QED BY <1>10, <2>1 DEF FinishCompute, TypeOK
<1>11. CASE PublishArtifact(w)
    <2> DEFINE r == exec[w].run
    <2>1. r \in RunIds
        BY <1>3, <1>11 DEF PublishArtifact, HasRun, InsideTry
    <2>2. Append(runs[r].artifacts, exec[w].used) \in Seq(SUBSET Snapshots)
        BY <1>2, <2>1 DEF TypeOK, RunRows
    <2>3. [runs[r] EXCEPT !.artifacts = Append(runs[r].artifacts, exec[w].used)] \in RunRows
        BY <2>1, <2>2 DEF TypeOK, RunRows
    <2>4. runs' \in [RunIds -> RunRows]
        BY <1>11, <2>1, <2>3 DEF PublishArtifact, TypeOK
    <2>5. ASSUME \E p \in {"publish", "drop", "top"} :
                     exec' = [exec EXCEPT ![w].pc = p, ![w].made = exec[w].made + 1]
          PROVE  exec' \in [Workers -> Threads]
        <3>1. PICK p \in {"publish", "drop", "top"} :
                  exec' = [exec EXCEPT ![w].pc = p, ![w].made = exec[w].made + 1]
            BY <2>5
        <3>2. p \in Locations /\ exec[w].made + 1 \in Nat
            BY <1>2 DEF Threads, Locations, InsideTry
        <3>3. [exec[w] EXCEPT !.pc = p, !.made = exec[w].made + 1] \in Threads
            BY <1>2, <3>2 DEF Threads
        <3>4. exec' = [exec EXCEPT ![w] = [exec[w] EXCEPT !.pc = p, !.made = exec[w].made + 1]]
            BY <3>1, <1>2 DEF TypeOK, Threads
        <3>5. QED BY <3>3, <3>4, ThreadType DEF TypeOK
    <2>6. ASSUME Goto(w, "failRun")
          PROVE  exec' \in [Workers -> Threads]
        <3>1. "failRun" \in Locations
            BY DEF Locations
        <3>2. QED BY <2>6, <3>1, GotoType DEF TypeOK
    <2>7. exec' \in [Workers -> Threads]
        <3>1. \/ \E p \in {"publish", "drop", "top"} :
                     exec' = [exec EXCEPT ![w].pc = p, ![w].made = exec[w].made + 1]
              \/ Goto(w, "failRun")
            BY <1>11 DEF PublishArtifact
        <3>2. QED BY <2>5, <2>6, <3>1
    <2>8. QED BY <1>11, <2>4, <2>7 DEF PublishArtifact, TypeOK
<1>12. CASE DeleteCheckpoint(w)
    <2>1. exec' \in [Workers -> Threads]
        BY <1>12, GotoType DEF DeleteCheckpoint, TypeOK, Locations, InsideTry
    <2>2. QED BY <1>12, <2>1 DEF DeleteCheckpoint, TypeOK
<1>13. CASE SettleRun(w)
    <2>1. exec' \in [Workers -> Threads]
        BY <1>13, GotoType DEF SettleRun, TypeOK, Locations, InsideTry, OutsideTry
    <2>2. runs' \in [RunIds -> RunRows]
        BY <1>3, <1>13, RunStatusType DEF SettleRun, TypeOK, HasRun, InsideTry, Terminal
    <2>3. QED BY <1>13, <2>1, <2>2 DEF SettleRun, TypeOK
<1>14. CASE FailRun(w)
    <2>1. exec' \in [Workers -> Threads]
        BY <1>14, GiveUpType DEF FailRun, TypeOK
    <2>2. runs' \in [RunIds -> RunRows]
        BY <1>3, <1>14, RunStatusType DEF FailRun, TypeOK, HasRun, Terminal
    <2>3. QED BY <1>14, <2>1, <2>2 DEF FailRun, TypeOK
<1>15. QED BY <1>4, <1>5, <1>6, <1>7, <1>8, <1>9, <1>10, <1>11, <1>12, <1>13, <1>14

\* The executor thread's claim, link, completion and forget.
LEMMA JobStepType ==
    ASSUME TypeInv, NEW w \in Workers,
           ClaimJob(w) \/ ClaimConflict(w) \/ LinkCheck(w) \/ LinkWrite(w)
           \/ FinishCheck(w) \/ FinishWrite(w) \/ CompleteFailed(w)
           \/ LoseCompletion(w) \/ Forget(w) \/ RaiseError(w)
    PROVE  TypeOK'
<1> USE DEF TypeInv, dbVars, ThreadOnly, bounds, At
<1>1. exec[w].pc # "idle" => exec[w].job \in Jobs
    BY DEF ThreadOK, Fits
<1>2. queue[w] # <<>> => /\ Head(queue[w]) \in Jobs
                         /\ Tail(queue[w]) \in Seq(Jobs)
    BY HeadTailProperties DEF TypeOK
<1>3. CASE ClaimJob(w)
    <2> DEFINE j  == Head(queue[w])
               pc == IF StageOf[jobs[j].input] = "multivariate" THEN "read" ELSE "announce"
    <2>1. j \in Jobs /\ jobs[j] \in JobRows /\ jobs[j].attempt < MaxAttempts
        BY <1>2, <1>3 DEF ClaimJob, TypeOK
    <2>2. jobs[j].attempt + 1 \in 0 .. MaxAttempts
        BY <2>1, BoundAssumption DEF JobRows
    <2>3. [jobs[j] EXCEPT !.status = "running", !.attempt = jobs[j].attempt + 1,
                          !.current = 0, !.total = NoTotal, !.stale = FALSE] \in JobRows
        <3> HIDE DEF j
        <3>1. NoTotal \in Int /\ "running" \in Active
            BY DEF NoTotal, Active
        <3>2. QED BY <2>1, <2>2, <3>1 DEF JobRows
    <2>4. [Idle EXCEPT !.pc = pc, !.job = j, !.attempt = jobs[j].attempt + 1] \in Threads
        BY <2>1, <2>2, IdleType DEF Threads, Locations, OutsideTry
    <2>5. jobs' \in [Jobs -> JobRows]
        BY <1>3, <2>1, <2>3 DEF ClaimJob, TypeOK
    <2>6. exec' \in [Workers -> Threads]
        BY <1>3, <2>4 DEF ClaimJob, TypeOK
    <2>7. QED BY <1>2, <1>3, <2>5, <2>6 DEF ClaimJob, TypeOK
<1>4. CASE ClaimConflict(w)
    <2>1. exec' \in [Workers -> Threads]
        BY <1>2, <1>4, DoneType DEF ClaimConflict, TypeOK
    <2>2. QED BY <1>2, <1>4, <2>1 DEF ClaimConflict, TypeOK
<1>5. CASE LinkCheck(w)
    <2>1. exec' \in [Workers -> Threads]
        BY <1>5, GotoType, GiveUpType DEF LinkCheck, TypeOK, Locations, OutsideTry
    <2>2. QED BY <1>5, <2>1 DEF LinkCheck, TypeOK
<1>6. CASE LinkWrite(w)
    <2>1. exec' \in [Workers -> Threads]
        BY <1>6, GotoType, GiveUpType DEF LinkWrite, TypeOK, Locations, OutsideTry
    <2>2. [jobs[exec[w].job] EXCEPT !.run = exec[w].run] \in JobRows
        <3>1. jobs[exec[w].job] \in JobRows /\ exec[w].run \in RunIds \cup {NoRun}
            BY <1>1, <1>6 DEF LinkWrite, TypeOK, Threads
        <3>2. QED BY <3>1 DEF JobRows
    <2>3. jobs' \in [Jobs -> JobRows]
        BY <1>1, <1>6, <2>2 DEF LinkWrite, TypeOK
    <2>4. QED BY <1>6, <2>1, <2>3 DEF LinkWrite, TypeOK
<1>7. CASE FinishCheck(w)
    <2>1. exec' \in [Workers -> Threads]
        BY <1>7, GotoType, GiveUpType DEF FinishCheck, TypeOK, Locations, OutsideTry
    <2>2. QED BY <1>7, <2>1 DEF FinishCheck, TypeOK
<1>8. CASE FinishWrite(w)
    <2>1. exec' \in [Workers -> Threads]
        BY <1>1, <1>8, DoneType, GiveUpType DEF FinishWrite, TypeOK
    <2>2. jobs' \in [Jobs -> JobRows]
        BY <1>1, <1>8, RowStatusType DEF FinishWrite, TypeOK, Terminal
    <2>3. QED BY <1>8, <2>1, <2>2 DEF FinishWrite, TypeOK
<1>9. CASE CompleteFailed(w)
    <2>1. exec' \in [Workers -> Threads]
        BY <1>1, <1>9, DoneType DEF CompleteFailed, TypeOK
    <2>2. jobs' \in [Jobs -> JobRows]
        BY <1>1, <1>9, RowStatusType DEF CompleteFailed, TypeOK, Terminal
    <2>3. QED BY <1>9, <2>1, <2>2 DEF CompleteFailed, TypeOK
<1>10. CASE LoseCompletion(w)
    <2>1. exec' \in [Workers -> Threads]
        BY <1>1, <1>10, DoneType DEF LoseCompletion, TypeOK
    <2>2. QED BY <1>10, <2>1 DEF LoseCompletion, TypeOK
<1>11. CASE Forget(w)
    BY <1>11, IdleType DEF Forget, TypeOK
<1>12. CASE RaiseError(w)
    <2>1. exec' \in [Workers -> Threads]
        BY <1>12, GotoType, GiveUpType DEF RaiseError, TypeOK, Locations
    <2>2. QED BY <1>12, <2>1 DEF RaiseError, TypeOK
<1>13. QED BY <1>3, <1>4, <1>5, <1>6, <1>7, <1>8, <1>9, <1>10, <1>11, <1>12

-----------------------------------------------------------------------------
(***************************************************************************)
(* A thread keeps fitting its job and its run.                             *)
(***************************************************************************)
\* A job row is never deleted and never changes its input.
RowsKept == \A j \in Jobs : jobs[j].status # "absent" =>
                jobs'[j].status # "absent" /\ jobs'[j].input = jobs[j].input

\* Every step keeps them.
LEMMA KeepRows == ASSUME TypeInv, Next PROVE RowsKept
<1> USE DEF TypeInv, dbVars, httpVars, ThreadOnly, bounds, At
<1>1. \A w \in Workers : exec[w].pc # "idle" => exec[w].job \in Jobs
    BY DEF ThreadOK, Fits
<1>2. CASE jobs' = jobs
    BY <1>2 DEF RowsKept
<1>3. ASSUME NEW j \in Jobs, jobs'[j].status # "absent", jobs'[j].input = jobs[j].input,
             \A k \in Jobs \ {j} : jobs'[k] = jobs[k]
      PROVE  RowsKept
    BY <1>3 DEF RowsKept
<1>4. ASSUME NEW w \in Workers, NEW i \in Inputs, NEW j \in Jobs, CreateOrGetActiveJob(w, i, j)
      PROVE  RowsKept
    BY <1>2, <1>4 DEF CreateOrGetActiveJob, RowsKept, TypeOK
<1>5. ASSUME NEW w \in Workers, ClaimJob(w) PROVE RowsKept
    <2>1. Head(queue[w]) \in Jobs
        BY <1>5, HeadTailProperties DEF ClaimJob, TypeOK
    <2>2. QED BY <1>5, <2>1 DEF ClaimJob, RowsKept, TypeOK
<1>6. ASSUME NEW w \in Workers, NEW c, NEW t, NEW p, exec[w].pc # "idle",
             UpdateJobProgress(w, c, t, p)
      PROVE  RowsKept
    <2> DEFINE j == exec[w].job
    <2>1. j \in Jobs /\ jobs[j] \in JobRows
        BY <1>1, <1>6 DEF TypeOK
    <2>2. CASE jobs' = [jobs EXCEPT ![j].current = c, ![j].total = t, ![j].stale = FALSE]
        <3>1. jobs'[j] = [jobs[j] EXCEPT !.current = c, !.total = t, !.stale = FALSE]
            BY <2>1, <2>2 DEF TypeOK
        <3>2. jobs'[j].status = jobs[j].status /\ jobs'[j].input = jobs[j].input
            BY <2>1, <3>1 DEF JobRows
        <3>3. \A k \in Jobs \ {j} : jobs'[k] = jobs[k]
            BY <2>2 DEF TypeOK
        <3>4. QED BY <3>2, <3>3 DEF RowsKept
    <2>3. QED BY <1>2, <1>6, <2>2 DEF UpdateJobProgress
<1>7. ASSUME NEW w \in Workers, RunStep(w) PROVE RowsKept
    <2>1. CASE jobs' = jobs
        BY <1>2, <2>1
    <2>2. CASE \E c, t, p : exec[w].pc # "idle" /\ UpdateJobProgress(w, c, t, p)
        BY <1>6, <2>2
    <2>3. QED BY <1>7, <2>1, <2>2 DEF RunStep, Announce, ReadMarket, SizeUnivariate,
                LookupRun, InsertRun, FetchRun, LoadCheckpoint, OpenProgress, ComputeStep,
                ReportProgress, FinishCompute, PublishArtifact, DeleteCheckpoint,
                TopProgress, SettleRun, FinalProgress, FailRun
<1>8. ASSUME NEW w \in Workers, LinkWrite(w) \/ FinishWrite(w) \/ CompleteFailed(w)
      PROVE  RowsKept
    <2> DEFINE j == exec[w].job
    <2>1. j \in Jobs /\ jobs[j] \in JobRows
        BY <1>1, <1>8 DEF LinkWrite, FinishWrite, CompleteFailed, TypeOK
    <2>2. ASSUME jobs' = [jobs EXCEPT ![j].run = exec[w].run] PROVE RowsKept
        <3>1. jobs'[j] = [jobs[j] EXCEPT !.run = exec[w].run]
            BY <2>1, <2>2 DEF TypeOK
        <3>2. QED BY <2>1, <2>2, <3>1 DEF JobRows, RowsKept, TypeOK
    <2>3. ASSUME NEW s \in Terminal, jobs' = [jobs EXCEPT ![j].status = s] PROVE RowsKept
        <3>1. jobs'[j] = [jobs[j] EXCEPT !.status = s]
            BY <2>1, <2>3 DEF TypeOK
        <3>2. QED BY <2>1, <2>3, <3>1 DEF JobRows, RowsKept, TypeOK, Terminal
    <2>4. QED BY <1>2, <1>8, <2>2, <2>3 DEF LinkWrite, FinishWrite, CompleteFailed, Terminal
<1>9. ASSUME NEW j \in Jobs, HeartbeatExpires(j) PROVE RowsKept
    BY <1>9 DEF HeartbeatExpires, RowsKept, TypeOK
<1>10. ASSUME NEW w \in Workers, ThreadStep(w) PROVE RowsKept
    BY <1>2, <1>5, <1>7, <1>8, <1>10 DEF ThreadStep, ClaimConflict, LinkCheck, FinishCheck, Forget
<1>11. ASSUME NEW w \in Workers, HttpStep(w) PROVE RowsKept
    BY <1>2, <1>4, <1>11 DEF HttpStep, Submit
<1>12. ASSUME NEW w \in Workers, ProcessStep(w) PROVE RowsKept
    BY <1>2, <1>12 DEF ProcessStep, StartJob, LoseCompletion, RaiseError, BeginClose, Exit,
                       Crash, Restart
<1>13. QED BY <1>2, <1>9, <1>10, <1>11, <1>12 DEF Next, MarketRefresh

\* When one thread's record is replaced, only the new record has to fit.
LEMMA ReplaceFits ==
    ASSUME TypeInv, RowsKept, NEW w \in Workers, NEW t,
           exec' = [exec EXCEPT ![w] = t], Fits(t)'
    PROVE  ThreadOK'
<1>1. ASSUME NEW v \in Workers PROVE Fits(exec[v])'
    <2>1. CASE v = w
        BY <2>1 DEF TypeInv, TypeOK, Fits
    <2>2. CASE v # w
        <3>1. exec'[v] = exec[v]
            BY <2>2 DEF TypeInv, TypeOK
        <3>2. Fits(exec[v])
            BY DEF TypeInv, ThreadOK
        <3>3. exec[v].pc \in HasRun => exec[v].pc \notin {"idle", "done"}
            BY DEF HasRun, InsideTry
        <3>4. QED BY <3>1, <3>2, <3>3 DEF Fits, RowsKept
    <2>3. QED BY <2>1, <2>2
<1>2. QED BY <1>1 DEF ThreadOK

\* A move within the run keeps job and run.
LEMMA MoveFits ==
    ASSUME TypeInv, RowsKept, NEW w \in Workers, NEW t,
           exec[w].pc \notin {"idle", "done"}, exec' = [exec EXCEPT ![w] = t],
           t.job = exec[w].job, t.run = exec[w].run, t.pc # "idle",
           t.pc \in HasRun => exec[w].pc \in HasRun
    PROVE  ThreadOK'
<1>1. Fits(exec[w])
    BY DEF TypeInv, ThreadOK
<1>2. exec[w].job \in Jobs /\ jobs[exec[w].job].status # "absent"
    BY <1>1 DEF Fits
<1>3. Fits(t)'
    BY <1>1, <1>2 DEF Fits, RowsKept
<1>4. QED BY <1>3, ReplaceFits

\* So does Goto.
LEMMA GotoFits ==
    ASSUME TypeInv, RowsKept, NEW w \in Workers, NEW p,
           exec[w].pc \notin {"idle", "done"}, p # "idle",
           p \in HasRun => exec[w].pc \in HasRun, Goto(w, p)
    PROVE  ThreadOK'
<1>1. PICK t : t = [exec[w] EXCEPT !.pc = p]
    OBVIOUS
<1>2. exec' = [exec EXCEPT ![w] = t]
    BY <1>1 DEF Goto
<1>3. t.pc = p /\ t.job = exec[w].job /\ t.run = exec[w].run
    BY <1>1 DEF TypeInv, TypeOK, Threads
<1>4. QED BY <1>2, <1>3, MoveFits

\* Giving up keeps the job.
LEMMA GiveUpFits ==
    ASSUME TypeInv, RowsKept, NEW w \in Workers, exec[w].pc \notin {"idle", "done"}, GiveUp(w)
    PROVE  ThreadOK'
<1>1. exec[w] \in Threads /\ Fits(exec[w])
    BY DEF TypeInv, TypeOK, ThreadOK
<1>2. PICK t : t = [Idle EXCEPT !.pc = "giveUp", !.job = exec[w].job, !.attempt = exec[w].attempt]
    OBVIOUS
<1>3. exec' = [exec EXCEPT ![w] = t]
    BY <1>2 DEF GiveUp
<1>4. t.pc = "giveUp" /\ t.job = exec[w].job
    BY <1>2 DEF Idle
<1>5. exec[w].job \in Jobs /\ jobs[exec[w].job].status # "absent"
    BY <1>1 DEF Fits
<1>6. Fits(t)'
    BY <1>4, <1>5 DEF Fits, RowsKept, HasRun, InsideTry
<1>7. QED BY <1>3, <1>6, ReplaceFits

\* A thread that is done, or idle, is bound to no row.
LEMMA DoneFits ==
    ASSUME TypeInv, RowsKept, NEW w \in Workers, NEW j,
           \/ j \in Jobs /\ exec' = [exec EXCEPT ![w] = [Idle EXCEPT !.pc = "done", !.job = j]]
           \/ exec' = [exec EXCEPT ![w] = Idle]
    PROVE  ThreadOK'
<1>1. CASE exec' = [exec EXCEPT ![w] = Idle]
    <2>1. Fits(Idle)'
        BY DEF Fits, Idle, HasRun, InsideTry
    <2>2. QED BY <1>1, <2>1, ReplaceFits
<1>2. CASE /\ j \in Jobs
           /\ exec' = [exec EXCEPT ![w] = [Idle EXCEPT !.pc = "done", !.job = j]]
    <2>1. PICK t : t = [Idle EXCEPT !.pc = "done", !.job = j]
        OBVIOUS
    <2>2. t.pc = "done" /\ t.job = j
        BY <2>1 DEF Idle
    <2>3. Fits(t)'
        BY <1>2, <2>2 DEF Fits, HasRun, InsideTry
    <2>4. QED BY <1>2, <2>1, <2>3, ReplaceFits
<1>3. QED BY <1>1, <1>2

\* A progress write, accepted or refused.
LEMMA ProgressFits ==
    ASSUME TypeInv, RowsKept, NEW w \in Workers, NEW c, NEW t, NEW p,
           exec[w].pc \notin {"idle", "done"}, p # "idle",
           p \in HasRun => exec[w].pc \in HasRun, UpdateJobProgress(w, c, t, p)
    PROVE  ThreadOK'
<1>1. CASE Goto(w, p)
    BY <1>1, GotoFits
<1>2. CASE exec[w].pc \in InsideTry /\ Goto(w, "failRun")
    <2>1. exec[w].pc \in HasRun
        BY <1>2 DEF HasRun
    <2>2. QED BY <1>2, <2>1, GotoFits
<1>3. CASE GiveUp(w)
    BY <1>3, GiveUpFits
<1>4. QED BY <1>1, <1>2, <1>3 DEF UpdateJobProgress

\* No thread changes.
LEMMA UnchangedFits == ASSUME TypeInv, RowsKept, exec' = exec PROVE ThreadOK'
<1>1. ASSUME NEW w \in Workers PROVE Fits(exec[w])'
    <2>1. Fits(exec[w])
        BY DEF TypeInv, ThreadOK
    <2>2. exec[w].pc \in HasRun => exec[w].pc \notin {"idle", "done"}
        BY DEF HasRun, InsideTry
    <2>3. QED BY <2>1, <2>2 DEF Fits, RowsKept
<1>2. QED BY <1>1 DEF ThreadOK

\* The steps within a run.
LEMMA RunStepFits ==
    ASSUME TypeInv, RowsKept, NEW w \in Workers, RunStep(w)
    PROVE  ThreadOK'
<1> USE DEF At
<1>1. CASE Announce(w) \/ SizeUnivariate(w) \/ OpenProgress(w) \/ ReportProgress(w)
           \/ TopProgress(w) \/ FinalProgress(w)
    <2>1. PICK c, t, p : /\ UpdateJobProgress(w, c, t, p)
                         /\ p \in {"read", "lookup", "report", "compute", "settle", "linkCheck"}
                         /\ p = "read" \/ exec[w].pc \in HasRun
                         /\ exec[w].pc \notin {"idle", "done"}
        BY <1>1 DEF Announce, SizeUnivariate, OpenProgress, ReportProgress, TopProgress,
                    FinalProgress, HasRun, InsideTry
    <2>2. "read" \notin HasRun
        BY DEF HasRun, InsideTry
    <2>3. QED BY <2>1, <2>2, ProgressFits
<1>2. CASE LookupRun(w) \/ FinishCompute(w) \/ DeleteCheckpoint(w)
    BY <1>2, GotoFits DEF LookupRun, FinishCompute, DeleteCheckpoint, HasRun, InsideTry
<1>3. CASE InsertRun(w) \/ SettleRun(w) \/ FailRun(w)
    BY <1>3, GotoFits, GiveUpFits DEF InsertRun, SettleRun, FailRun, HasRun, InsideTry
<1>4. CASE ReadMarket(w)
    <2>1. /\ exec[w] \in Threads /\ exec[w].job \in Jobs
          /\ jobs[exec[w].job].status # "absent" /\ Input(w) \in Inputs
        BY <1>4 DEF ReadMarket, TypeInv, TypeOK, ThreadOK, Fits, JobRows, Input, Row
    <2>2. PICK r : r = [input |-> Input(w), nonce |-> 0,
                        snap |-> IF Stage(w) = "multivariate" THEN Pinned[Input(w)] ELSE market]
        OBVIOUS
    <2>3. r \in RunIds /\ r.input = jobs[exec[w].job].input
        BY <2>1, <2>2, PinnedAssumption, BoundAssumption DEF TypeInv, TypeOK, RunIds, Input, Row
    <2>4. PICK p : p = IF Stage(w) = "univariate" THEN "size" ELSE "lookup"
        OBVIOUS
    <2>5. PICK t : t = [exec[w] EXCEPT !.pc = p, !.used = {market}, !.run = r]
        OBVIOUS
    <2>6. exec' = [exec EXCEPT ![w] = t]
        BY <1>4, <2>2, <2>4, <2>5 DEF ReadMarket, TypeInv, TypeOK, Threads
    <2>7. t.pc = p /\ t.job = exec[w].job /\ t.run = r
        BY <2>1, <2>5 DEF Threads
    <2>8. Fits(t)'
        BY <2>1, <2>3, <2>7 DEF Fits, RowsKept
    <2>9. QED BY <2>6, <2>8, ReplaceFits
<1>5. CASE FetchRun(w)
    <2>1. ASSUME NEW n \in FreshNonces(exec[w].run),
                 exec' = [exec EXCEPT ![w].pc = "lookup", ![w].run.nonce = n]
          PROVE  ThreadOK'
        <3>1. /\ exec[w] \in Threads /\ exec[w].job \in Jobs
              /\ jobs[exec[w].job].status # "absent"
              /\ exec[w].run \in RunIds /\ exec[w].run.input = jobs[exec[w].job].input
            BY <1>5 DEF FetchRun, TypeInv, TypeOK, ThreadOK, Fits, HasRun
        <3>2. PICK r : r = [exec[w].run EXCEPT !.nonce = n]
            OBVIOUS
        <3>3. r \in RunIds /\ r.input = exec[w].run.input
            BY <2>1, <3>1, <3>2, BoundAssumption DEF FreshNonces, RunIds
        <3>4. PICK t : t = [exec[w] EXCEPT !.pc = "lookup", !.run = r]
            OBVIOUS
        <3>5. exec' = [exec EXCEPT ![w] = t]
            BY <2>1, <3>2, <3>4 DEF TypeInv, TypeOK, Threads
        <3>6. t.pc = "lookup" /\ t.job = exec[w].job /\ t.run = r
            BY <3>1, <3>4 DEF Threads
        <3>7. Fits(t)'
            BY <3>1, <3>3, <3>6 DEF Fits, RowsKept
        <3>8. QED BY <3>5, <3>7, ReplaceFits
    <2>2. ASSUME NEW p, p # "idle", Goto(w, p) PROVE ThreadOK'
        BY <1>5, <2>2, GotoFits DEF FetchRun, HasRun
    <2>3. Stage(w) \in Stages
        BY <1>5, StageAssumption
        DEF FetchRun, TypeInv, TypeOK, ThreadOK, Fits, JobRows, Stage, Input, Row
    <2>4. QED BY <1>5, <2>1, <2>2, <2>3 DEF FetchRun, Stages
<1>6. CASE LoadCheckpoint(w) \/ ComputeStep(w) \/ PublishArtifact(w)
    <2>1. exec[w] \in Threads
        BY DEF TypeInv, TypeOK
    <2>2. exec[w].pc \in {"load", "compute", "publish"}
        BY <1>6 DEF LoadCheckpoint, ComputeStep, PublishArtifact
    <2>3. CASE Goto(w, "failRun")
        BY <2>2, <2>3, GotoFits DEF HasRun, InsideTry
    <2>4. CASE LoadCheckpoint(w)
        <3>1. PICK t : t = [exec[w] EXCEPT !.pc = "open", !.step = ckpt[Input(w)].phase,
                                           !.used = exec[w].used \cup ckpt[Input(w)].used]
            OBVIOUS
        <3>2. exec' = [exec EXCEPT ![w] = t]
            BY <2>1, <2>4, <3>1 DEF LoadCheckpoint, TypeInv, TypeOK, Threads
        <3>3. t.pc = "open" /\ t.job = exec[w].job /\ t.run = exec[w].run
            BY <2>1, <3>1 DEF Threads
        <3>4. QED BY <2>2, <3>2, <3>3, MoveFits DEF HasRun, InsideTry
    <2>5. CASE ComputeStep(w)
        <3>1. PICK n : exec' = [exec EXCEPT ![w].pc = "report", ![w].step = n]
            BY <2>5 DEF ComputeStep
        <3>2. PICK t : t = [exec[w] EXCEPT !.pc = "report", !.step = n]
            OBVIOUS
        <3>3. exec' = [exec EXCEPT ![w] = t]
            BY <2>1, <3>1, <3>2 DEF TypeInv, TypeOK, Threads
        <3>4. t.pc = "report" /\ t.job = exec[w].job /\ t.run = exec[w].run
            BY <2>1, <3>2 DEF Threads
        <3>5. QED BY <2>2, <3>3, <3>4, MoveFits DEF HasRun, InsideTry
    <2>6. CASE PublishArtifact(w) /\ ~Goto(w, "failRun")
        <3>1. PICK p \in {"publish", "drop", "top"} :
                  exec' = [exec EXCEPT ![w].pc = p, ![w].made = exec[w].made + 1]
            BY <2>6 DEF PublishArtifact
        <3>2. PICK t : t = [exec[w] EXCEPT !.pc = p, !.made = exec[w].made + 1]
            OBVIOUS
        <3>3. exec' = [exec EXCEPT ![w] = t]
            BY <2>1, <3>1, <3>2 DEF TypeInv, TypeOK, Threads
        <3>4. t.pc = p /\ t.job = exec[w].job /\ t.run = exec[w].run
            BY <2>1, <3>2 DEF Threads
        <3>5. QED BY <2>2, <3>1, <3>3, <3>4, MoveFits DEF HasRun, InsideTry
    <2>7. QED BY <1>6, <2>3, <2>4, <2>5, <2>6
<1>7. QED BY <1>1, <1>2, <1>3, <1>4, <1>5, <1>6 DEF RunStep

\* The claim, the link, the completion and the environment.
LEMMA StepFits == ASSUME TypeInv, Next PROVE ThreadOK'
<1> USE DEF At, dbVars, httpVars, ThreadOnly
<1>1. RowsKept
    BY KeepRows
<1>2. ASSUME NEW w \in Workers, ClaimJob(w) PROVE ThreadOK'
    <2>1. PICK j : j = Head(queue[w])
        OBVIOUS
    <2>2. j \in Jobs /\ jobs[j] \in JobRows
        BY <1>2, <2>1, HeadTailProperties DEF ClaimJob, TypeInv, TypeOK
    <2>3. jobs'[j].status = "running"
        BY <1>2, <2>1, <2>2 DEF ClaimJob, TypeInv, TypeOK, JobRows
    <2>4. PICK p \in {"read", "announce"} :
              exec' = [exec EXCEPT ![w] = [Idle EXCEPT !.pc = p, !.job = j,
                                                       !.attempt = jobs[j].attempt + 1]]
        BY <1>2, <2>1 DEF ClaimJob
    <2>5. PICK t : t = [Idle EXCEPT !.pc = p, !.job = j, !.attempt = jobs[j].attempt + 1]
        OBVIOUS
    <2>6. t.pc = p /\ t.job = j
        BY <2>5 DEF Idle
    <2>7. Fits(t)'
        BY <2>2, <2>3, <2>6 DEF Fits, HasRun, InsideTry
    <2>8. QED BY <1>1, <2>4, <2>5, <2>7, ReplaceFits
<1>3. ASSUME NEW w \in Workers, ClaimConflict(w) PROVE ThreadOK'
    <2>1. Head(queue[w]) \in Jobs
        BY <1>3, HeadTailProperties DEF ClaimConflict, TypeInv, TypeOK
    <2>2. QED BY <1>1, <1>3, <2>1, DoneFits DEF ClaimConflict
<1>4. ASSUME NEW w \in Workers, LinkCheck(w) \/ LinkWrite(w) \/ FinishCheck(w) PROVE ThreadOK'
    BY <1>1, <1>4, GotoFits, GiveUpFits DEF LinkCheck, LinkWrite, FinishCheck, HasRun
<1>5. ASSUME NEW w \in Workers, FinishWrite(w) \/ CompleteFailed(w) \/ LoseCompletion(w)
      PROVE  ThreadOK'
    <2>1. exec[w].job \in Jobs
        BY <1>5 DEF FinishWrite, CompleteFailed, LoseCompletion, TypeInv, ThreadOK, Fits
    <2>2. QED BY <1>1, <1>5, <2>1, DoneFits, GiveUpFits
              DEF FinishWrite, CompleteFailed, LoseCompletion
<1>6. ASSUME NEW w \in Workers, Forget(w) \/ Crash(w) PROVE ThreadOK'
    BY <1>1, <1>6, DoneFits DEF Forget, Crash
<1>7. ASSUME NEW w \in Workers, RaiseError(w) PROVE ThreadOK'
    BY <1>1, <1>7, GotoFits, GiveUpFits DEF RaiseError, HasRun, InsideTry, OutsideTry
<1>8. CASE exec' = exec
    BY <1>1, <1>8, UnchangedFits
<1>9. ASSUME NEW w \in Workers, ThreadStep(w) PROVE ThreadOK'
    BY <1>1, <1>2, <1>3, <1>4, <1>5, <1>6, <1>9, RunStepFits DEF ThreadStep
<1>10. ASSUME NEW w \in Workers, HttpStep(w) PROVE ThreadOK'
    BY <1>8, <1>10 DEF HttpStep, CreateOrGetActiveJob, Submit
<1>11. ASSUME NEW w \in Workers, ProcessStep(w) PROVE ThreadOK'
    BY <1>5, <1>6, <1>7, <1>8, <1>11 DEF ProcessStep, StartJob, BeginClose, Exit, Restart
<1>12. QED BY <1>8, <1>9, <1>10, <1>11 DEF Next, HeartbeatExpires, MarketRefresh

-----------------------------------------------------------------------------
\* Every row, thread local and counter keeps its type, for every number of
\* processes, jobs and inputs: TypeOK needs that a thread with work has a job and
\* a run of that job's input (ThreadOK).
THEOREM TypeCorrect == Spec => [](TypeOK /\ ThreadOK)
<1>1. Init => TypeInv
    BY InitType
<1>2. TypeInv /\ [Next]_vars => TypeInv'
    <2>1. ASSUME TypeInv, Next PROVE TypeOK'
        <3>1. CASE \E w \in Workers : ThreadStep(w) \/ LoseCompletion(w) \/ RaiseError(w)
            BY <2>1, <3>1, ProgressStepType, RunStepType, JobStepType DEF ThreadStep, RunStep
        <3>2. CASE \E w \in Workers : \/ \E i \in Inputs : StartJob(w, i)
                                      \/ HttpStep(w) \/ BeginClose(w) \/ Exit(w)
                                      \/ Crash(w) \/ Restart(w)
            BY <2>1, <3>2, EnvironmentType
        <3>3. CASE (\E j \in Jobs : HeartbeatExpires(j)) \/ MarketRefresh
            BY <2>1, <3>3, ClockType
        <3>4. QED BY <2>1, <3>1, <3>2, <3>3 DEF Next, ProcessStep
    <2>2. ASSUME TypeInv, Next PROVE ThreadOK'
        BY <2>2, StepFits
    <2>3. ASSUME TypeInv, UNCHANGED vars PROVE TypeInv'
        BY <2>3 DEF TypeInv, TypeOK, ThreadOK, Fits, vars
    <2>4. QED BY <2>1, <2>2, <2>3 DEF TypeInv
<1>3. QED BY <1>1, <1>2, PTL DEF Spec, TypeInv

-----------------------------------------------------------------------------
(***************************************************************************)
(* A claim is exclusive and lasts, as long as no executor's phase takes    *)
(* longer than stale_after (~SlowPhases).                                  *)
(***************************************************************************)
Busy(t) == t.pc \notin {"idle", "done"}

\* The row of an executing thread is running, fresh, and of its attempt.
Holds(t) ==
    Busy(t) => /\ jobs[t.job].status = "running"
               /\ ~jobs[t.job].stale
               /\ jobs[t.job].attempt = t.attempt

Exclusive ==
    \A v, w \in Workers :
        v # w /\ Busy(exec[v]) /\ Busy(exec[w]) => exec[v].job # exec[w].job

Ownership == Exclusive /\ \A w \in Workers : Holds(exec[w])

\* The step writes no row but the executing thread's.
OwnRowOnly(w) ==
    \A j \in Jobs : jobs'[j] = jobs[j] \/ (Busy(exec[w]) /\ j = exec[w].job)

\* And keeps what the claim is.
KeepsClaim(w) ==
    /\ jobs'[exec[w].job].status = jobs[exec[w].job].status
    /\ jobs'[exec[w].job].attempt = jobs[exec[w].job].attempt
    /\ jobs'[exec[w].job].stale => jobs[exec[w].job].stale

-----------------------------------------------------------------------------
\* A step of one thread that writes its own row only and takes no other job.
LEMMA OwnStep ==
    ASSUME TypeInv, Ownership, NEW w \in Workers, NEW t, exec' = [exec EXCEPT ![w] = t],
           OwnRowOnly(w), Busy(t) => Busy(exec[w]) /\ t.job = exec[w].job, Holds(t)'
    PROVE  Ownership'
<1>1. exec'[w] = t /\ \A v \in Workers \ {w} : exec'[v] = exec[v]
    BY DEF TypeInv, TypeOK
<1>2. Exclusive'
    BY <1>1 DEF Exclusive, Ownership, Busy
<1>3. ASSUME NEW v \in Workers PROVE Holds(exec[v])'
    <2>1. CASE v = w
        BY <1>1, <2>1 DEF Holds, Busy
    <2>2. CASE v # w
        <3>1. Holds(exec[v]) /\ exec'[v] = exec[v]
            BY <1>1, <2>2 DEF Ownership
        <3>2. Busy(exec[v]) => exec[v].job \in Jobs
            BY DEF TypeInv, ThreadOK, Fits, Busy
        <3>3. Busy(exec[v]) => jobs'[exec[v].job] = jobs[exec[v].job]
            BY <2>2, <3>2 DEF OwnRowOnly, Ownership, Exclusive
        <3>4. QED BY <3>1, <3>3 DEF Holds, Busy
    <2>3. QED BY <2>1, <2>2
<1>4. QED BY <1>2, <1>3 DEF Ownership

\* A step that keeps the job, the attempt and the claim.
LEMMA MoveStep ==
    ASSUME TypeInv, Ownership, NEW w \in Workers, NEW t, exec' = [exec EXCEPT ![w] = t],
           Busy(exec[w]), t.job = exec[w].job, t.attempt = exec[w].attempt,
           OwnRowOnly(w), KeepsClaim(w)
    PROVE  Ownership'
<1>1. Holds(exec[w])
    BY DEF Ownership
<1>2. jobs[exec[w].job].status = "running" /\ jobs'[exec[w].job].attempt = t.attempt
    BY <1>1 DEF Holds, KeepsClaim
<1>3. Holds(t)'
    BY <1>1, <1>2 DEF Holds, KeepsClaim
<1>4. QED BY <1>3, OwnStep

\* The thread is done with the job, or idle.
LEMMA DoneStep ==
    ASSUME TypeInv, Ownership, NEW w \in Workers, NEW j, OwnRowOnly(w),
           \/ exec' = [exec EXCEPT ![w] = [Idle EXCEPT !.pc = "done", !.job = j]]
           \/ exec' = [exec EXCEPT ![w] = Idle]
    PROVE  Ownership'
<1>1. CASE exec' = [exec EXCEPT ![w] = [Idle EXCEPT !.pc = "done", !.job = j]]
    <2>1. PICK t : t = [Idle EXCEPT !.pc = "done", !.job = j]
        OBVIOUS
    <2>2. ~Busy(t) /\ exec' = [exec EXCEPT ![w] = t]
        BY <1>1, <2>1 DEF Idle, Busy
    <2>3. QED BY <2>2, OwnStep DEF Holds, Busy
<1>2. CASE exec' = [exec EXCEPT ![w] = Idle]
    <2>1. ~Busy(Idle) /\ Holds(Idle)'
        BY DEF Idle, Busy, Holds
    <2>2. QED BY <1>2, <2>1, OwnStep
<1>3. QED BY <1>1, <1>2

\* Goto and GiveUp are such moves.
LEMMA GotoStep ==
    ASSUME TypeInv, Ownership, NEW w \in Workers, NEW p, Goto(w, p) \/ GiveUp(w),
           Busy(exec[w]), OwnRowOnly(w), KeepsClaim(w)
    PROVE  Ownership'
<1>1. CASE Goto(w, p)
    <2>1. PICK t : t = [exec[w] EXCEPT !.pc = p]
        OBVIOUS
    <2>2. exec' = [exec EXCEPT ![w] = t]
        BY <1>1, <2>1 DEF Goto
    <2>3. t.job = exec[w].job /\ t.attempt = exec[w].attempt
        BY <2>1 DEF TypeInv, TypeOK, Threads
    <2>4. QED BY <2>2, <2>3, MoveStep
<1>2. CASE GiveUp(w)
    <2>1. PICK t : t = [Idle EXCEPT !.pc = "giveUp", !.job = exec[w].job, !.attempt = exec[w].attempt]
        OBVIOUS
    <2>2. t.job = exec[w].job /\ t.attempt = exec[w].attempt
        BY <2>1 DEF Idle
    <2>3. exec' = [exec EXCEPT ![w] = t]
        BY <1>2, <2>1 DEF GiveUp
    <2>4. QED BY <2>2, <2>3, MoveStep
<1>3. QED BY <1>1, <1>2

\* A progress write, accepted or refused, keeps the claim and renews the heartbeat.
LEMMA ProgressStep ==
    ASSUME TypeInv, Ownership, NEW w \in Workers, NEW c, NEW t, NEW p, Busy(exec[w]),
           UpdateJobProgress(w, c, t, p)
    PROVE  Ownership'
<1>1. PICK j \in Jobs : j = exec[w].job
    BY DEF TypeInv, ThreadOK, Fits, Busy
<1>2. CASE jobs' = [jobs EXCEPT ![j].current = c, ![j].total = t, ![j].stale = FALSE] /\ Goto(w, p)
    <2>1. jobs'[j] = [jobs[j] EXCEPT !.current = c, !.total = t, !.stale = FALSE]
        BY <1>1, <1>2 DEF TypeInv, TypeOK
    <2>2. jobs[j] \in JobRows
        BY DEF TypeInv, TypeOK
    <2>3. KeepsClaim(w)
        BY <1>1, <2>1, <2>2 DEF KeepsClaim, JobRows
    <2>4. OwnRowOnly(w)
        BY <1>1, <1>2 DEF OwnRowOnly, TypeInv, TypeOK
    <2>5. QED BY <1>2, <2>3, <2>4, GotoStep
<1>3. CASE UNCHANGED jobs /\ (Goto(w, "failRun") \/ GiveUp(w))
    BY <1>3, GotoStep DEF OwnRowOnly, KeepsClaim
<1>4. QED BY <1>1, <1>2, <1>3 DEF UpdateJobProgress

\* The steps within a run.
LEMMA RunStepOwnership ==
    ASSUME TypeInv, Ownership, NEW w \in Workers, RunStep(w)
    PROVE  Ownership'
<1> USE DEF At
<1>1. CASE Announce(w) \/ SizeUnivariate(w) \/ OpenProgress(w) \/ ReportProgress(w)
           \/ TopProgress(w) \/ FinalProgress(w)
    <2>1. PICK c, t, p : UpdateJobProgress(w, c, t, p) /\ Busy(exec[w])
        BY <1>1 DEF Announce, SizeUnivariate, OpenProgress, ReportProgress, TopProgress,
                    FinalProgress, Busy
    <2>2. QED BY <2>1, ProgressStep
<1>2. CASE LookupRun(w) \/ FinishCompute(w) \/ DeleteCheckpoint(w) \/ InsertRun(w)
           \/ SettleRun(w) \/ FailRun(w)
    <2>1. (\E p : Goto(w, p)) \/ GiveUp(w)
        BY <1>2 DEF LookupRun, FinishCompute, DeleteCheckpoint, InsertRun, SettleRun, FailRun
    <2>2. Busy(exec[w]) /\ UNCHANGED jobs
        BY <1>2 DEF LookupRun, FinishCompute, DeleteCheckpoint, InsertRun, SettleRun, FailRun,
                    dbVars, Busy
    <2>3. QED BY <2>1, <2>2, GotoStep DEF OwnRowOnly, KeepsClaim
<1>3. CASE ReadMarket(w) \/ FetchRun(w) \/ LoadCheckpoint(w) \/ ComputeStep(w) \/ PublishArtifact(w)
    <2>1. Busy(exec[w]) /\ UNCHANGED jobs
        BY <1>3 DEF ReadMarket, FetchRun, LoadCheckpoint, ComputeStep, PublishArtifact, dbVars, Busy
    <2>2. exec[w] \in Threads
        BY DEF TypeInv, TypeOK
    <2>3. PICK t : t = exec'[w]
        OBVIOUS
    <2>4. /\ exec' = [exec EXCEPT ![w] = t]
          /\ t.job = exec[w].job /\ t.attempt = exec[w].attempt
        <3> USE <2>2, <2>3 DEF TypeInv, TypeOK, Threads
        <3>1. CASE ReadMarket(w)
            BY <3>1 DEF ReadMarket
        <3>2. CASE FetchRun(w)
            <4>1. CASE \E n : exec' = [exec EXCEPT ![w].pc = "lookup", ![w].run.nonce = n]
                <5>1. PICK n : exec' = [exec EXCEPT ![w].pc = "lookup", ![w].run.nonce = n]
                    BY <4>1
                <5>2. PICK r : r = [exec[w].run EXCEPT !.nonce = n]
                    OBVIOUS
                <5>3. exec' = [exec EXCEPT ![w] = [exec[w] EXCEPT !.pc = "lookup", !.run = r]]
                    BY <5>1, <5>2
                <5>4. QED BY <5>3
            <4>2. CASE \E p : exec' = [exec EXCEPT ![w].pc = p]
                BY <4>2
            <4>3. QED BY <3>2, <4>1, <4>2 DEF FetchRun, Goto
        <3>3. CASE LoadCheckpoint(w)
            BY <3>3 DEF LoadCheckpoint
        <3>4. CASE ComputeStep(w)
            <4>1. PICK n : exec' = [exec EXCEPT ![w].pc = "report", ![w].step = n]
                BY <3>4 DEF ComputeStep
            <4>2. QED BY <4>1
        <3>5. CASE PublishArtifact(w)
            <4>1. CASE Goto(w, "failRun")
                BY <4>1 DEF Goto
            <4>2. CASE ~Goto(w, "failRun")
                <5>1. PICK p, k : exec' = [exec EXCEPT ![w].pc = p, ![w].made = k]
                    BY <3>5, <4>2 DEF PublishArtifact
                <5>2. QED BY <5>1
            <4>3. QED BY <4>1, <4>2
        <3>6. QED BY <1>3, <3>1, <3>2, <3>3, <3>4, <3>5
    <2>5. QED BY <2>1, <2>4, MoveStep DEF OwnRowOnly, KeepsClaim
<1>4. QED BY <1>1, <1>2, <1>3 DEF RunStep

\* A claim takes a row nobody holds: queued, or running without a heartbeat.
LEMMA ClaimOwnership ==
    ASSUME TypeInv, Ownership, NEW w \in Workers, ClaimJob(w)
    PROVE  Ownership'
<1>1. PICK j : j = Head(queue[w])
    OBVIOUS
<1>2. j \in Jobs /\ jobs[j] \in JobRows /\ Claimable(j)
    BY <1>1, HeadTailProperties DEF ClaimJob, TypeInv, TypeOK
<1>3. \A v \in Workers : Busy(exec[v]) => exec[v].job \in Jobs /\ exec[v].job # j
    BY <1>2 DEF Ownership, Holds, Claimable, TypeInv, ThreadOK, Fits, Busy
<1>4. jobs'[j] = [jobs[j] EXCEPT !.status = "running", !.attempt = jobs[j].attempt + 1,
                                 !.current = 0, !.total = NoTotal, !.stale = FALSE]
    BY <1>1, <1>2 DEF ClaimJob, TypeInv, TypeOK, JobRows
<1>5. /\ jobs'[j].status = "running" /\ ~jobs'[j].stale
      /\ jobs'[j].attempt = jobs[j].attempt + 1
    BY <1>2, <1>4 DEF JobRows
<1>6. \A k \in Jobs \ {j} : jobs'[k] = jobs[k]
    BY <1>1 DEF ClaimJob, TypeInv, TypeOK
<1>7. PICK p \in {"read", "announce"} :
          exec' = [exec EXCEPT ![w] = [Idle EXCEPT !.pc = p, !.job = j,
                                                   !.attempt = jobs[j].attempt + 1]]
    BY <1>1 DEF ClaimJob
<1>8. PICK t : t = [Idle EXCEPT !.pc = p, !.job = j, !.attempt = jobs[j].attempt + 1]
    OBVIOUS
<1>9. t.job = j /\ t.attempt = jobs[j].attempt + 1
    BY <1>8 DEF Idle
<1>10. exec'[w] = t /\ \A v \in Workers \ {w} : exec'[v] = exec[v]
    BY <1>7, <1>8 DEF TypeInv, TypeOK
<1>11. Exclusive'
    BY <1>3, <1>9, <1>10 DEF Exclusive, Ownership
<1>12. ASSUME NEW v \in Workers PROVE Holds(exec[v])'
    <2>1. CASE v = w
        BY <1>5, <1>9, <1>10, <2>1 DEF Holds
    <2>2. CASE v # w
        BY <1>3, <1>6, <1>10, <2>2 DEF Holds, Ownership
    <2>3. QED BY <2>1, <2>2
<1>13. QED BY <1>11, <1>12 DEF Ownership

\* link_job_run and complete_job.
LEMMA CompletionOwnership ==
    ASSUME TypeInv, Ownership, NEW w \in Workers,
           LinkCheck(w) \/ LinkWrite(w) \/ FinishCheck(w) \/ FinishWrite(w)
           \/ CompleteFailed(w) \/ LoseCompletion(w) \/ Forget(w) \/ RaiseError(w)
    PROVE  Ownership'
<1> USE DEF At, dbVars
<1>1. CASE LinkCheck(w) \/ FinishCheck(w) \/ RaiseError(w)
    <2>1. /\ (\E p : Goto(w, p)) \/ GiveUp(w)
          /\ Busy(exec[w]) /\ UNCHANGED jobs
        BY <1>1 DEF LinkCheck, FinishCheck, RaiseError, Busy, InsideTry, OutsideTry
    <2>2. QED BY <2>1, GotoStep DEF OwnRowOnly, KeepsClaim
<1>2. CASE LinkWrite(w)
    <2>1. PICK j \in Jobs : j = exec[w].job
        BY <1>2 DEF LinkWrite, TypeInv, ThreadOK, Fits
    <2>2. Busy(exec[w]) /\ ((\E p : Goto(w, p)) \/ GiveUp(w))
        BY <1>2 DEF LinkWrite, Busy
    <2>3. CASE UNCHANGED jobs
        BY <2>2, <2>3, GotoStep DEF OwnRowOnly, KeepsClaim
    <2>4. CASE jobs' = [jobs EXCEPT ![j].run = exec[w].run]
        <3>1. jobs'[j] = [jobs[j] EXCEPT !.run = exec[w].run] /\ jobs[j] \in JobRows
            BY <2>4 DEF TypeInv, TypeOK
        <3>2. KeepsClaim(w)
            BY <2>1, <3>1 DEF KeepsClaim, JobRows
        <3>3. OwnRowOnly(w)
            BY <2>1, <2>2, <2>4 DEF OwnRowOnly, TypeInv, TypeOK
        <3>4. QED BY <2>2, <3>2, <3>3, GotoStep
    <2>5. QED BY <1>2, <2>1, <2>3, <2>4 DEF LinkWrite
<1>3. CASE FinishWrite(w) \/ CompleteFailed(w) \/ LoseCompletion(w)
    <2>1. Busy(exec[w])
        BY <1>3 DEF FinishWrite, CompleteFailed, LoseCompletion, Busy
    <2>2. OwnRowOnly(w)
        BY <1>3, <2>1 DEF FinishWrite, CompleteFailed, LoseCompletion, OwnRowOnly, TypeInv, TypeOK
    <2>3. CASE GiveUp(w) /\ UNCHANGED jobs
        BY <2>1, <2>3, GotoStep DEF OwnRowOnly, KeepsClaim
    <2>4. CASE exec' = [exec EXCEPT ![w] = [Idle EXCEPT !.pc = "done", !.job = exec[w].job]]
        BY <2>2, <2>4, DoneStep
    <2>5. QED BY <1>3, <2>3, <2>4 DEF FinishWrite, CompleteFailed, LoseCompletion
<1>4. CASE Forget(w)
    BY <1>4, DoneStep DEF Forget, OwnRowOnly
<1>5. QED BY <1>1, <1>2, <1>3, <1>4

\* Every step.
LEMMA StepOwnership ==
    ASSUME ~SlowPhases, TypeInv, Ownership, Next
    PROVE  Ownership'
<1> USE DEF dbVars, httpVars
<1>1. CASE jobs' = jobs /\ exec' = exec
    BY <1>1 DEF Ownership, Exclusive, Holds, Busy
<1>2. ASSUME NEW w \in Workers, ThreadStep(w) PROVE Ownership'
    <2>1. CASE ClaimConflict(w)
        BY <2>1, DoneStep DEF ClaimConflict, OwnRowOnly
    <2>2. QED BY <1>2, <2>1, RunStepOwnership, ClaimOwnership, CompletionOwnership DEF ThreadStep
<1>3. ASSUME NEW w \in Workers, HttpStep(w) PROVE Ownership'
    <2>1. ASSUME NEW i \in Inputs, NEW j \in Jobs, CreateOrGetActiveJob(w, i, j)
          PROVE  Ownership'
        <3>1. CASE jobs[j].status = "absent" /\ \A k \in Jobs \ {j} : jobs'[k] = jobs[k]
            <4>1. \A v \in Workers : Busy(exec[v]) => exec[v].job \in Jobs \ {j}
                BY <3>1 DEF TypeInv, ThreadOK, Fits, Busy
            <4>2. exec' = exec
                BY <2>1 DEF CreateOrGetActiveJob
            <4>3. \A v \in Workers : Holds(exec[v]) /\ exec'[v] = exec[v]
                BY <4>2 DEF Ownership
            <4>4. \A v \in Workers : Holds(exec[v])'
                BY <3>1, <4>1, <4>3 DEF Holds, Busy
            <4>5. Exclusive'
                BY <4>2 DEF Ownership, Exclusive, Busy
            <4>6. QED BY <4>4, <4>5 DEF Ownership
        <3>2. QED BY <1>1, <2>1, <3>1 DEF CreateOrGetActiveJob, TypeInv, TypeOK
    <2>2. QED BY <1>1, <1>3, <2>1 DEF HttpStep, Submit
<1>4. ASSUME NEW w \in Workers, ProcessStep(w) PROVE Ownership'
    <2>1. CASE Crash(w)
        BY <2>1, DoneStep DEF Crash, OwnRowOnly
    <2>2. QED BY <1>1, <1>4, <2>1, CompletionOwnership
              DEF ProcessStep, StartJob, BeginClose, Exit, Restart
<1>5. ASSUME NEW j \in Jobs, HeartbeatExpires(j) PROVE Ownership'
    <2>1. \A v \in Workers : Busy(exec[v]) => exec[v].job \in Jobs \ {j}
        BY <1>5 DEF HeartbeatExpires, Executing, TypeInv, ThreadOK, Fits, Busy
    <2>2. exec' = exec /\ \A k \in Jobs \ {j} : jobs'[k] = jobs[k]
        BY <1>5 DEF HeartbeatExpires, TypeInv, TypeOK
    <2>3. \A v \in Workers : Holds(exec[v])'
        BY <2>1, <2>2 DEF Holds, Busy, Ownership
    <2>4. Exclusive'
        BY <2>2 DEF Ownership, Exclusive, Busy
    <2>5. QED BY <2>3, <2>4 DEF Ownership
<1>6. CASE MarketRefresh
    BY <1>1, <1>6 DEF MarketRefresh
<1>7. QED BY <1>2, <1>3, <1>4, <1>5, <1>6 DEF Next

-----------------------------------------------------------------------------
\* No thread executes anything at the start.
LEMMA InitOwnership == Init => Ownership
<1>1. Init => \A w \in Workers : ~Busy(exec[w])
    BY DEF Init, Idle, Busy
<1>2. QED BY <1>1 DEF Ownership, Exclusive, Holds

\* The invariant holds for every number of processes, crashes and restarts.
THEOREM OwnershipInvariant == ASSUME ~SlowPhases PROVE Spec => [](TypeInv /\ Ownership)
<1>1. TypeInv /\ Ownership /\ [Next]_vars => Ownership'
    <2>1. ASSUME Ownership, UNCHANGED vars PROVE Ownership'
        BY <2>1 DEF Ownership, Exclusive, Holds, Busy, vars
    <2>2. QED BY <2>1, StepOwnership
<1>2. TypeInv <=> TypeOK /\ ThreadOK
    BY DEF TypeInv
<1>3. QED BY <1>1, <1>2, InitOwnership, TypeCorrect, PTL DEF Spec

\* No two processes execute the same job: claim_job's compare-and-set is enough when
\* every phase of a run writes progress within stale_after.
THEOREM ClaimsAreExclusive == ASSUME ~SlowPhases PROVE Spec => []OneExecutor
<1>1. TypeInv /\ Ownership => OneExecutor
    BY DEF Ownership, Exclusive, OneExecutor, Executing, Busy
<1>2. QED BY <1>1, OwnershipInvariant, PTL

\* An executing thread's job is running and of the thread's own attempt, until the
\* thread is done with it.
THEOREM ClaimsLast == ASSUME ~SlowPhases PROVE Spec => []ExecutorOwnsAttempt
<1>1. TypeInv /\ Ownership => ExecutorOwnsAttempt
    BY DEF Ownership, Holds, ExecutorOwnsAttempt, Executing, Busy
<1>2. QED BY <1>1, OwnershipInvariant, PTL
=============================================================================
