----------------------- MODULE AnalysisJobsRuns_proofs ------------------------
(***************************************************************************)
(* What the repository promises about jobs and runs, for every number of   *)
(* processes, crashes, reclaims and concurrent attempts.                   *)
(*                                                                         *)
(* A succeeded run is complete, however long a phase takes.  The rest      *)
(* assumes that no phase outlasts the heartbeat: a succeeded job names a   *)
(* succeeded run, an ended run keeps its evidence, a retry computes, a     *)
(* thread's own progress is accepted, and the tables implement             *)
(* JobContract.                                                            *)
(***************************************************************************)
EXTENDS AnalysisJobs_proofs

\* Locations before the first artifact of this attempt, and after the last.
BeforePublish == {"announce", "read", "size", "lookup", "insert", "fetch", "load",
                  "open", "compute", "report"}
AfterPublish  == {"drop", "top", "settle"}

Published(r) == Len(runs[r].artifacts)

\* What an attempt has put is there, and it moves on only when it has put everything.
AttemptOK(t) ==
    /\ t.pc \in BeforePublish => t.made = 0
    /\ t.pc = "publish" => t.made < ArtifactCount[t.run.input] /\ t.made <= Published(t.run)
    /\ t.pc \in AfterPublish => Published(t.run) = ArtifactCount[t.run.input]

RunsOK ==
    \A r \in RunIds :
        /\ Published(r) <= ArtifactCount[r.input]
        /\ runs[r].status = "succeeded" => Published(r) = ArtifactCount[r.input]

ArtifactsOK == RunsOK /\ \A w \in Workers : AttemptOK(exec[w])

\* No artifact is ever taken back, and no run gets more than its own.
ArtifactsGrow ==
    \A r \in RunIds : Published(r)' \in Published(r) .. ArtifactCount[r.input]

-----------------------------------------------------------------------------
\* The counts are natural numbers.
LEMMA CountType ==
    ASSUME TypeOK
    PROVE  /\ \A r \in RunIds : Published(r) \in Nat /\ ArtifactCount[r.input] \in Nat \ {0}
           /\ \A w \in Workers : exec[w].made \in Nat
<1>1. ASSUME NEW r \in RunIds
      PROVE  Published(r) \in Nat /\ ArtifactCount[r.input] \in Nat \ {0}
    <2>1. r.input \in Inputs
        BY DEF RunIds
    <2>2. runs[r].artifacts \in Seq(SUBSET Snapshots)
        BY DEF TypeOK, RunRows
    <2>3. QED BY <2>1, <2>2, ArtifactAssumption, LenProperties DEF Published
<1>2. ASSUME NEW w \in Workers PROVE exec[w].made \in Nat
    BY DEF TypeOK, Threads
<1>3. QED BY <1>1, <1>2

\* Publishing one more artifact of a run that lacks one.
LEMMA AppendArtifact ==
    ASSUME TypeOK, NEW r \in RunIds, NEW u \in SUBSET Snapshots,
           runs' = [runs EXCEPT ![r].artifacts = Append(@, u)]
    PROVE  /\ Published(r)' = Published(r) + 1
           /\ runs'[r].status = runs[r].status
           /\ \A q \in RunIds \ {r} : runs'[q] = runs[q]
<1>1. runs[r] \in RunRows
    BY DEF TypeOK
<1>2. runs'[r] = [runs[r] EXCEPT !.artifacts = Append(runs[r].artifacts, u)]
    BY DEF TypeOK
<1>3. /\ runs'[r].artifacts = Append(runs[r].artifacts, u)
      /\ runs'[r].status = runs[r].status
    BY <1>1, <1>2 DEF RunRows
<1>4. Len(Append(runs[r].artifacts, u)) = Len(runs[r].artifacts) + 1
    BY <1>1, AppendProperties DEF RunRows
<1>5. QED BY <1>3, <1>4 DEF Published, TypeOK

\* A change of status leaves the artifacts.
LEMMA StatusArtifacts ==
    ASSUME TypeOK, NEW r \in RunIds, NEW s, runs' = [runs EXCEPT ![r].status = s]
    PROVE  /\ \A q \in RunIds : Published(q)' = Published(q)
           /\ runs'[r].status = s
           /\ \A q \in RunIds \ {r} : runs'[q] = runs[q]
<1>1. runs[r] \in RunRows
    BY DEF TypeOK
<1>2. runs'[r] = [runs[r] EXCEPT !.status = s]
    BY DEF TypeOK
<1>3. runs'[r].artifacts = runs[r].artifacts /\ runs'[r].status = s
    BY <1>1, <1>2 DEF RunRows
<1>4. QED BY <1>3 DEF Published, TypeOK

\* The runs' side of every step.
LEMMA RunsStep ==
    ASSUME TypeInv, ArtifactsOK, Next
    PROVE  RunsOK' /\ ArtifactsGrow
<1> USE DEF At
<1>1. CASE runs' = runs
    BY <1>1, CountType DEF RunsOK, ArtifactsOK, ArtifactsGrow, Published, TypeInv
<1>2. ASSUME NEW r \in RunIds, NEW s, runs' = [runs EXCEPT ![r].status = s],
             s = "succeeded" => Published(r) = ArtifactCount[r.input]
      PROVE  RunsOK' /\ ArtifactsGrow
    BY <1>2, CountType, StatusArtifacts DEF RunsOK, ArtifactsOK, ArtifactsGrow, Published, TypeInv
<1>3. ASSUME NEW w \in Workers, InsertRun(w) \/ SettleRun(w) \/ FailRun(w)
      PROVE  RunsOK' /\ ArtifactsGrow
    <2>1. exec[w].run \in RunIds
        BY <1>3 DEF InsertRun, SettleRun, FailRun, TypeInv, ThreadOK, Fits, HasRun, InsideTry
    <2>2. AttemptOK(exec[w])
        BY DEF ArtifactsOK
    <2>3. CASE InsertRun(w) \/ FailRun(w)
        BY <1>1, <1>2, <2>1, <2>3 DEF InsertRun, FailRun
    <2>4. CASE SettleRun(w)
        BY <1>1, <1>2, <2>1, <2>2, <2>4 DEF SettleRun, AttemptOK, AfterPublish
    <2>5. QED BY <1>3, <2>3, <2>4
<1>4. ASSUME NEW w \in Workers, PublishArtifact(w) PROVE RunsOK' /\ ArtifactsGrow
    <2>1. /\ exec[w].run \in RunIds
          /\ exec[w].made < ArtifactCount[exec[w].run.input]
          /\ exec[w].used \in SUBSET Snapshots
        BY <1>4 DEF PublishArtifact, TypeInv, ThreadOK, Fits, HasRun, InsideTry, ArtifactsOK,
                    AttemptOK, TypeOK, Threads
    <2>2. CASE /\ Published(exec[w].run) < exec[w].made + 1
               /\ runs' = [runs EXCEPT ![exec[w].run].artifacts = Append(@, exec[w].used)]
        <3>1. PICK r \in RunIds : r = exec[w].run
            BY <2>1
        <3>2. PICK u \in SUBSET Snapshots : u = exec[w].used
            BY <2>1
        <3>3. /\ Published(r)' = Published(r) + 1
              /\ runs'[r].status = runs[r].status
              /\ \A q \in RunIds \ {r} : runs'[q] = runs[q]
            BY <2>2, <3>1, <3>2, AppendArtifact DEF TypeInv
        <3>4. Published(r) < ArtifactCount[r.input]
            BY <2>1, <2>2, <3>1, CountType DEF TypeInv
        <3>5. ASSUME NEW q \in RunIds
              PROVE  /\ Published(q)' \in Published(q) .. ArtifactCount[q.input]
                     /\ runs'[q].status = "succeeded" => Published(q)' = ArtifactCount[q.input]
            <4>1. /\ Published(q) \in Nat /\ Published(q) <= ArtifactCount[q.input]
                  /\ ArtifactCount[q.input] \in Nat
                  /\ runs[q].status = "succeeded" => Published(q) = ArtifactCount[q.input]
                BY CountType DEF RunsOK, ArtifactsOK, TypeInv
            <4>2. CASE q = r
                BY <3>3, <3>4, <4>1, <4>2
            <4>3. CASE q # r
                BY <3>3, <4>1, <4>3 DEF Published
            <4>4. QED BY <4>2, <4>3
        <3>6. QED BY <3>5 DEF RunsOK, ArtifactsGrow
    <2>3. QED BY <1>1, <1>4, <2>2 DEF PublishArtifact, Published
<1>5. ASSUME NEW w \in Workers, ThreadStep(w) PROVE RunsOK' /\ ArtifactsGrow
    BY <1>1, <1>3, <1>4, <1>5
    DEF ThreadStep, RunStep, Announce, ReadMarket, SizeUnivariate, LookupRun, FetchRun,
        LoadCheckpoint, OpenProgress, ComputeStep, ReportProgress, FinishCompute,
        DeleteCheckpoint, TopProgress, FinalProgress, ClaimJob, ClaimConflict, LinkCheck,
        LinkWrite, FinishCheck, FinishWrite, CompleteFailed, Forget, dbVars
<1>6. ASSUME NEW w \in Workers, HttpStep(w) \/ ProcessStep(w) PROVE RunsOK' /\ ArtifactsGrow
    BY <1>1, <1>6
    DEF HttpStep, CreateOrGetActiveJob, Submit, ProcessStep, StartJob, LoseCompletion,
        RaiseError, BeginClose, Exit, Crash, Restart, dbVars
<1>7. QED BY <1>1, <1>5, <1>6 DEF Next, HeartbeatExpires, MarketRefresh, dbVars

-----------------------------------------------------------------------------
\* When one thread's record is replaced, only the new record has to be looked at.
LEMMA ReplaceAttempt ==
    ASSUME TypeInv, ArtifactsOK, RunsOK', ArtifactsGrow, NEW w \in Workers, NEW t,
           exec' = [exec EXCEPT ![w] = t], AttemptOK(t)'
    PROVE  ArtifactsOK'
<1>1. ASSUME NEW v \in Workers PROVE AttemptOK(exec[v])'
    <2>1. CASE v = w
        BY <2>1 DEF TypeInv, TypeOK, AttemptOK
    <2>2. CASE v # w
        <3>1. exec'[v] = exec[v] /\ AttemptOK(exec[v])
            BY <2>2 DEF TypeInv, TypeOK, ArtifactsOK
        <3>2. exec[v].pc = "publish" \/ exec[v].pc \in AfterPublish => exec[v].run \in RunIds
            BY DEF TypeInv, ThreadOK, Fits, HasRun, InsideTry, AfterPublish
        <3>3. exec[v].made \in Nat
            BY CountType DEF TypeInv
        <3>4. \A r \in RunIds :
                 /\ Published(r) \in Nat /\ Published(r)' \in Nat /\ ArtifactCount[r.input] \in Nat
                 /\ Published(r) <= Published(r)' /\ Published(r)' <= ArtifactCount[r.input]
            BY CountType DEF TypeInv, ArtifactsGrow
        <3>5. QED BY <3>1, <3>2, <3>3, <3>4 DEF AttemptOK
    <2>3. QED BY <2>1, <2>2
<1>2. QED BY <1>1 DEF ArtifactsOK

\* A move that keeps what the attempt has made, on the same side of publication.
LEMMA MoveAttempt ==
    ASSUME TypeInv, ArtifactsOK, RunsOK', ArtifactsGrow, NEW w \in Workers, NEW t,
           exec' = [exec EXCEPT ![w] = t],
           t.pc \in BeforePublish => exec[w].pc \in BeforePublish /\ t.made = exec[w].made,
           t.pc # "publish",
           t.pc \in AfterPublish => exec[w].pc \in AfterPublish /\ t.run = exec[w].run
    PROVE  ArtifactsOK'
<1>1. AttemptOK(exec[w])
    BY DEF ArtifactsOK
<1>2. AttemptOK(t)'
    <2>1. exec[w].pc \in AfterPublish => exec[w].run \in RunIds
        BY DEF TypeInv, ThreadOK, Fits, HasRun, InsideTry, AfterPublish
    <2>2. \A r \in RunIds : Published(r) = ArtifactCount[r.input]
                               => Published(r)' = ArtifactCount[r.input]
        BY CountType DEF TypeInv, ArtifactsGrow
    <2>3. t.pc \in AfterPublish => Published(t.run)' = ArtifactCount[t.run.input]
        BY <1>1, <2>1, <2>2 DEF AttemptOK
    <2>4. t.pc \in BeforePublish => t.made = 0
        BY <1>1 DEF AttemptOK
    <2>5. QED BY <2>3, <2>4 DEF AttemptOK
<1>3. QED BY <1>2, ReplaceAttempt

\* Goto does.
LEMMA GotoAttempt ==
    ASSUME TypeInv, ArtifactsOK, RunsOK', ArtifactsGrow, NEW w \in Workers, NEW p, Goto(w, p),
           p \in BeforePublish => exec[w].pc \in BeforePublish,
           p # "publish",
           p \in AfterPublish => exec[w].pc \in AfterPublish
    PROVE  ArtifactsOK'
<1>1. PICK t : t = [exec[w] EXCEPT !.pc = p]
    OBVIOUS
<1>2. exec' = [exec EXCEPT ![w] = t]
    BY <1>1 DEF Goto
<1>3. t.pc = p /\ t.made = exec[w].made /\ t.run = exec[w].run
    BY <1>1 DEF TypeInv, TypeOK, Threads
<1>4. QED BY <1>2, <1>3, MoveAttempt

\* Threads that give up, are done or are idle have nothing to publish.
LEMMA GiveUpAttempt ==
    ASSUME TypeInv, ArtifactsOK, RunsOK', ArtifactsGrow, NEW w \in Workers, NEW j,
           \/ GiveUp(w)
           \/ exec' = [exec EXCEPT ![w] = [Idle EXCEPT !.pc = "done", !.job = j]]
           \/ exec' = [exec EXCEPT ![w] = Idle]
    PROVE  ArtifactsOK'
<1> USE DEF BeforePublish, AfterPublish
<1>1. CASE GiveUp(w)
    <2>1. PICK t : t = [Idle EXCEPT !.pc = "giveUp", !.job = exec[w].job,
                                    !.attempt = exec[w].attempt]
        OBVIOUS
    <2>2. t.pc = "giveUp" /\ exec' = [exec EXCEPT ![w] = t]
        BY <1>1, <2>1 DEF GiveUp, Idle
    <2>3. QED BY <2>2, MoveAttempt
<1>2. CASE exec' = [exec EXCEPT ![w] = [Idle EXCEPT !.pc = "done", !.job = j]]
    <2>1. PICK t : t = [Idle EXCEPT !.pc = "done", !.job = j]
        OBVIOUS
    <2>2. t.pc = "done" /\ exec' = [exec EXCEPT ![w] = t]
        BY <1>2, <2>1 DEF Idle
    <2>3. QED BY <2>2, MoveAttempt
<1>3. CASE exec' = [exec EXCEPT ![w] = Idle]
    <2>1. Idle.pc = "idle"
        BY DEF Idle
    <2>2. QED BY <1>3, <2>1, MoveAttempt
<1>4. QED BY <1>1, <1>2, <1>3

\* A progress write, accepted or refused.
LEMMA ProgressAttempt ==
    ASSUME TypeInv, ArtifactsOK, RunsOK', ArtifactsGrow, NEW w \in Workers, NEW c, NEW t, NEW p,
           p \in BeforePublish => exec[w].pc \in BeforePublish,
           p # "publish",
           p \in AfterPublish => exec[w].pc \in AfterPublish,
           UpdateJobProgress(w, c, t, p)
    PROVE  ArtifactsOK'
<1>1. CASE Goto(w, p)
    BY <1>1, GotoAttempt
<1>2. CASE Goto(w, "failRun")
    BY <1>2, GotoAttempt DEF BeforePublish, AfterPublish
<1>3. CASE GiveUp(w)
    BY <1>3, GiveUpAttempt
<1>4. QED BY <1>1, <1>2, <1>3 DEF UpdateJobProgress

\* No thread changes.
LEMMA UnchangedAttempt ==
    ASSUME TypeInv, ArtifactsOK, RunsOK', ArtifactsGrow, exec' = exec
    PROVE  ArtifactsOK'
<1>1. ASSUME NEW w \in Workers PROVE ArtifactsOK'
    <2>1. PICK t : t = exec[w]
        OBVIOUS
    <2>2. exec' = [exec EXCEPT ![w] = t]
        BY <2>1 DEF TypeInv, TypeOK
    <2>3. AttemptOK(exec[w])
        BY DEF ArtifactsOK
    <2>4. t.pc = "publish" \/ t.pc \in AfterPublish => t.run \in RunIds
        BY <2>1 DEF TypeInv, ThreadOK, Fits, HasRun, InsideTry, AfterPublish
    <2>5. \A r \in RunIds :
             /\ Published(r) \in Nat /\ Published(r)' \in Nat /\ ArtifactCount[r.input] \in Nat
             /\ Published(r) <= Published(r)' /\ Published(r)' <= ArtifactCount[r.input]
        BY CountType DEF TypeInv, ArtifactsGrow
    <2>6. t.made \in Nat
        BY <2>1, CountType DEF TypeInv
    <2>7. AttemptOK(t)'
        BY <2>1, <2>3, <2>4, <2>5, <2>6 DEF AttemptOK
    <2>8. QED BY <2>2, <2>7, ReplaceAttempt
<1>2. QED BY <1>1 DEF ArtifactsOK

\* The attempt's side of every step of a thread.
LEMMA ThreadAttempt ==
    ASSUME TypeInv, ArtifactsOK, RunsOK', ArtifactsGrow, NEW w \in Workers,
           ThreadStep(w) \/ LoseCompletion(w) \/ RaiseError(w)
    PROVE  ArtifactsOK'
<1> USE DEF At
<1>1. AttemptOK(exec[w]) /\ exec[w] \in Threads
    BY DEF ArtifactsOK, TypeInv, TypeOK
<1>2. CASE Announce(w) \/ SizeUnivariate(w) \/ OpenProgress(w) \/ ReportProgress(w)
           \/ TopProgress(w) \/ FinalProgress(w)
    <2>1. PICK c, t, p :
              /\ UpdateJobProgress(w, c, t, p)
              /\ p \in BeforePublish => exec[w].pc \in BeforePublish
              /\ p # "publish"
              /\ p \in AfterPublish => exec[w].pc \in AfterPublish
        BY <1>2 DEF Announce, SizeUnivariate, OpenProgress, ReportProgress, TopProgress,
                    FinalProgress, BeforePublish, AfterPublish
    <2>2. QED BY <2>1, ProgressAttempt
<1>3. CASE LookupRun(w) \/ InsertRun(w) \/ DeleteCheckpoint(w) \/ SettleRun(w) \/ FailRun(w)
           \/ LinkCheck(w) \/ LinkWrite(w) \/ FinishCheck(w) \/ RaiseError(w)
    BY <1>3, GotoAttempt, GiveUpAttempt
    DEF LookupRun, InsertRun, DeleteCheckpoint, SettleRun, FailRun, LinkCheck, LinkWrite,
        FinishCheck, RaiseError, BeforePublish, AfterPublish
<1>4. CASE ClaimConflict(w) \/ FinishWrite(w) \/ CompleteFailed(w) \/ LoseCompletion(w) \/ Forget(w)
    BY <1>4, GiveUpAttempt DEF ClaimConflict, FinishWrite, CompleteFailed, LoseCompletion, Forget
<1>5. CASE ClaimJob(w)
    <2>1. PICK j, a, p : /\ p \in {"read", "announce"}
                         /\ exec' = [exec EXCEPT ![w] = [Idle EXCEPT !.pc = p, !.job = j, !.attempt = a]]
        BY <1>5 DEF ClaimJob
    <2>2. PICK t : t = [Idle EXCEPT !.pc = p, !.job = j, !.attempt = a]
        OBVIOUS
    <2>3. t.pc = p /\ t.made = 0
        BY <2>2 DEF Idle
    <2>4. AttemptOK(t)'
        BY <2>1, <2>3 DEF AttemptOK, AfterPublish
    <2>5. QED BY <2>1, <2>2, <2>4, ReplaceAttempt
<1>6. CASE ReadMarket(w) \/ LoadCheckpoint(w) \/ ComputeStep(w) \/ FetchRun(w)
    <2>1. PICK t : t = exec'[w]
        OBVIOUS
    <2>2. /\ exec' = [exec EXCEPT ![w] = t]
          /\ t.made = exec[w].made
          /\ exec[w].pc \in BeforePublish
          /\ t.pc \notin AfterPublish \cup {"publish"}
        <3>1. CASE ReadMarket(w)
            BY <1>1, <2>1, <3>1 DEF ReadMarket, TypeInv, TypeOK, Threads, BeforePublish, AfterPublish
        <3>2. CASE LoadCheckpoint(w)
            BY <1>1, <2>1, <3>2 DEF LoadCheckpoint, TypeInv, TypeOK, Threads, BeforePublish, AfterPublish
        <3>3. CASE ComputeStep(w)
            <4>1. PICK n : exec' = [exec EXCEPT ![w].pc = "report", ![w].step = n]
                BY <3>3 DEF ComputeStep
            <4>2. QED BY <1>1, <2>1, <3>3, <4>1
                      DEF ComputeStep, TypeInv, TypeOK, Threads, BeforePublish, AfterPublish
        <3>4. CASE FetchRun(w)
            <4>1. PICK p \in {"compute", "open", "load", "linkCheck", "lookup"} :
                      \/ exec' = [exec EXCEPT ![w].pc = p]
                      \/ \E n : exec' = [exec EXCEPT ![w].pc = p, ![w].run.nonce = n]
                <5>1. Stage(w) \in Stages
                    BY <3>4, StageAssumption
                    DEF FetchRun, TypeInv, TypeOK, ThreadOK, Fits, JobRows, Stage, Input, Row
                <5>2. QED BY <3>4, <5>1 DEF FetchRun, Goto, Stages
            <4>2. QED BY <1>1, <2>1, <3>4, <4>1
                      DEF FetchRun, TypeInv, TypeOK, Threads, BeforePublish, AfterPublish
        <3>5. QED BY <1>6, <3>1, <3>2, <3>3, <3>4
    <2>3. QED BY <2>2, MoveAttempt
<1>7. CASE FinishCompute(w)
    <2>1. PICK t : t = [exec[w] EXCEPT !.pc = "publish"]
        OBVIOUS
    <2>2. exec' = [exec EXCEPT ![w] = t]
        BY <1>7, <2>1 DEF FinishCompute, Goto
    <2>3. PICK r \in RunIds : r = exec[w].run
        BY <1>7 DEF FinishCompute, TypeInv, ThreadOK, Fits, HasRun, InsideTry
    <2>4. t.pc = "publish" /\ t.made = 0 /\ t.run = r
        BY <1>1, <1>7, <2>1, <2>3 DEF Threads, FinishCompute, AttemptOK, BeforePublish
    <2>5. 0 < ArtifactCount[r.input] /\ 0 <= Published(r)'
        BY CountType DEF TypeInv, ArtifactsGrow
    <2>6. AttemptOK(t)'
        BY <2>4, <2>5 DEF AttemptOK, BeforePublish, AfterPublish
    <2>7. QED BY <2>2, <2>6, ReplaceAttempt
<1>8. CASE PublishArtifact(w)
    <2>1. CASE Goto(w, "failRun")
        BY <2>1, GotoAttempt DEF BeforePublish, AfterPublish
    <2>2. CASE ~Goto(w, "failRun")
        <3>1. PICK r \in RunIds : r = exec[w].run
            BY <1>8 DEF PublishArtifact, TypeInv, ThreadOK, Fits, HasRun, InsideTry
        <3>2. Input(w) = r.input
            BY <1>8, <3>1 DEF PublishArtifact, TypeInv, ThreadOK, Fits, HasRun, InsideTry, Input, Row
        <3>3. PICK k : k = exec[w].made + 1
            OBVIOUS
        <3>4. /\ k \in Nat /\ k <= ArtifactCount[r.input] /\ k - 1 <= Published(r)
              /\ ArtifactCount[r.input] \in Nat
            BY <1>1, <1>8, <3>1, <3>3, CountType DEF PublishArtifact, AttemptOK, TypeInv
        <3>5. Published(r)' >= k /\ Published(r)' <= ArtifactCount[r.input] /\ Published(r)' \in Nat
            <4>1. CASE Published(r) < k
                <5>1. PICK u \in SUBSET Snapshots : u = exec[w].used
                    BY <1>1 DEF Threads
                <5>2. runs' = [runs EXCEPT ![r].artifacts = Append(@, u)]
                    BY <1>8, <2>2, <3>1, <3>3, <4>1, <5>1 DEF PublishArtifact, Published
                <5>3. Published(r)' = Published(r) + 1
                    BY <5>2, AppendArtifact DEF TypeInv
                <5>4. QED BY <3>4, <5>3, CountType DEF TypeInv, ArtifactsGrow
            <4>2. CASE ~(Published(r) < k)
                BY <3>4, <4>2, CountType DEF TypeInv, ArtifactsGrow
            <4>3. QED BY <4>1, <4>2
        <3>6. PICK p : p = IF k < ArtifactCount[r.input] THEN "publish"
                           ELSE IF Stage(w) = "multivariate" THEN "drop" ELSE "top"
            OBVIOUS
        <3>7. PICK t : t = [exec[w] EXCEPT !.pc = p, !.made = k]
            OBVIOUS
        <3>8. exec' = [exec EXCEPT ![w] = t]
            BY <1>1, <1>8, <2>2, <3>1, <3>2, <3>3, <3>6, <3>7
            DEF PublishArtifact, TypeInv, TypeOK, Threads
        <3>9. t.pc = p /\ t.made = k /\ t.run = r
            BY <1>1, <3>1, <3>7 DEF Threads
        <3>10. AttemptOK(t)'
            BY <3>4, <3>5, <3>6, <3>9 DEF AttemptOK, BeforePublish, AfterPublish
        <3>11. QED BY <3>8, <3>10, ReplaceAttempt
    <2>3. QED BY <2>1, <2>2
<1>9. QED BY <1>2, <1>3, <1>4, <1>5, <1>6, <1>7, <1>8 DEF ThreadStep, RunStep

-----------------------------------------------------------------------------
\* A run that reports success has published every artifact its readers ask for, for
\* every number of processes, crashes and concurrent attempts, and however long the
\* phases take: each attempt counts what it has seen published, and nobody takes an
\* artifact back.
THEOREM SucceededRunsAreComplete == Spec => []SucceededRunIsComplete
<1>1. Init /\ TypeInv => ArtifactsOK
    <2>1. ASSUME Init, TypeInv PROVE RunsOK
        <3>1. \A r \in RunIds : runs[r].status = "absent" /\ Published(r) = 0
            BY <2>1, EmptySeq DEF Init, Published
        <3>2. QED BY <2>1, <3>1, CountType DEF RunsOK, TypeInv
    <2>2. ASSUME Init, NEW w \in Workers PROVE AttemptOK(exec[w])
        BY <2>2 DEF Init, Idle, AttemptOK, BeforePublish, AfterPublish
    <2>3. QED BY <2>1, <2>2 DEF ArtifactsOK
<1>2. TypeInv /\ ArtifactsOK /\ [Next]_vars => ArtifactsOK'
    <2>1. ASSUME TypeInv, ArtifactsOK, Next PROVE ArtifactsOK'
        <3>1. RunsOK' /\ ArtifactsGrow
            BY <2>1, RunsStep
        <3>2. CASE \E w \in Workers : ThreadStep(w) \/ LoseCompletion(w) \/ RaiseError(w)
            BY <2>1, <3>1, <3>2, ThreadAttempt
        <3>3. CASE \E w \in Workers : Crash(w)
            BY <2>1, <3>1, <3>3, GiveUpAttempt DEF Crash
        <3>4. CASE exec' = exec
            BY <2>1, <3>1, <3>4, UnchangedAttempt
        <3>5. QED BY <2>1, <3>2, <3>3, <3>4
                  DEF Next, HttpStep, ProcessStep, CreateOrGetActiveJob, Submit, StartJob,
                      BeginClose, Exit, Restart, HeartbeatExpires, MarketRefresh
    <2>2. ASSUME ArtifactsOK, UNCHANGED vars PROVE ArtifactsOK'
        BY <2>2 DEF ArtifactsOK, RunsOK, AttemptOK, Published, vars
    <2>3. QED BY <2>1, <2>2
<1>3. ArtifactsOK => SucceededRunIsComplete
    BY DEF ArtifactsOK, RunsOK, Published, SucceededRunIsComplete
<1>4. TypeInv <=> TypeOK /\ ThreadOK
    BY DEF TypeInv
<1>5. QED BY <1>1, <1>2, <1>3, <1>4, TypeCorrect, PTL DEF Spec

-----------------------------------------------------------------------------
(***************************************************************************)
(* A succeeded job names a succeeded run of its own input, although        *)
(* link_job_run and complete_job check in one transaction and write in     *)
(* another: between the two the claim keeps every other writer away, and   *)
(* the trigger of app_state/schema.py keeps an ended run as it is.         *)
(***************************************************************************)
\* A named run is an ended one of the job's input.
JobOK(j) ==
    /\ jobs[j].run # NoRun => /\ jobs[j].run.input = jobs[j].input
                              /\ runs[jobs[j].run].status \in Terminal
    /\ jobs[j].status = "succeeded" => /\ jobs[j].run # NoRun
                                       /\ runs[jobs[j].run].status = "succeeded"

\* What the thread knows of its run once it has ended, and what complete_job has checked.
LinkOK(t) ==
    /\ t.pc \in {"linkCheck", "linkWrite", "finishCheck"} => runs[t.run].status \in Terminal
    /\ t.pc = "final" => runs[t.run].status = "succeeded"
    /\ t.pc = "finishWrite" => /\ jobs[t.job].run # NoRun
                               /\ runs[jobs[t.job].run].status = "succeeded"

LinksOK == (\A j \in Jobs : JobOK(j)) /\ (\A w \in Workers : LinkOK(exec[w]))

\* The trigger: an ended run keeps its status.
RunsFinal ==
    \A r \in RunIds : runs[r].status \in Terminal => runs'[r].status = runs[r].status

\* The step changes no run another executing thread's job names.
NamesKept(w) ==
    \A v \in Workers \ {w} : Busy(exec[v]) => jobs'[exec[v].job].run = jobs[exec[v].job].run

-----------------------------------------------------------------------------
\* Only a run that has not ended changes its status.
LEMMA KeepRuns == ASSUME TypeInv, Next PROVE RunsFinal
<1> USE DEF At
<1>1. CASE runs' = runs
    BY <1>1 DEF RunsFinal
<1>2. ASSUME NEW r \in RunIds, NEW s, runs[r].status \notin Terminal,
             runs' = [runs EXCEPT ![r].status = s]
      PROVE  RunsFinal
    BY <1>2 DEF RunsFinal, TypeInv, TypeOK
<1>3. ASSUME NEW w \in Workers, InsertRun(w) \/ SettleRun(w) \/ FailRun(w)
      PROVE  RunsFinal
    <2>1. exec[w].run \in RunIds
        BY <1>3 DEF InsertRun, SettleRun, FailRun, TypeInv, ThreadOK, Fits, HasRun, InsideTry
    <2>2. QED BY <1>1, <1>2, <1>3, <2>1 DEF InsertRun, SettleRun, FailRun, Terminal
<1>4. ASSUME NEW w \in Workers, PublishArtifact(w) PROVE RunsFinal
    <2>1. PICK r \in RunIds : r = exec[w].run
        BY <1>4 DEF PublishArtifact, TypeInv, ThreadOK, Fits, HasRun, InsideTry
    <2>2. CASE \E u : runs' = [runs EXCEPT ![r].artifacts = u]
        <3>1. PICK u : runs' = [runs EXCEPT ![r].artifacts = u]
            BY <2>2
        <3>2. runs[r] \in RunRows /\ runs'[r] = [runs[r] EXCEPT !.artifacts = u]
            BY <3>1 DEF TypeInv, TypeOK
        <3>3. runs'[r].status = runs[r].status
            BY <3>2 DEF RunRows
        <3>4. QED BY <3>1, <3>3 DEF RunsFinal, TypeInv, TypeOK
    <2>3. QED BY <1>1, <1>4, <2>1, <2>2 DEF PublishArtifact
<1>5. ASSUME NEW w \in Workers, ThreadStep(w) PROVE RunsFinal
    BY <1>1, <1>3, <1>4, <1>5
    DEF ThreadStep, RunStep, Announce, ReadMarket, SizeUnivariate, LookupRun, FetchRun,
        LoadCheckpoint, OpenProgress, ComputeStep, ReportProgress, FinishCompute,
        DeleteCheckpoint, TopProgress, FinalProgress, ClaimJob, ClaimConflict, LinkCheck,
        LinkWrite, FinishCheck, FinishWrite, CompleteFailed, Forget, dbVars
<1>6. ASSUME NEW w \in Workers, HttpStep(w) \/ ProcessStep(w) PROVE RunsFinal
    BY <1>1, <1>6
    DEF HttpStep, CreateOrGetActiveJob, Submit, ProcessStep, StartJob, LoseCompletion,
        RaiseError, BeginClose, Exit, Crash, Restart, dbVars
<1>7. QED BY <1>1, <1>5, <1>6 DEF Next, HeartbeatExpires, MarketRefresh, dbVars

\* A row that keeps its input and its name, and does not become succeeded.
LEMMA KeepJob ==
    ASSUME TypeInv, LinksOK, RunsFinal, NEW j \in Jobs,
           jobs'[j].run = jobs[j].run, jobs'[j].input = jobs[j].input,
           jobs'[j].status = "succeeded" => jobs[j].status = "succeeded"
    PROVE  JobOK(j)'
<1>1. JobOK(j) /\ jobs[j].run \in RunIds \cup {NoRun}
    BY DEF LinksOK, TypeInv, TypeOK, JobRows
<1>2. jobs[j].run # NoRun => runs'[jobs[j].run].status = runs[jobs[j].run].status
    BY <1>1 DEF JobOK, RunsFinal
<1>3. QED BY <1>1, <1>2 DEF JobOK

\* One row is rewritten.
LEMMA RewriteJob ==
    ASSUME TypeInv, LinksOK, RunsFinal, NEW j \in Jobs, JobOK(j)',
           \A k \in Jobs \ {j} : jobs'[k] = jobs[k]
    PROVE  \A k \in Jobs : JobOK(k)'
<1>1. ASSUME NEW k \in Jobs \ {j} PROVE JobOK(k)'
    BY <1>1, KeepJob
<1>2. QED BY <1>1

\* The jobs' side of a progress write.
LEMMA ProgressJobs ==
    ASSUME TypeInv, LinksOK, RunsFinal, NEW w \in Workers, NEW c, NEW t, NEW p, Busy(exec[w]),
           UpdateJobProgress(w, c, t, p)
    PROVE  /\ \A k \in Jobs : JobOK(k)'
           /\ \A k \in Jobs : jobs'[k].run = jobs[k].run
<1>1. PICK j \in Jobs : j = exec[w].job
    BY DEF TypeInv, ThreadOK, Fits, Busy
<1>2. CASE jobs' = [jobs EXCEPT ![j].current = c, ![j].total = t, ![j].stale = FALSE]
    <2>1. jobs'[j] = [jobs[j] EXCEPT !.current = c, !.total = t, !.stale = FALSE]
        BY <1>1, <1>2 DEF TypeInv, TypeOK
    <2>2. jobs[j] \in JobRows
        BY DEF TypeInv, TypeOK
    <2>3. /\ jobs'[j].run = jobs[j].run /\ jobs'[j].input = jobs[j].input
          /\ jobs'[j].status = jobs[j].status
        BY <2>1, <2>2 DEF JobRows
    <2>4. \A k \in Jobs \ {j} : jobs'[k] = jobs[k]
        BY <1>2 DEF TypeInv, TypeOK
    <2>5. QED BY <2>3, <2>4, KeepJob, RewriteJob
<1>3. CASE UNCHANGED jobs
    BY <1>3, KeepJob
<1>4. QED BY <1>1, <1>2, <1>3 DEF UpdateJobProgress

\* The jobs' side of a thread's steps.
LEMMA ThreadJobs ==
    ASSUME TypeInv, Ownership, LinksOK, RunsFinal, NEW w \in Workers,
           ThreadStep(w) \/ LoseCompletion(w) \/ RaiseError(w)
    PROVE  (\A k \in Jobs : JobOK(k)') /\ NamesKept(w)
<1> USE DEF At
<1>1. CASE jobs' = jobs
    BY <1>1, KeepJob DEF NamesKept
<1>2. CASE Announce(w) \/ SizeUnivariate(w) \/ OpenProgress(w) \/ ReportProgress(w)
           \/ TopProgress(w) \/ FinalProgress(w)
    <2>1. PICK c, t, p : UpdateJobProgress(w, c, t, p) /\ Busy(exec[w])
        BY <1>2 DEF Announce, SizeUnivariate, OpenProgress, ReportProgress, TopProgress,
                    FinalProgress, Busy
    <2>2. \A v \in Workers : Busy(exec[v]) => exec[v].job \in Jobs
        BY DEF TypeInv, ThreadOK, Fits, Busy
    <2>3. QED BY <2>1, <2>2, ProgressJobs DEF NamesKept
<1>3. CASE ClaimJob(w)
    <2>1. PICK j : j = Head(queue[w])
        OBVIOUS
    <2>2. j \in Jobs /\ jobs[j] \in JobRows
        BY <1>3, <2>1, HeadTailProperties DEF ClaimJob, TypeInv, TypeOK
    <2>3. jobs'[j] = [jobs[j] EXCEPT !.status = "running", !.attempt = jobs[j].attempt + 1,
                                     !.current = 0, !.total = NoTotal, !.stale = FALSE]
        BY <1>3, <2>1, <2>2 DEF ClaimJob, TypeInv, TypeOK, JobRows
    <2>4. /\ jobs'[j].run = jobs[j].run /\ jobs'[j].input = jobs[j].input
          /\ jobs'[j].status = "running"
        BY <2>2, <2>3 DEF JobRows
    <2>5. \A k \in Jobs \ {j} : jobs'[k] = jobs[k]
        BY <1>3, <2>1 DEF ClaimJob, TypeInv, TypeOK
    <2>6. \A k \in Jobs : JobOK(k)'
        BY <2>2, <2>4, <2>5, KeepJob, RewriteJob
    <2>7. \A v \in Workers : Busy(exec[v]) => exec[v].job \in Jobs
        BY DEF TypeInv, ThreadOK, Fits, Busy
    <2>8. QED BY <2>4, <2>5, <2>6, <2>7 DEF NamesKept
<1>4. CASE (LinkWrite(w) \/ FinishWrite(w) \/ CompleteFailed(w)) /\ jobs' # jobs
    <2>1. PICK j \in Jobs : j = exec[w].job
        BY <1>4 DEF LinkWrite, FinishWrite, CompleteFailed, TypeInv, ThreadOK, Fits
    <2>2. jobs[j] \in JobRows /\ Busy(exec[w]) /\ JobOK(j) /\ LinkOK(exec[w])
        BY <1>4 DEF LinkWrite, FinishWrite, CompleteFailed, TypeInv, TypeOK, Busy, LinksOK
    <2>3. \A k \in Jobs \ {j} : jobs'[k] = jobs[k]
        BY <1>4, <2>1 DEF LinkWrite, FinishWrite, CompleteFailed, TypeInv, TypeOK
    <2>4. NamesKept(w)
        <3>1. \A v \in Workers \ {w} : Busy(exec[v]) => exec[v].job \in Jobs \ {j}
            BY <2>1, <2>2 DEF Ownership, Exclusive, TypeInv, ThreadOK, Fits, Busy
        <3>2. QED BY <2>3, <3>1 DEF NamesKept
    <2>5. JobOK(j)'
        <3>1. CASE LinkWrite(w)
            <4>1. PICK r \in RunIds : r = exec[w].run /\ r.input = jobs[j].input
                                     /\ runs[r].status \in Terminal
                BY <2>1, <2>2, <3>1 DEF LinkWrite, TypeInv, ThreadOK, Fits, HasRun, LinkOK
            <4>2. jobs'[j] = [jobs[j] EXCEPT !.run = r] /\ jobs[j].status \in Active
                BY <1>4, <2>1, <3>1, <4>1 DEF LinkWrite, Row, TypeInv, TypeOK
            <4>3. /\ jobs'[j].run = r /\ jobs'[j].input = jobs[j].input
                  /\ jobs'[j].status # "succeeded"
                BY <2>2, <4>2 DEF JobRows, Active
            <4>4. runs'[r].status \in Terminal
                BY <4>1 DEF RunsFinal
            <4>5. QED BY <4>1, <4>3, <4>4 DEF JobOK
        <3>2. CASE FinishWrite(w)
            <4>1. jobs[j].run # NoRun /\ runs[jobs[j].run].status = "succeeded"
                BY <2>1, <2>2, <3>2 DEF FinishWrite, LinkOK
            <4>2. jobs[j].run \in RunIds
                BY <2>2, <4>1 DEF JobRows
            <4>3. runs'[jobs[j].run].status = "succeeded"
                BY <4>1, <4>2 DEF RunsFinal, Terminal
            <4>4. jobs'[j] = [jobs[j] EXCEPT !.status = "succeeded"]
                BY <1>4, <2>1, <3>2 DEF FinishWrite, TypeInv, TypeOK
            <4>5. jobs'[j].run = jobs[j].run /\ jobs'[j].input = jobs[j].input
                BY <2>2, <4>4 DEF JobRows
            <4>6. QED BY <2>2, <4>1, <4>3, <4>5 DEF JobOK, Terminal
        <3>3. CASE CompleteFailed(w)
            <4>1. jobs'[j] = [jobs[j] EXCEPT !.status = "failed"]
                BY <1>4, <2>1, <3>3 DEF CompleteFailed, TypeInv, TypeOK
            <4>2. /\ jobs'[j].run = jobs[j].run /\ jobs'[j].input = jobs[j].input
                  /\ jobs'[j].status = "failed"
                BY <2>2, <4>1 DEF JobRows
            <4>3. QED BY <4>2, KeepJob
        <3>4. QED BY <1>4, <3>1, <3>2, <3>3
    <2>6. QED BY <2>3, <2>4, <2>5, RewriteJob
<1>5. QED BY <1>1, <1>2, <1>3, <1>4
          DEF ThreadStep, RunStep, ReadMarket, LookupRun, InsertRun, FetchRun, LoadCheckpoint,
              ComputeStep, FinishCompute, PublishArtifact, DeleteCheckpoint, SettleRun, FailRun,
              ClaimConflict, LinkCheck, FinishCheck, Forget, LoseCompletion, RaiseError, dbVars

\* The jobs' side of the other steps.
LEMMA OtherJobs ==
    ASSUME TypeInv, LinksOK, RunsFinal,
           \/ \E w \in Workers : \/ \E i \in Inputs : StartJob(w, i)
                                \/ HttpStep(w) \/ BeginClose(w) \/ Exit(w) \/ Crash(w) \/ Restart(w)
           \/ \E j \in Jobs : HeartbeatExpires(j)
           \/ MarketRefresh
    PROVE  /\ \A k \in Jobs : JobOK(k)'
           /\ \A v \in Workers : Busy(exec[v]) => jobs'[exec[v].job].run = jobs[exec[v].job].run
<1> USE DEF dbVars, httpVars
<1>1. \A v \in Workers : Busy(exec[v]) => exec[v].job \in Jobs
                                         /\ jobs[exec[v].job].status # "absent"
    BY DEF TypeInv, ThreadOK, Fits, Busy
<1>2. CASE jobs' = jobs
    BY <1>2, KeepJob
<1>3. ASSUME NEW j \in Jobs, HeartbeatExpires(j)
      PROVE  /\ \A k \in Jobs : JobOK(k)'
             /\ \A k \in Jobs : jobs'[k].run = jobs[k].run
    <2>1. jobs'[j] = [jobs[j] EXCEPT !.stale = TRUE] /\ jobs[j] \in JobRows
        BY <1>3 DEF HeartbeatExpires, TypeInv, TypeOK
    <2>2. /\ jobs'[j].run = jobs[j].run /\ jobs'[j].input = jobs[j].input
          /\ jobs'[j].status = jobs[j].status
        BY <2>1 DEF JobRows
    <2>3. \A k \in Jobs \ {j} : jobs'[k] = jobs[k]
        BY <1>3 DEF HeartbeatExpires, TypeInv, TypeOK
    <2>4. QED BY <2>2, <2>3, KeepJob, RewriteJob
<1>4. ASSUME NEW w \in Workers, NEW i \in Inputs, NEW j \in Jobs, CreateOrGetActiveJob(w, i, j),
             jobs' # jobs
      PROVE  /\ \A k \in Jobs : JobOK(k)'
             /\ \A k \in Jobs \ {j} : jobs'[k] = jobs[k]
             /\ jobs[j].status = "absent"
    <2>1. jobs'[j] = [NoRow EXCEPT !.status = "queued", !.input = i]
        BY <1>4 DEF CreateOrGetActiveJob, TypeInv, TypeOK
    <2>2. jobs'[j].run = NoRun /\ jobs'[j].status = "queued"
        BY <2>1 DEF NoRow
    <2>3. JobOK(j)'
        BY <2>2 DEF JobOK
    <2>4. (\A k \in Jobs \ {j} : jobs'[k] = jobs[k]) /\ jobs[j].status = "absent"
        BY <1>4 DEF CreateOrGetActiveJob, TypeInv, TypeOK
    <2>5. QED BY <2>3, <2>4, RewriteJob
<1>5. CASE \E w \in Workers, i \in Inputs, j \in Jobs : CreateOrGetActiveJob(w, i, j)
    <2>1. PICK w \in Workers, i \in Inputs, j \in Jobs : CreateOrGetActiveJob(w, i, j)
        BY <1>5
    <2>2. CASE jobs' # jobs
        <3>1. /\ \A k \in Jobs : JobOK(k)'
              /\ \A k \in Jobs \ {j} : jobs'[k] = jobs[k]
              /\ jobs[j].status = "absent"
            BY <1>4, <2>1, <2>2
        <3>2. QED BY <1>1, <3>1
    <2>3. QED BY <1>2, <2>2
<1>6. QED BY <1>1, <1>2, <1>3, <1>5
          DEF HttpStep, StartJob, Submit, BeginClose, Exit, Crash, Restart, MarketRefresh

-----------------------------------------------------------------------------
\* When one thread's record is replaced, only the new record has to be looked at.
LEMMA ReplaceLink ==
    ASSUME TypeInv, LinksOK, RunsFinal, \A k \in Jobs : JobOK(k)', NEW w \in Workers,
           NamesKept(w), NEW t, exec' = [exec EXCEPT ![w] = t], LinkOK(t)'
    PROVE  LinksOK'
<1>1. ASSUME NEW v \in Workers PROVE LinkOK(exec[v])'
    <2>1. CASE v = w
        BY <2>1 DEF TypeInv, TypeOK, LinkOK
    <2>2. CASE v # w
        <3>1. exec'[v] = exec[v] /\ LinkOK(exec[v])
            BY <2>2 DEF TypeInv, TypeOK, LinksOK
        <3>2. exec[v].pc \in {"linkCheck", "linkWrite", "finishCheck", "final"}
                  => exec[v].run \in RunIds
            BY DEF TypeInv, ThreadOK, Fits, HasRun, InsideTry
        <3>3. CASE exec[v].pc = "finishWrite"
            <4>1. exec[v].job \in Jobs /\ Busy(exec[v])
                BY <3>3 DEF TypeInv, ThreadOK, Fits, Busy
            <4>2. jobs'[exec[v].job].run = jobs[exec[v].job].run
                BY <2>2, <4>1 DEF NamesKept
            <4>3. jobs[exec[v].job].run \in RunIds /\ runs[jobs[exec[v].job].run].status = "succeeded"
                BY <3>1, <3>3, <4>1 DEF LinkOK, TypeInv, TypeOK, JobRows
            <4>4. QED BY <3>1, <3>3, <4>2, <4>3 DEF LinkOK, RunsFinal, Terminal
        <3>4. CASE exec[v].pc # "finishWrite"
            BY <3>1, <3>2, <3>4 DEF LinkOK, RunsFinal, Terminal
        <3>5. QED BY <3>3, <3>4
    <2>3. QED BY <2>1, <2>2
<1>2. QED BY <1>1 DEF LinksOK

\* What a thread's step may assume: its own row and its own run are settled.
Settled(w) == /\ TypeInv /\ LinksOK /\ RunsFinal /\ NamesKept(w)
              /\ \A k \in Jobs : JobOK(k)'

\* Locations that know nothing of the run's end.
Linking == {"linkCheck", "linkWrite", "finishCheck", "final", "finishWrite"}

\* A move to a location that knows of it.
LEMMA LinkMove ==
    ASSUME NEW w \in Workers, Settled(w), NEW p \in Linking, Goto(w, p),
           p \in {"linkCheck", "linkWrite", "finishCheck"} => runs'[exec[w].run].status \in Terminal,
           p = "final" => runs'[exec[w].run].status = "succeeded",
           p = "finishWrite" => /\ jobs'[exec[w].job].run # NoRun
                                /\ runs'[jobs'[exec[w].job].run].status = "succeeded"
    PROVE  LinksOK'
<1>1. PICK t : t = [exec[w] EXCEPT !.pc = p]
    OBVIOUS
<1>2. exec' = [exec EXCEPT ![w] = t]
    BY <1>1 DEF Goto
<1>3. t.pc = p /\ t.job = exec[w].job /\ t.run = exec[w].run
    BY <1>1 DEF Settled, TypeInv, TypeOK, Threads
<1>4. LinkOK(t)'
    BY <1>3 DEF LinkOK
<1>5. QED BY <1>2, <1>4, ReplaceLink DEF Settled

\* Giving up, being done and being idle.
LEMMA FreeGoto ==
    ASSUME NEW w \in Workers, Settled(w), NEW p, NEW j,
           \/ Goto(w, p) /\ p \notin Linking
           \/ GiveUp(w)
           \/ exec' = [exec EXCEPT ![w] = [Idle EXCEPT !.pc = "done", !.job = j]]
           \/ exec' = [exec EXCEPT ![w] = Idle]
    PROVE  LinksOK'
<1>1. CASE Goto(w, p) /\ p \notin Linking
    <2>1. PICK t : t = [exec[w] EXCEPT !.pc = p]
        OBVIOUS
    <2>2. exec' = [exec EXCEPT ![w] = t] /\ t.pc = p
        BY <1>1, <2>1 DEF Goto, Settled, TypeInv, TypeOK, Threads
    <2>3. LinkOK(t)'
        BY <1>1, <2>2 DEF LinkOK, Linking
    <2>4. QED BY <2>2, <2>3, ReplaceLink DEF Settled
<1>2. CASE GiveUp(w)
    <2>1. PICK t : t = [Idle EXCEPT !.pc = "giveUp", !.job = exec[w].job, !.attempt = exec[w].attempt]
        OBVIOUS
    <2>2. exec' = [exec EXCEPT ![w] = t] /\ t.pc = "giveUp"
        BY <1>2, <2>1 DEF GiveUp, Idle
    <2>3. LinkOK(t)'
        BY <2>2 DEF LinkOK
    <2>4. QED BY <2>2, <2>3, ReplaceLink DEF Settled
<1>3. CASE exec' = [exec EXCEPT ![w] = [Idle EXCEPT !.pc = "done", !.job = j]]
    <2>1. PICK t : t = [Idle EXCEPT !.pc = "done", !.job = j]
        OBVIOUS
    <2>2. exec' = [exec EXCEPT ![w] = t] /\ t.pc = "done"
        BY <1>3, <2>1 DEF Idle
    <2>3. LinkOK(t)'
        BY <2>2 DEF LinkOK
    <2>4. QED BY <2>2, <2>3, ReplaceLink DEF Settled
<1>4. CASE exec' = [exec EXCEPT ![w] = Idle]
    <2>1. LinkOK(Idle)'
        BY DEF LinkOK, Idle
    <2>2. QED BY <1>4, <2>1, ReplaceLink DEF Settled
<1>5. QED BY <1>1, <1>2, <1>3, <1>4

\* A progress write, accepted or refused.
LEMMA ProgressLink ==
    ASSUME NEW w \in Workers, Settled(w), NEW c, NEW t, NEW p, UpdateJobProgress(w, c, t, p),
           p \in Linking => p = "linkCheck" /\ exec[w].pc = "final"
    PROVE  LinksOK'
<1>1. CASE Goto(w, p) /\ p \in Linking
    <2>1. exec[w].run \in RunIds /\ runs[exec[w].run].status = "succeeded"
        BY <1>1 DEF Settled, TypeInv, ThreadOK, Fits, HasRun, InsideTry, LinksOK, LinkOK
    <2>2. runs'[exec[w].run].status \in Terminal
        BY <2>1 DEF Settled, RunsFinal, Terminal
    <2>3. QED BY <1>1, <2>2, LinkMove
<1>2. CASE Goto(w, p) /\ p \notin Linking
    BY <1>2, FreeGoto
<1>3. CASE Goto(w, "failRun") \/ GiveUp(w)
    <2>1. "failRun" \notin Linking
        BY DEF Linking
    <2>2. QED BY <1>3, <2>1, FreeGoto
<1>4. QED BY <1>1, <1>2, <1>3 DEF UpdateJobProgress

\* The thread's side of its steps.
LEMMA ThreadLinks ==
    ASSUME NEW w \in Workers, Settled(w), ThreadStep(w) \/ LoseCompletion(w) \/ RaiseError(w)
    PROVE  LinksOK'
<1> USE DEF At
<1>1. exec[w] \in Threads /\ LinkOK(exec[w]) /\ \A r \in RunIds :
          runs[r].status \in Terminal => runs'[r].status = runs[r].status
    BY DEF Settled, TypeInv, TypeOK, LinksOK, RunsFinal
<1>2. exec[w].pc \in HasRun => exec[w].run \in RunIds
    BY DEF Settled, TypeInv, ThreadOK, Fits
<1>3. CASE Announce(w) \/ SizeUnivariate(w) \/ OpenProgress(w) \/ ReportProgress(w)
           \/ TopProgress(w) \/ FinalProgress(w)
    <2>1. PICK c, t, p : /\ UpdateJobProgress(w, c, t, p)
                         /\ p \in Linking => p = "linkCheck" /\ exec[w].pc = "final"
        BY <1>3 DEF Announce, SizeUnivariate, OpenProgress, ReportProgress, TopProgress,
                    FinalProgress, Linking
    <2>2. QED BY <2>1, ProgressLink
<1>4. CASE LookupRun(w) \/ InsertRun(w) \/ FinishCompute(w) \/ DeleteCheckpoint(w) \/ FailRun(w)
           \/ RaiseError(w)
    <2>1. GiveUp(w) \/ \E p : Goto(w, p) /\ p \notin Linking
        BY <1>4 DEF LookupRun, InsertRun, FinishCompute, DeleteCheckpoint, FailRun, RaiseError,
                    Linking
    <2>2. QED BY <2>1, FreeGoto
<1>5. CASE ClaimConflict(w) \/ FinishWrite(w) \/ CompleteFailed(w) \/ LoseCompletion(w) \/ Forget(w)
    BY <1>5, FreeGoto DEF ClaimConflict, FinishWrite, CompleteFailed, LoseCompletion, Forget
<1>6. CASE ClaimJob(w)
    <2>1. PICK j, a, p : /\ p \in {"read", "announce"}
                         /\ exec' = [exec EXCEPT ![w] = [Idle EXCEPT !.pc = p, !.job = j, !.attempt = a]]
        BY <1>6 DEF ClaimJob
    <2>2. PICK t : t = [Idle EXCEPT !.pc = p, !.job = j, !.attempt = a]
        OBVIOUS
    <2>3. t.pc = p
        BY <2>2 DEF Idle
    <2>4. LinkOK(t)'
        BY <2>1, <2>3 DEF LinkOK
    <2>5. QED BY <2>1, <2>2, <2>4, ReplaceLink DEF Settled
<1>7. CASE ReadMarket(w) \/ LoadCheckpoint(w) \/ ComputeStep(w)
    <2>1. PICK t : t = exec'[w]
        OBVIOUS
    <2>2. exec' = [exec EXCEPT ![w] = t] /\ t.pc \notin Linking
        <3> USE <1>1, <2>1 DEF Settled, TypeInv, TypeOK, Threads, Linking
        <3>1. CASE ReadMarket(w)
            BY <3>1 DEF ReadMarket
        <3>2. CASE LoadCheckpoint(w)
            BY <3>2 DEF LoadCheckpoint
        <3>3. CASE ComputeStep(w)
            <4>1. PICK n : exec' = [exec EXCEPT ![w].pc = "report", ![w].step = n]
                BY <3>3 DEF ComputeStep
            <4>2. QED BY <4>1
        <3>4. QED BY <1>7, <3>1, <3>2, <3>3
    <2>3. LinkOK(t)'
        BY <2>2 DEF LinkOK, Linking
    <2>4. QED BY <2>2, <2>3, ReplaceLink DEF Settled
<1>8. CASE PublishArtifact(w)
    <2>1. CASE Goto(w, "failRun")
        <3>1. "failRun" \notin Linking
            BY DEF Linking
        <3>2. QED BY <2>1, <3>1, FreeGoto
    <2>2. CASE ~Goto(w, "failRun")
        <3> DEFINE made == exec[w].made + 1
                   next == IF made < ArtifactCount[Input(w)] THEN "publish"
                           ELSE IF Stage(w) = "multivariate" THEN "drop" ELSE "top"
        <3>1. exec' = [exec EXCEPT ![w].pc = next, ![w].made = made]
            BY <1>8, <2>2 DEF PublishArtifact
        <3>2. next \in {"publish", "drop", "top"}
            OBVIOUS
        <3> HIDE DEF made, next
        <3>3. PICK t : t = [exec[w] EXCEPT !.pc = next, !.made = made]
            OBVIOUS
        <3>4. exec' = [exec EXCEPT ![w] = t] /\ t.pc \in {"publish", "drop", "top"}
            BY <1>1, <3>1, <3>2, <3>3 DEF Settled, TypeInv, TypeOK, Threads
        <3>5. LinkOK(t)'
            BY <3>4 DEF LinkOK
        <3>6. QED BY <3>4, <3>5, ReplaceLink DEF Settled
    <2>3. QED BY <2>1, <2>2
<1>9. CASE FetchRun(w)
    <2>1. CASE Goto(w, "linkCheck") /\ runs[exec[w].run].status \in Terminal
        BY <1>1, <1>2, <1>9, <2>1, LinkMove DEF FetchRun, HasRun, Linking
    <2>2. CASE \E p \in {"compute", "open", "load"} : Goto(w, p)
        BY <2>2, FreeGoto DEF Linking
    <2>3. ASSUME NEW n, exec' = [exec EXCEPT ![w].pc = "lookup", ![w].run.nonce = n]
          PROVE  LinksOK'
        <3>1. PICK r : r = [exec[w].run EXCEPT !.nonce = n]
            OBVIOUS
        <3>2. PICK t : t = [exec[w] EXCEPT !.pc = "lookup", !.run = r]
            OBVIOUS
        <3>3. exec' = [exec EXCEPT ![w] = t] /\ t.pc = "lookup"
            BY <1>1, <2>3, <3>1, <3>2 DEF Settled, TypeInv, TypeOK, Threads
        <3>4. LinkOK(t)'
            BY <3>3 DEF LinkOK
        <3>5. QED BY <3>3, <3>4, ReplaceLink DEF Settled
    <2>4. Stage(w) \in Stages
        BY <1>9, StageAssumption
        DEF FetchRun, Settled, TypeInv, TypeOK, ThreadOK, Fits, JobRows, Stage, Input, Row
    <2>5. QED BY <1>9, <2>1, <2>2, <2>3, <2>4 DEF FetchRun, Stages
<1>10. CASE SettleRun(w)
    <2>1. CASE Goto(w, "failRun")
        <3>1. "failRun" \notin Linking
            BY DEF Linking
        <3>2. QED BY <2>1, <3>1, FreeGoto
    <2>2. CASE /\ runs' = [runs EXCEPT ![exec[w].run].status = "succeeded"]
               /\ Goto(w, "final") \/ Goto(w, "linkCheck")
        <3>1. exec[w].run \in RunIds /\ runs[exec[w].run] \in RunRows
            BY <1>2, <1>10 DEF SettleRun, HasRun, InsideTry, Settled, TypeInv, TypeOK
        <3>2. runs'[exec[w].run].status = "succeeded"
            BY <2>2, <3>1 DEF Settled, TypeInv, TypeOK, RunRows
        <3>3. QED BY <2>2, <3>2, LinkMove DEF Linking, Terminal
    <2>3. QED BY <1>10, <2>1, <2>2 DEF SettleRun
<1>11. CASE LinkCheck(w) \/ LinkWrite(w)
    <2>1. runs'[exec[w].run].status \in Terminal
        BY <1>1, <1>2, <1>11 DEF LinkCheck, LinkWrite, LinkOK, HasRun
    <2>2. QED BY <1>11, <2>1, LinkMove, FreeGoto DEF LinkCheck, LinkWrite, Linking
<1>12. CASE FinishCheck(w)
    <2>1. CASE GiveUp(w)
        BY <2>1, FreeGoto
    <2>2. CASE ~GiveUp(w)
        <3>1. /\ Goto(w, "finishWrite") /\ UNCHANGED jobs
              /\ jobs[exec[w].job].run # NoRun
              /\ runs[jobs[exec[w].job].run].status = "succeeded"
            BY <1>12, <2>2 DEF FinishCheck, Row, dbVars
        <3>2. jobs[exec[w].job].run \in RunIds
            BY <1>12, <3>1 DEF FinishCheck, Settled, TypeInv, TypeOK, ThreadOK, Fits, JobRows
        <3>3. runs'[jobs[exec[w].job].run].status = "succeeded"
            BY <1>1, <3>1, <3>2 DEF Terminal
        <3>4. QED BY <3>1, <3>3, LinkMove DEF Linking
    <2>3. QED BY <2>1, <2>2
<1>13. QED BY <1>3, <1>4, <1>5, <1>6, <1>7, <1>8, <1>9, <1>10, <1>11, <1>12 DEF ThreadStep, RunStep

\* Every step.
LEMMA StepLinks == ASSUME TypeInv, Ownership, LinksOK, Next PROVE LinksOK'
<1>1. RunsFinal
    BY KeepRuns
<1>2. ASSUME NEW w \in Workers, ThreadStep(w) \/ LoseCompletion(w) \/ RaiseError(w)
      PROVE  LinksOK'
    <2>1. Settled(w)
        BY <1>1, <1>2, ThreadJobs DEF Settled
    <2>2. QED BY <1>2, <2>1, ThreadLinks
<1>3. ASSUME NEW w \in Workers, Crash(w) PROVE LinksOK'
    <2>1. Settled(w)
        BY <1>1, <1>3, OtherJobs DEF Settled, NamesKept
    <2>2. QED BY <1>3, <2>1, FreeGoto DEF Crash
<1>4. ASSUME exec' = exec, \A k \in Jobs : JobOK(k)',
             \A v \in Workers : Busy(exec[v]) => jobs'[exec[v].job].run = jobs[exec[v].job].run
      PROVE  LinksOK'
    <2>1. ASSUME NEW w \in Workers PROVE LinksOK'
        <3>1. PICK t : t = exec[w]
            OBVIOUS
        <3>2. exec' = [exec EXCEPT ![w] = t]
            BY <1>4, <3>1 DEF TypeInv, TypeOK
        <3>3. LinkOK(t)
            BY <3>1 DEF LinksOK
        <3>4. t.pc \in Linking \ {"finishWrite"} => t.run \in RunIds
            BY <3>1 DEF TypeInv, ThreadOK, Fits, HasRun, InsideTry, Linking
        <3>5. t.pc = "finishWrite" => /\ jobs'[t.job].run = jobs[t.job].run
                                      /\ jobs[t.job].run \in RunIds
            BY <1>4, <3>1, <3>3 DEF TypeInv, TypeOK, ThreadOK, Fits, Busy, LinkOK, JobRows
        <3>6. LinkOK(t)'
            BY <1>1, <3>3, <3>4, <3>5 DEF LinkOK, RunsFinal, Linking, Terminal
        <3>7. NamesKept(w)
            BY <1>4 DEF NamesKept
        <3>8. QED BY <1>1, <1>4, <3>2, <3>6, <3>7, ReplaceLink
    <2>2. QED BY <1>4, <2>1 DEF LinksOK
<1>5. CASE \E w \in Workers : \/ \E i \in Inputs : StartJob(w, i)
                              \/ HttpStep(w) \/ BeginClose(w) \/ Exit(w) \/ Restart(w)
    <2>1. exec' = exec
        BY <1>5 DEF StartJob, HttpStep, CreateOrGetActiveJob, Submit, BeginClose, Exit, Restart
    <2>2. /\ \A k \in Jobs : JobOK(k)'
          /\ \A v \in Workers : Busy(exec[v]) => jobs'[exec[v].job].run = jobs[exec[v].job].run
        BY <1>1, <1>5, OtherJobs
    <2>3. QED BY <1>4, <2>1, <2>2
<1>6. CASE (\E j \in Jobs : HeartbeatExpires(j)) \/ MarketRefresh
    BY <1>1, <1>4, <1>6, OtherJobs DEF HeartbeatExpires, MarketRefresh
<1>7. QED BY <1>2, <1>3, <1>5, <1>6 DEF Next, ProcessStep

-----------------------------------------------------------------------------
\* The parts up to here hold together.
THEOREM LinksInvariant == ASSUME ~SlowPhases PROVE Spec => [](TypeInv /\ Ownership /\ LinksOK)
<1>1. Init => LinksOK
    <2>1. Init => \A j \in Jobs : jobs[j].run = NoRun /\ jobs[j].status = "absent"
        BY DEF Init, NoRow
    <2>2. Init => \A w \in Workers : exec[w].pc = "idle"
        BY DEF Init, Idle
    <2>3. QED BY <2>1, <2>2 DEF LinksOK, JobOK, LinkOK
<1>2. TypeInv /\ Ownership /\ LinksOK /\ [Next]_vars => LinksOK'
    <2>1. ASSUME LinksOK, UNCHANGED vars PROVE LinksOK'
        BY <2>1 DEF LinksOK, JobOK, LinkOK, vars
    <2>2. QED BY <2>1, StepLinks
<1>3. QED BY <1>1, <1>2, OwnershipInvariant, PTL DEF Spec

\* A job that reports success names a succeeded run of its own input, for every
\* number of processes, crashes and restarts, although complete_job's check and its
\* update are two transactions.
THEOREM SucceededJobsHaveSucceededRuns ==
    ASSUME ~SlowPhases PROVE Spec => []SucceededJobHasSucceededRun
<1>1. TypeInv /\ LinksOK => SucceededJobHasSucceededRun
    <2>1. TypeInv => \A j \in Jobs : jobs[j].run \in RunIds \cup {NoRun}
        BY DEF TypeInv, TypeOK, JobRows
    <2>2. QED BY <2>1 DEF LinksOK, JobOK, SucceededJobHasSucceededRun
<1>2. QED BY <1>1, LinksInvariant, PTL

-----------------------------------------------------------------------------
(***************************************************************************)
(* What one step writes, as a client of the two tables sees it.            *)
(***************************************************************************)
View(j) == [status |-> jobs[j].status, input |-> jobs[j].input,
            attempt |-> jobs[j].attempt, run |-> jobs[j].run]

\* One row and no other is rewritten, or one run.
Rewritten(j, v) == /\ runs' = runs /\ View(j)' = v
                   /\ \A k \in Jobs \ {j} : View(k)' = View(k)
Advanced(r, s)  == /\ runs'[r].status = s
                   /\ \A q \in RunIds \ {r} : runs'[q] = runs[q]
                   /\ \A k \in Jobs : View(k)' = View(k)

Quiet == runs' = runs /\ \A k \in Jobs : View(k)' = View(k)

Requested(j, i) ==
    /\ jobs[j].status = "absent" /\ ActiveJobs(i) = {}
    /\ Rewritten(j, [status |-> "queued", input |-> i, attempt |-> 0, run |-> NoRun])

Attempted(j) ==
    /\ jobs[j].status \in Active
    /\ Rewritten(j, [status |-> "running", input |-> jobs[j].input,
                     attempt |-> jobs[j].attempt + 1, run |-> jobs[j].run])

\* At the end of an attempt the thread writes the row it holds.
Concluded(w) ==
    LET j == exec[w].job IN
    \/ exec[w].pc = "linkWrite" /\ Rewritten(j, [View(j) EXCEPT !.run = exec[w].run])
    \/ exec[w].pc = "finishWrite" /\ Rewritten(j, [View(j) EXCEPT !.status = "succeeded"])
    \/ exec[w].pc = "giveUp" /\ Rewritten(j, [View(j) EXCEPT !.status = "failed"])

\* Before that it writes the run it works on.
Worked(w) ==
    LET r == exec[w].run IN
    \/ exec[w].pc = "insert" /\ runs[r].status = "absent" /\ Advanced(r, "running")
    \/ exec[w].pc = "settle" /\ runs[r].status = "running" /\ Advanced(r, "succeeded")
    \/ exec[w].pc = "failRun" /\ runs[r].status = "running" /\ Advanced(r, "failed")
    \/ exec[w].pc = "publish" /\ Advanced(r, runs[r].status)

OneWrite ==
    \/ Quiet
    \/ \E j \in Jobs : Attempted(j) \/ \E i \in Inputs : Requested(j, i)
    \/ \E w \in Workers : Busy(exec[w]) /\ (Concluded(w) \/ Worked(w))

\* A new status of one run.
LEMMA RunAdvances ==
    ASSUME TypeInv, NEW r \in RunIds, NEW s, UNCHANGED jobs,
           runs' = [runs EXCEPT ![r].status = s]
    PROVE  Advanced(r, s)
<1>1. runs'[r] = [runs[r] EXCEPT !.status = s] /\ runs[r] \in RunRows
    BY DEF TypeInv, TypeOK
<1>2. runs'[r].status = s
    BY <1>1 DEF RunRows
<1>3. \A q \in RunIds \ {r} : runs'[q] = runs[q]
    BY DEF TypeInv, TypeOK
<1>4. \A k \in Jobs : View(k)' = View(k)
    BY DEF View
<1>5. QED BY <1>2, <1>3, <1>4 DEF Advanced

\* A new row in place of one.
LEMMA RowRewritten ==
    ASSUME NEW j \in Jobs, NEW row, NEW v, jobs \in [Jobs -> JobRows], UNCHANGED runs,
           jobs' = [jobs EXCEPT ![j] = row],
           v = [status |-> row.status, input |-> row.input, attempt |-> row.attempt, run |-> row.run]
    PROVE  Rewritten(j, v)
BY DEF Rewritten, View

\* The steps inside a run write at most that run.
LEMMA RunStepWrites ==
    ASSUME TypeInv, NEW w \in Workers, RunStep(w)
    PROVE  Quiet \/ (Busy(exec[w]) /\ Worked(w))
<1> USE DEF At, dbVars
<1>1. CASE runs' = runs /\ jobs' = jobs
    BY <1>1 DEF Quiet, View
<1>2. CASE Announce(w) \/ SizeUnivariate(w) \/ OpenProgress(w) \/ ReportProgress(w)
           \/ TopProgress(w) \/ FinalProgress(w)
    <2>1. PICK c, t, p : UpdateJobProgress(w, c, t, p) /\ Busy(exec[w]) /\ runs' = runs
        BY <1>2 DEF Announce, SizeUnivariate, OpenProgress, ReportProgress, TopProgress,
                    FinalProgress, Busy
    <2>2. PICK j \in Jobs : j = exec[w].job
        BY <2>1 DEF TypeInv, ThreadOK, Fits, Busy
    <2>3. CASE jobs' = [jobs EXCEPT ![j].current = c, ![j].total = t, ![j].stale = FALSE]
        <3>1. jobs'[j] = [jobs[j] EXCEPT !.current = c, !.total = t, !.stale = FALSE]
            BY <2>3 DEF TypeInv, TypeOK
        <3>2. jobs[j] \in JobRows
            BY DEF TypeInv, TypeOK
        <3>3. View(j)' = View(j)
            BY <3>1, <3>2 DEF JobRows, View
        <3>4. \A k \in Jobs \ {j} : View(k)' = View(k)
            BY <2>3 DEF View, TypeInv, TypeOK
        <3>5. QED BY <2>1, <3>3, <3>4 DEF Quiet
    <2>4. QED BY <1>1, <2>1, <2>2, <2>3 DEF UpdateJobProgress
<1>3. CASE InsertRun(w) \/ SettleRun(w) \/ FailRun(w)
    <2>1. PICK r \in RunIds : r = exec[w].run
        BY <1>3 DEF InsertRun, SettleRun, FailRun, TypeInv, ThreadOK, Fits, HasRun, InsideTry
    <2>2. CASE InsertRun(w) /\ runs' # runs
        BY <2>1, <2>2, RunAdvances DEF InsertRun, Worked, Busy
    <2>3. CASE SettleRun(w) /\ runs' # runs
        BY <2>1, <2>3, RunAdvances DEF SettleRun, Worked, Busy
    <2>4. CASE FailRun(w) /\ runs' # runs
        BY <2>1, <2>4, RunAdvances DEF FailRun, Worked, Busy
    <2>5. QED BY <1>1, <1>3, <2>2, <2>3, <2>4 DEF InsertRun, SettleRun, FailRun
<1>4. CASE PublishArtifact(w)
    <2>1. PICK r \in RunIds : r = exec[w].run
        BY <1>4 DEF PublishArtifact, TypeInv, ThreadOK, Fits, HasRun, InsideTry
    <2>2. CASE \E u : runs' = [runs EXCEPT ![r].artifacts = u]
        <3>1. PICK u : runs' = [runs EXCEPT ![r].artifacts = u]
            BY <2>2
        <3>2. runs[r] \in RunRows /\ runs'[r] = [runs[r] EXCEPT !.artifacts = u]
            BY <3>1 DEF TypeInv, TypeOK
        <3>3. runs'[r].status = runs[r].status
            BY <3>2 DEF RunRows
        <3>4. \A q \in RunIds \ {r} : runs'[q] = runs[q]
            BY <3>1 DEF TypeInv, TypeOK
        <3>5. \A k \in Jobs : View(k)' = View(k)
            BY <1>4 DEF PublishArtifact, View
        <3>6. QED BY <1>4, <2>1, <3>3, <3>4, <3>5 DEF PublishArtifact, Advanced, Worked, Busy
    <2>3. QED BY <1>1, <1>4, <2>1, <2>2 DEF PublishArtifact
<1>5. QED BY <1>1, <1>2, <1>3, <1>4
          DEF RunStep, ReadMarket, LookupRun, FetchRun, LoadCheckpoint, ComputeStep,
              FinishCompute, DeleteCheckpoint

\* The other steps of a thread write at most the row of its job.
LEMMA ThreadWrites ==
    ASSUME TypeInv, NEW w \in Workers, ThreadStep(w)
    PROVE  OneWrite
<1> USE DEF At, dbVars
<1>1. CASE runs' = runs /\ jobs' = jobs
    BY <1>1 DEF Quiet, View, OneWrite
<1>2. CASE RunStep(w)
    BY <1>2, RunStepWrites DEF OneWrite
<1>3. CASE ClaimJob(w)
    <2>1. PICK j : j = Head(queue[w])
        OBVIOUS
    <2>2. j \in Jobs /\ jobs[j] \in JobRows
        BY <1>3, <2>1, HeadTailProperties DEF ClaimJob, TypeInv, TypeOK
    <2>3. PICK row : row = [jobs[j] EXCEPT !.status = "running", !.attempt = jobs[j].attempt + 1,
                                           !.current = 0, !.total = NoTotal, !.stale = FALSE]
        OBVIOUS
    <2>4. jobs' = [jobs EXCEPT ![j] = row] /\ jobs[j].status \in Active /\ UNCHANGED runs
        BY <1>3, <2>1, <2>2, <2>3 DEF ClaimJob, Claimable, Active, TypeInv, TypeOK, JobRows
    <2>5. /\ row.status = "running" /\ row.input = jobs[j].input
          /\ row.attempt = jobs[j].attempt + 1 /\ row.run = jobs[j].run
        BY <2>2, <2>3 DEF JobRows
    <2>6. Attempted(j)
        <3>1. PICK v : v = [status |-> row.status, input |-> row.input, attempt |-> row.attempt,
                            run |-> row.run]
            OBVIOUS
        <3>2. Rewritten(j, v)
            BY <2>2, <2>4, <3>1, RowRewritten DEF TypeInv, TypeOK
        <3>3. QED BY <2>4, <2>5, <3>1, <3>2 DEF Attempted
    <2>7. QED BY <2>2, <2>6 DEF OneWrite
<1>4. CASE (LinkWrite(w) \/ FinishWrite(w) \/ CompleteFailed(w)) /\ jobs' # jobs
    <2>1. PICK j \in Jobs : j = exec[w].job
        BY <1>4 DEF LinkWrite, FinishWrite, CompleteFailed, TypeInv, ThreadOK, Fits
    <2>2. jobs[j] \in JobRows /\ Busy(exec[w]) /\ UNCHANGED runs /\ jobs \in [Jobs -> JobRows]
        BY <1>4 DEF LinkWrite, FinishWrite, CompleteFailed, TypeInv, TypeOK, Busy
    <2>3. CASE LinkWrite(w)
        <3>1. PICK row : row = [jobs[j] EXCEPT !.run = exec[w].run]
            OBVIOUS
        <3>2. jobs' = [jobs EXCEPT ![j] = row] /\ exec[w].pc = "linkWrite"
            BY <1>4, <2>1, <2>2, <2>3, <3>1 DEF LinkWrite
        <3>3. [status |-> row.status, input |-> row.input, attempt |-> row.attempt, run |-> row.run]
                  = [View(j) EXCEPT !.run = exec[w].run]
            BY <2>2, <3>1 DEF View, JobRows
        <3>4. QED BY <2>1, <2>2, <3>2, <3>3, RowRewritten DEF Concluded, OneWrite
    <2>4. CASE FinishWrite(w)
        <3>1. PICK row : row = [jobs[j] EXCEPT !.status = "succeeded"]
            OBVIOUS
        <3>2. jobs' = [jobs EXCEPT ![j] = row] /\ exec[w].pc = "finishWrite"
            BY <1>4, <2>1, <2>2, <2>4, <3>1 DEF FinishWrite
        <3>3. [status |-> row.status, input |-> row.input, attempt |-> row.attempt, run |-> row.run]
                  = [View(j) EXCEPT !.status = "succeeded"]
            BY <2>2, <3>1 DEF View, JobRows
        <3>4. QED BY <2>1, <2>2, <3>2, <3>3, RowRewritten DEF Concluded, OneWrite
    <2>5. CASE CompleteFailed(w)
        <3>1. PICK row : row = [jobs[j] EXCEPT !.status = "failed"]
            OBVIOUS
        <3>2. jobs' = [jobs EXCEPT ![j] = row] /\ exec[w].pc = "giveUp"
            BY <1>4, <2>1, <2>2, <2>5, <3>1 DEF CompleteFailed
        <3>3. [status |-> row.status, input |-> row.input, attempt |-> row.attempt, run |-> row.run]
                  = [View(j) EXCEPT !.status = "failed"]
            BY <2>2, <3>1 DEF View, JobRows
        <3>4. QED BY <2>1, <2>2, <3>2, <3>3, RowRewritten DEF Concluded, OneWrite
    <2>6. QED BY <1>4, <2>3, <2>4, <2>5
<1>5. QED BY <1>1, <1>2, <1>3, <1>4
          DEF ThreadStep, ClaimConflict, LinkCheck, LinkWrite, FinishCheck, FinishWrite,
              CompleteFailed, Forget

\* Every step is one write or none.
LEMMA StepWrites == ASSUME TypeInv, Next PROVE OneWrite
<1> USE DEF dbVars, httpVars
<1>1. CASE runs' = runs /\ jobs' = jobs
    BY <1>1 DEF Quiet, View, OneWrite
<1>2. ASSUME NEW w \in Workers, NEW i \in Inputs, NEW j \in Jobs, CreateOrGetActiveJob(w, i, j)
      PROVE  OneWrite
    <2>1. PICK row : row = [NoRow EXCEPT !.status = "queued", !.input = i]
        OBVIOUS
    <2>2. CASE jobs' = [jobs EXCEPT ![j] = row] /\ jobs[j].status = "absent" /\ ActiveJobs(i) = {}
        <3>1. [status |-> row.status, input |-> row.input, attempt |-> row.attempt, run |-> row.run]
                  = [status |-> "queued", input |-> i, attempt |-> 0, run |-> NoRun]
            BY <2>1 DEF NoRow
        <3>2. Requested(j, i)
            BY <1>2, <2>2, <3>1, RowRewritten
            DEF CreateOrGetActiveJob, Requested, TypeInv, TypeOK
        <3>3. QED BY <3>2 DEF OneWrite
    <2>3. QED BY <1>1, <1>2, <2>1, <2>2 DEF CreateOrGetActiveJob
<1>3. ASSUME NEW j \in Jobs, HeartbeatExpires(j) PROVE OneWrite
    <2>1. jobs'[j] = [jobs[j] EXCEPT !.stale = TRUE] /\ jobs[j] \in JobRows
        BY <1>3 DEF HeartbeatExpires, TypeInv, TypeOK
    <2>2. View(j)' = View(j)
        BY <2>1 DEF JobRows, View
    <2>3. \A k \in Jobs \ {j} : View(k)' = View(k)
        BY <1>3 DEF HeartbeatExpires, TypeInv, TypeOK, View
    <2>4. QED BY <1>3, <2>2, <2>3 DEF HeartbeatExpires, Quiet, OneWrite
<1>4. QED BY <1>1, <1>2, <1>3, ThreadWrites
          DEF Next, HttpStep, ProcessStep, Submit, StartJob, LoseCompletion, RaiseError,
              BeginClose, Exit, Crash, Restart, MarketRefresh

-----------------------------------------------------------------------------
(***************************************************************************)
(* One active job for an input, so one thread at work on a run.            *)
(***************************************************************************)
OneActive ==
    \A j, k \in Jobs :
        /\ jobs[j].status \in Active /\ jobs[k].status \in Active
        /\ jobs[j].input = jobs[k].input
        => j = k

\* The row of a job that does not exist is blank.
Blank == \A j \in Jobs : jobs[j].status = "absent" => View(j) = [status |-> "absent",
            input |-> NoRow.input, attempt |-> 0, run |-> NoRun]

\* A request is the only write that makes a job active, and it finds no other.
LEMMA StepActive == ASSUME OneActive, Blank, TypeInv, OneWrite PROVE OneActive' /\ Blank'
<1>1. ASSUME \A k \in Jobs : View(k)' = View(k) PROVE OneActive' /\ Blank'
    <2>1. \A k \in Jobs : jobs'[k].status = jobs[k].status /\ jobs'[k].input = jobs[k].input
        BY <1>1 DEF View
    <2>2. OneActive'
        BY <2>1 DEF OneActive
    <2>3. Blank'
        BY <1>1, <2>1 DEF Blank, NoRow
    <2>4. QED BY <2>2, <2>3
<1>2. ASSUME NEW j \in Jobs, NEW v, Rewritten(j, v), v.status # "absent",
             \A k \in Jobs \ {j} : jobs[k].status \in Active /\ v.status \in Active
                 => jobs[k].input # v.input
      PROVE  OneActive' /\ Blank'
    <2>1. jobs'[j].status = v.status /\ jobs'[j].input = v.input
        BY <1>2 DEF Rewritten, View
    <2>2. \A k \in Jobs \ {j} : jobs'[k].status = jobs[k].status /\ jobs'[k].input = jobs[k].input
        BY <1>2 DEF Rewritten, View
    <2>3. OneActive'
        BY <1>2, <2>1, <2>2 DEF OneActive
    <2>4. Blank'
        <3>1. jobs'[j].status # "absent"
            BY <1>2, <2>1
        <3>2. ASSUME NEW k \in Jobs, k # j, jobs'[k].status = "absent"
              PROVE  View(k)' = [status |-> "absent", input |-> NoRow.input, attempt |-> 0,
                                 run |-> NoRun]
            BY <1>2, <2>2, <3>2 DEF Rewritten, Blank
        <3>3. NoRow.input' = NoRow.input
            BY DEF NoRow
        <3>4. QED BY <3>1, <3>2, <3>3 DEF Blank
    <2>5. QED BY <2>3, <2>4
<1>3. ASSUME NEW j \in Jobs, NEW i \in Inputs, Requested(j, i) PROVE OneActive' /\ Blank'
    <2>1. PICK v : v = [status |-> "queued", input |-> i, attempt |-> 0, run |-> NoRun]
        OBVIOUS
    <2>2. \A k \in Jobs : jobs[k].status \in Active => jobs[k].input # i
        BY <1>3 DEF Requested, ActiveJobs
    <2>3. QED BY <1>2, <1>3, <2>1, <2>2 DEF Requested
<1>4. ASSUME NEW j \in Jobs, Attempted(j) PROVE OneActive' /\ Blank'
    <2>1. PICK v : v = [status |-> "running", input |-> jobs[j].input,
                        attempt |-> jobs[j].attempt + 1, run |-> jobs[j].run]
        OBVIOUS
    <2>2. v.status = "running" /\ v.input = jobs[j].input
        BY <2>1
    <2>3. QED BY <1>2, <1>4, <2>1, <2>2 DEF Attempted, OneActive
<1>5. ASSUME NEW w \in Workers, Busy(exec[w]), Concluded(w) PROVE OneActive' /\ Blank'
    <2>1. PICK j \in Jobs : j = exec[w].job /\ jobs[j].status # "absent"
        BY <1>5 DEF TypeInv, ThreadOK, Fits, Busy
    <2>2. ASSUME NEW v, Rewritten(j, v), v.input = jobs[j].input,
                 v.status \in Terminal \cup {jobs[j].status}
          PROVE  OneActive' /\ Blank'
        BY <1>2, <2>1, <2>2 DEF OneActive, Active, Terminal
    <2>3. CASE Rewritten(j, [View(j) EXCEPT !.run = exec[w].run])
        <3>1. PICK v : v = [View(j) EXCEPT !.run = exec[w].run]
            OBVIOUS
        <3>2. v.input = jobs[j].input /\ v.status = jobs[j].status
            BY <3>1 DEF View
        <3>3. QED BY <2>2, <2>3, <3>1, <3>2
    <2>4. ASSUME NEW s \in Terminal, Rewritten(j, [View(j) EXCEPT !.status = s])
          PROVE  OneActive' /\ Blank'
        <3>1. PICK v : v = [View(j) EXCEPT !.status = s]
            OBVIOUS
        <3>2. v.input = jobs[j].input /\ v.status = s
            BY <3>1 DEF View
        <3>3. QED BY <2>2, <2>4, <3>1, <3>2
    <2>5. QED BY <1>5, <2>1, <2>3, <2>4 DEF Concluded, Terminal
<1>6. QED BY <1>1, <1>3, <1>4, <1>5 DEF OneWrite, Quiet, Worked, Advanced

\* Two threads that work on the same run are the same thread.
LEMMA OneWorker ==
    ASSUME TypeInv, Ownership, OneActive, NEW v \in Workers, NEW w \in Workers,
           exec[v].pc \in HasRun, exec[w].pc \in HasRun, exec[v].run = exec[w].run
    PROVE  v = w
<1>1. Busy(exec[v]) /\ Busy(exec[w])
    BY DEF Busy, HasRun, InsideTry
<1>2. /\ exec[v].job \in Jobs /\ jobs[exec[v].job].input = exec[v].run.input
      /\ exec[w].job \in Jobs /\ jobs[exec[w].job].input = exec[w].run.input
    BY <1>1 DEF TypeInv, ThreadOK, Fits, Busy
<1>3. jobs[exec[v].job].status = "running" /\ jobs[exec[w].job].status = "running"
    BY <1>1 DEF Ownership, Holds
<1>4. exec[v].job = exec[w].job
    BY <1>2, <1>3 DEF OneActive, Active
<1>5. QED BY <1>1, <1>4 DEF Ownership, Exclusive

-----------------------------------------------------------------------------
(***************************************************************************)
(* What a thread knows of its run and of its row at each location.         *)
(***************************************************************************)
\* A computing thread's run is running.  A run under a retry nonce is the thread's
\* own from the beginning; the deterministic one may have ended long ago.
EvidenceOK(t) ==
    /\ t.pc \in InsideTry \ {"final"} => runs[t.run].status = "running"
    /\ t.pc = "size" => t.run.nonce = 0
    /\ t.pc \in {"lookup", "insert", "fetch"} /\ t.run.nonce # 0
           => runs[t.run].status \notin Terminal
    /\ t.pc = "linkCheck" /\ StageOf[t.run.input] = "multivariate"
           => runs[t.run].status = "succeeded"

\* link_job_run's check still holds when it writes.
NameOK(t) == t.pc = "linkWrite" => jobs[t.job].run \in {NoRun, t.run}

\* Locations before the first step of the computation, and after its last.
Opening == {"announce", "read", "size", "lookup", "insert", "fetch", "load", "open"}
Writing == {"publish", "drop", "top"}

\* The progress of the row is behind the thread's, and its total is the input's.
CountsOK(t) ==
    LET row == jobs[t.job]
        i   == row.input
    IN  /\ t.pc \in Opening \cup {"compute", "report"} => t.step <= ComputeSteps(i)
        /\ t.pc = "announce" => row.total = NoTotal
        /\ t.pc \in Opening \cup {"compute", "report", "settle", "final"} \cup Writing
               => row.total \in {NoTotal, Work[i]}
        /\ t.pc \in Opening => row.current = 0
        /\ t.pc \in {"compute", "report"} => row.current <= t.step
        /\ t.pc \in Writing => row.current <= ComputeSteps(i)
        /\ t.pc \in {"settle", "final"} => row.current <= Work[i]

Knows(t) == EvidenceOK(t) /\ NameOK(t) /\ CountsOK(t)

Checkpoints == \A i \in Inputs : ckpt[i].phase <= ComputeSteps(i)

KnowsInv == Checkpoints /\ \A w \in Workers : Knows(exec[w])

-----------------------------------------------------------------------------
\* No computation has fewer than no steps.
LEMMA StepsType ==
    ASSUME NEW i \in Inputs
    PROVE  /\ ComputeSteps(i) \in Nat /\ Work[i] \in Nat /\ ComputeSteps(i) <= Work[i]
           /\ StageOf[i] = "multivariate" => ComputeSteps(i) <= Work[i] - 1
           /\ StageOf[i] = "multivariate" => Work[i] - 1 \in Nat
BY WorkAssumption DEF ComputeSteps

\* What a thread's step leaves to the other threads.
Alone(w) ==
    \A v \in Workers \ {w} : Busy(exec[v]) =>
        /\ jobs'[exec[v].job] = jobs[exec[v].job]
        /\ exec[v].pc \in HasRun => runs'[exec[v].run].status = runs[exec[v].run].status

\* Nothing a thread at this location knows depends on rows that are kept.
LEMMA KeepKnows ==
    ASSUME NEW t, Knows(t),
           Busy(t) => /\ jobs'[t.job] = jobs[t.job]
                      /\ t.pc \in HasRun => runs'[t.run].status = runs[t.run].status
    PROVE  Knows(t)'
<1>1. CASE Busy(t)
    <2>1. EvidenceOK(t)'
        BY <1>1 DEF Knows, EvidenceOK, HasRun, InsideTry
    <2>2. NameOK(t)'
        BY <1>1 DEF Knows, NameOK
    <2>3. CountsOK(t)'
        BY <1>1 DEF Knows, CountsOK, ComputeSteps
    <2>4. QED BY <2>1, <2>2, <2>3 DEF Knows
<1>2. CASE ~Busy(t)
    BY <1>2 DEF Busy, Knows, EvidenceOK, NameOK, CountsOK, InsideTry, Opening, Writing
<1>3. QED BY <1>1, <1>2

\* When one thread's record is replaced, only the new record has to be looked at.
LEMMA ReplaceKnows ==
    ASSUME TypeInv, KnowsInv, NEW w \in Workers, Alone(w), NEW t,
           exec' = [exec EXCEPT ![w] = t], Knows(t)'
    PROVE  \A v \in Workers : Knows(exec[v])'
<1>1. ASSUME NEW v \in Workers PROVE Knows(exec[v])'
    <2>1. exec'[w] = t
        BY DEF TypeInv, TypeOK
    <2>2. CASE v = w
        BY <2>1, <2>2 DEF Knows, EvidenceOK, NameOK, CountsOK
    <2>3. CASE v # w
        <3>1. exec'[v] = exec[v]
            BY <2>3 DEF TypeInv, TypeOK
        <3>2. PICK u : u = exec[v]
            OBVIOUS
        <3>3. Knows(u)'
            BY <2>3, <3>2, KeepKnows DEF KnowsInv, Alone
        <3>4. QED BY <3>1, <3>2, <3>3 DEF Knows, EvidenceOK, NameOK, CountsOK
    <2>4. QED BY <2>2, <2>3
<1>2. QED BY <1>1

\* Locations at which a thread knows nothing.
Resting == {"idle", "done", "giveUp", "failRun"}

\* There a step has nothing to show.
LEMMA RestingKnows ==
    ASSUME TypeInv, KnowsInv, NEW w \in Workers, Alone(w), NEW j,
           \/ Goto(w, "failRun") \/ GiveUp(w)
           \/ exec' = [exec EXCEPT ![w] = [Idle EXCEPT !.pc = "done", !.job = j]]
           \/ exec' = [exec EXCEPT ![w] = Idle]
    PROVE  \A v \in Workers : Knows(exec[v])'
<1>1. ASSUME NEW t, exec' = [exec EXCEPT ![w] = t], t.pc \in Resting
      PROVE  \A v \in Workers : Knows(exec[v])'
    <2>1. Knows(t)'
        BY <1>1 DEF Resting, Knows, EvidenceOK, NameOK, CountsOK, InsideTry, Opening, Writing
    <2>2. QED BY <1>1, <2>1, ReplaceKnows
<1>2. CASE Goto(w, "failRun")
    <2>1. PICK t : t = [exec[w] EXCEPT !.pc = "failRun"]
        OBVIOUS
    <2>2. exec' = [exec EXCEPT ![w] = t] /\ t.pc \in Resting
        BY <1>2, <2>1 DEF Goto, TypeInv, TypeOK, Threads, Resting
    <2>3. QED BY <1>1, <2>2
<1>3. CASE GiveUp(w)
    <2>1. PICK t : t = [Idle EXCEPT !.pc = "giveUp", !.job = exec[w].job, !.attempt = exec[w].attempt]
        OBVIOUS
    <2>2. exec' = [exec EXCEPT ![w] = t] /\ t.pc \in Resting
        BY <1>3, <2>1 DEF GiveUp, Idle, Resting
    <2>3. QED BY <1>1, <2>2
<1>4. CASE exec' = [exec EXCEPT ![w] = [Idle EXCEPT !.pc = "done", !.job = j]]
    <2>1. PICK t : t = [Idle EXCEPT !.pc = "done", !.job = j]
        OBVIOUS
    <2>2. exec' = [exec EXCEPT ![w] = t] /\ t.pc \in Resting
        BY <1>4, <2>1 DEF Idle, Resting
    <2>3. QED BY <1>1, <2>2
<1>5. CASE exec' = [exec EXCEPT ![w] = Idle]
    <2>1. Idle.pc \in Resting
        BY DEF Idle, Resting
    <2>2. QED BY <1>1, <1>5, <2>1
<1>6. QED BY <1>2, <1>3, <1>4, <1>5

\* A move that keeps the job, the run and the step.
Moves(w, t, p) ==
    t.pc = p /\ t.job = exec[w].job /\ t.run = exec[w].run /\ t.step = exec[w].step

\* Goto is such a move.
LEMMA GotoKnows ==
    ASSUME TypeInv, KnowsInv, NEW w \in Workers, Alone(w), NEW p, Goto(w, p),
           \A t : Moves(w, t, p) => Knows(t)'
    PROVE  \A v \in Workers : Knows(exec[v])'
<1>1. PICK t : t = [exec[w] EXCEPT !.pc = p]
    OBVIOUS
<1>2. exec' = [exec EXCEPT ![w] = t] /\ Moves(w, t, p)
    BY <1>1 DEF Goto, Moves, TypeInv, TypeOK, Threads
<1>3. QED BY <1>2, ReplaceKnows

-----------------------------------------------------------------------------
\* A thread's step writes no row and no run of another thread that has work.
LEMMA ThreadAlone ==
    ASSUME TypeInv, Ownership, OneActive, NEW w \in Workers,
           ThreadStep(w) \/ LoseCompletion(w) \/ RaiseError(w)
    PROVE  Alone(w)
<1> USE DEF At, dbVars
<1>1. ASSUME NEW v \in Workers \ {w}, Busy(exec[v]), exec[v].pc \in HasRun
      PROVE  runs'[exec[v].run].status = runs[exec[v].run].status
    <2>1. CASE runs' = runs
        BY <2>1
    <2>2. CASE RunStep(w)
        <3>1. CASE Quiet
            BY <3>1 DEF Quiet
        <3>2. CASE Worked(w)
            <4>1. exec[w].pc \in HasRun /\ exec[v].run \in RunIds
                BY <1>1, <3>2 DEF Worked, HasRun, InsideTry, TypeInv, ThreadOK, Fits
            <4>2. exec[v].run # exec[w].run
                BY <1>1, <4>1, OneWorker
            <4>3. QED BY <3>2, <4>1, <4>2 DEF Worked, Advanced
        <3>3. QED BY <2>2, <3>1, <3>2, RunStepWrites
    <2>3. QED BY <2>1, <2>2 DEF ThreadStep, ClaimJob, ClaimConflict, LinkCheck, LinkWrite,
                 FinishCheck, FinishWrite, CompleteFailed, Forget, LoseCompletion, RaiseError
<1>2. ASSUME NEW v \in Workers \ {w}, Busy(exec[v])
      PROVE  jobs'[exec[v].job] = jobs[exec[v].job]
    <2>1. exec[v].job \in Jobs /\ (Busy(exec[w]) => exec[w].job \in Jobs /\ exec[v].job # exec[w].job)
        BY <1>2 DEF TypeInv, ThreadOK, Fits, Busy, Ownership, Exclusive
    <2>2. CASE jobs' = jobs
        BY <2>2
    <2>3. CASE Busy(exec[w]) /\ \E row : jobs' = [jobs EXCEPT ![exec[w].job] = row]
        BY <2>1, <2>3 DEF TypeInv, TypeOK
    <2>4. ASSUME NEW c, NEW t, NEW p, UpdateJobProgress(w, c, t, p), Busy(exec[w])
          PROVE  jobs'[exec[v].job] = jobs[exec[v].job]
        BY <2>1, <2>4 DEF UpdateJobProgress, TypeInv, TypeOK
    <2>5. CASE Announce(w) \/ SizeUnivariate(w) \/ OpenProgress(w) \/ ReportProgress(w)
               \/ TopProgress(w) \/ FinalProgress(w)
        BY <2>4, <2>5 DEF Announce, SizeUnivariate, OpenProgress, ReportProgress, TopProgress,
                          FinalProgress, Busy
    <2>6. CASE ClaimJob(w)
        <3>1. jobs[exec[v].job].status = "running" /\ ~jobs[exec[v].job].stale
            BY <1>2 DEF Ownership, Holds
        <3>2. exec[v].job # Head(queue[w])
            BY <2>6, <3>1 DEF ClaimJob, Claimable
        <3>3. QED BY <2>1, <2>6, <3>2 DEF ClaimJob, TypeInv, TypeOK
    <2>7. CASE LinkWrite(w) \/ FinishWrite(w) \/ CompleteFailed(w)
        BY <2>1, <2>7 DEF LinkWrite, FinishWrite, CompleteFailed, Busy, TypeInv, TypeOK
    <2>8. QED BY <2>2, <2>5, <2>6, <2>7
              DEF ThreadStep, RunStep, ReadMarket, LookupRun, InsertRun, FetchRun, LoadCheckpoint,
                  ComputeStep, FinishCompute, PublishArtifact, DeleteCheckpoint, SettleRun,
                  FailRun, ClaimConflict, LinkCheck, FinishCheck, Forget, LoseCompletion, RaiseError
<1>3. QED BY <1>1, <1>2 DEF Alone

-----------------------------------------------------------------------------
\* An accepted write moves the row's progress, a refused one fails the run or the job.
LEMMA ProgressKnows ==
    ASSUME TypeInv, KnowsInv, NEW w \in Workers, Busy(exec[w]), Alone(w), NEW c, NEW n, NEW p,
           UpdateJobProgress(w, c, n, p),
           ASSUME AcceptsProgress(jobs[exec[w].job], c, n),
                  jobs'[exec[w].job].current = c, jobs'[exec[w].job].total = n,
                  jobs'[exec[w].job].input = jobs[exec[w].job].input,
                  jobs'[exec[w].job].run = jobs[exec[w].job].run,
                  NEW t, Moves(w, t, p)
           PROVE  Knows(t)'
    PROVE  \A v \in Workers : Knows(exec[v])'
<1>1. CASE Goto(w, "failRun") \/ GiveUp(w)
    BY <1>1, RestingKnows
<1>2. CASE /\ AcceptsProgress(jobs[exec[w].job], c, n) /\ Goto(w, p)
           /\ jobs' = [jobs EXCEPT ![exec[w].job].current = c, ![exec[w].job].total = n,
                                   ![exec[w].job].stale = FALSE]
    <2>1. PICK j \in Jobs : j = exec[w].job
        BY DEF TypeInv, ThreadOK, Fits, Busy
    <2>2. jobs'[j] = [jobs[j] EXCEPT !.current = c, !.total = n, !.stale = FALSE]
        BY <1>2, <2>1 DEF TypeInv, TypeOK
    <2>3. jobs[j] \in JobRows
        BY DEF TypeInv, TypeOK
    <2>4. /\ jobs'[j].current = c /\ jobs'[j].total = n
          /\ jobs'[j].input = jobs[j].input /\ jobs'[j].run = jobs[j].run
        BY <2>2, <2>3 DEF JobRows
    <2>5. \A t : Moves(w, t, p) => Knows(t)'
        BY <1>2, <2>1, <2>4
    <2>6. QED BY <1>2, <2>5, GotoKnows
<1>3. QED BY <1>1, <1>2 DEF UpdateJobProgress

\* What a thread with work has at hand.
LEMMA Situation ==
    ASSUME TypeInv, LinksOK, KnowsInv, NEW w \in Workers, Busy(exec[w])
    PROVE  /\ exec[w] \in Threads /\ exec[w].job \in Jobs /\ jobs[exec[w].job] \in JobRows
           /\ Input(w) = jobs[exec[w].job].input /\ Input(w) \in Inputs
           /\ Stage(w) = StageOf[Input(w)] /\ Stage(w) \in Stages
           /\ jobs[exec[w].job].current \in Nat /\ exec[w].step \in Nat
           /\ exec[w].pc \in HasRun => /\ exec[w].run \in RunIds
                                       /\ exec[w].run.input = Input(w)
           /\ Knows(exec[w]) /\ LinkOK(exec[w])
<1>1. exec[w] \in Threads /\ exec[w].job \in Jobs
    BY DEF TypeInv, TypeOK, ThreadOK, Fits, Busy
<1>2. jobs[exec[w].job] \in JobRows
    BY <1>1 DEF TypeInv, TypeOK
<1>3. Input(w) = jobs[exec[w].job].input /\ Input(w) \in Inputs
    BY <1>2 DEF Input, Row, JobRows
<1>4. Stage(w) = StageOf[Input(w)] /\ Stage(w) \in Stages
    BY <1>3, StageAssumption DEF Stage
<1>5. jobs[exec[w].job].current \in Nat /\ exec[w].step \in Nat
    BY <1>1, <1>2 DEF JobRows, Threads
<1>6. exec[w].pc \in HasRun => exec[w].run \in RunIds /\ exec[w].run.input = Input(w)
    BY <1>3 DEF TypeInv, ThreadOK, Fits
<1>7. Knows(exec[w]) /\ LinkOK(exec[w])
    BY DEF KnowsInv, LinksOK
<1>8. QED BY <1>1, <1>2, <1>3, <1>4, <1>5, <1>6, <1>7

\* The writes of job progress.
LEMMA ProgressStepsKnow ==
    ASSUME TypeInv, LinksOK, KnowsInv, NEW w \in Workers, Alone(w),
           Announce(w) \/ SizeUnivariate(w) \/ OpenProgress(w) \/ ReportProgress(w)
           \/ TopProgress(w) \/ FinalProgress(w)
    PROVE  \A v \in Workers : Knows(exec[v])'
<1> USE DEF At, Moves
<1>1. Busy(exec[w]) /\ runs' = runs
    BY DEF Announce, SizeUnivariate, OpenProgress, ReportProgress, TopProgress, FinalProgress, Busy
<1>2. /\ exec[w] \in Threads /\ exec[w].job \in Jobs /\ jobs[exec[w].job] \in JobRows
      /\ Input(w) = jobs[exec[w].job].input /\ Input(w) \in Inputs
      /\ Stage(w) = StageOf[Input(w)] /\ Stage(w) \in Stages
      /\ jobs[exec[w].job].current \in Nat /\ exec[w].step \in Nat
      /\ exec[w].pc \in HasRun => /\ exec[w].run \in RunIds
                                  /\ exec[w].run.input = Input(w)
      /\ Knows(exec[w]) /\ LinkOK(exec[w])
    BY <1>1, Situation
<1>3. PICK j, i : j = exec[w].job /\ i = Input(w)
    OBVIOUS
<1>4. /\ ComputeSteps(i) \in Nat /\ Work[i] \in Nat /\ ComputeSteps(i) <= Work[i]
      /\ StageOf[i] = "multivariate" => ComputeSteps(i) <= Work[i] - 1
    BY <1>2, <1>3, StepsType
<1>5. EvidenceOK(exec[w]) /\ CountsOK(exec[w])
    BY <1>2 DEF Knows
\* A row whose progress is c of n, and a thread that moved to p.
<1> DEFINE Written(c, n, t, p) ==
        /\ AcceptsProgress(jobs[j], c, n)
        /\ jobs'[j].current = c /\ jobs'[j].total = n /\ jobs'[j].input = i
        /\ Moves(w, t, p)
<1>6. ASSUME NEW c, NEW n, NEW p, UpdateJobProgress(w, c, n, p),
             \A t : Written(c, n, t, p) => Knows(t)'
      PROVE  \A v \in Workers : Knows(exec[v])'
    BY <1>1, <1>2, <1>3, <1>6, ProgressKnows
<1>7. CASE Announce(w)
    <2>1. PICK n : n = IF Stage(w) = "univariate" THEN NoTotal ELSE Work[i]
        OBVIOUS
    <2>2. exec[w].step <= ComputeSteps(i)
        BY <1>2, <1>3, <1>5, <1>7 DEF Announce, CountsOK, Opening
    <2>3. ASSUME NEW t, Written(0, n, t, "read") PROVE Knows(t)'
        <3>1. EvidenceOK(t)' /\ NameOK(t)'
            BY <2>3 DEF EvidenceOK, NameOK, InsideTry
        <3>2. CountsOK(t)'
            BY <1>3, <2>1, <2>2, <2>3 DEF CountsOK, Opening, Writing, ComputeSteps
        <3>3. QED BY <3>1, <3>2 DEF Knows
    <2> HIDE DEF Written
    <2>4. UpdateJobProgress(w, 0, n, "read")
        BY <1>3, <1>7, <2>1 DEF Announce
    <2>5. QED BY <1>6, <2>3, <2>4
<1>8. CASE SizeUnivariate(w)
    <2>1. exec[w].step <= ComputeSteps(i) /\ exec[w].run.nonce = 0
        BY <1>2, <1>3, <1>5, <1>8 DEF SizeUnivariate, CountsOK, EvidenceOK, Opening
    <2>2. ASSUME NEW t, Written(0, Work[i], t, "lookup") PROVE Knows(t)'
        <3>1. EvidenceOK(t)' /\ NameOK(t)'
            BY <2>1, <2>2 DEF EvidenceOK, NameOK, InsideTry
        <3>2. CountsOK(t)'
            BY <1>3, <2>1, <2>2 DEF CountsOK, Opening, Writing, ComputeSteps
        <3>3. QED BY <3>1, <3>2 DEF Knows
    <2> HIDE DEF Written
    <2>3. UpdateJobProgress(w, 0, Work[i], "lookup")
        BY <1>3, <1>8 DEF SizeUnivariate
    <2>4. QED BY <1>6, <2>2, <2>3
<1>9. CASE OpenProgress(w)
    <2>1. exec[w].step <= ComputeSteps(i) /\ runs[exec[w].run].status = "running"
        BY <1>2, <1>3, <1>5, <1>9 DEF OpenProgress, CountsOK, EvidenceOK, Opening, InsideTry
    <2>2. PICK p : p = IF exec[w].step > 0 THEN "report" ELSE "compute"
        OBVIOUS
    <2>3. ASSUME NEW t, Written(0, Work[i], t, p) PROVE Knows(t)'
        <3>1. EvidenceOK(t)' /\ NameOK(t)'
            BY <1>1, <2>1, <2>2, <2>3 DEF EvidenceOK, NameOK, InsideTry
        <3>2. CountsOK(t)'
            BY <1>2, <1>3, <2>1, <2>2, <2>3 DEF CountsOK, Opening, Writing, ComputeSteps
        <3>3. QED BY <3>1, <3>2 DEF Knows
    <2> HIDE DEF Written
    <2>4. UpdateJobProgress(w, 0, Work[i], p)
        BY <1>3, <1>9, <2>2 DEF OpenProgress
    <2>5. QED BY <1>6, <2>3, <2>4
<1>10. CASE ReportProgress(w)
    <2>1. exec[w].step <= ComputeSteps(i) /\ runs[exec[w].run].status = "running"
        BY <1>2, <1>3, <1>5, <1>10 DEF ReportProgress, CountsOK, EvidenceOK, InsideTry
    <2>2. ASSUME NEW t, Written(exec[w].step, Work[i], t, "compute") PROVE Knows(t)'
        <3>1. EvidenceOK(t)' /\ NameOK(t)'
            BY <1>1, <2>1, <2>2 DEF EvidenceOK, NameOK, InsideTry
        <3>2. CountsOK(t)'
            BY <1>2, <1>3, <2>1, <2>2 DEF CountsOK, Opening, Writing, ComputeSteps
        <3>3. QED BY <3>1, <3>2 DEF Knows
    <2> HIDE DEF Written
    <2>3. UpdateJobProgress(w, exec[w].step, Work[i], "compute")
        BY <1>3, <1>10 DEF ReportProgress
    <2>4. QED BY <1>6, <2>2, <2>3
<1>11. CASE TopProgress(w)
    <2>1. runs[exec[w].run].status = "running"
        BY <1>5, <1>11 DEF TopProgress, EvidenceOK, InsideTry
    <2>2. PICK c : c = IF Stage(w) = "multivariate" THEN Work[i] - 1 ELSE Work[i]
        OBVIOUS
    <2>3. ASSUME NEW t, Written(c, Work[i], t, "settle") PROVE Knows(t)'
        <3>1. EvidenceOK(t)' /\ NameOK(t)'
            BY <1>1, <2>1, <2>3 DEF EvidenceOK, NameOK, InsideTry
        <3>2. c <= Work[i]
            BY <1>4, <2>2
        <3>3. CountsOK(t)'
            BY <1>3, <2>3, <3>2 DEF CountsOK, Opening, Writing
        <3>4. QED BY <3>1, <3>3 DEF Knows
    <2> HIDE DEF Written
    <2>4. UpdateJobProgress(w, c, Work[i], "settle")
        BY <1>3, <1>11, <2>2 DEF TopProgress
    <2>5. QED BY <1>6, <2>3, <2>4
<1>12. CASE FinalProgress(w)
    <2>1. runs[exec[w].run].status = "succeeded"
        BY <1>2, <1>12 DEF FinalProgress, LinkOK
    <2>2. ASSUME NEW t, Written(Work[i], Work[i], t, "linkCheck") PROVE Knows(t)'
        <3>1. EvidenceOK(t)' /\ NameOK(t)'
            BY <1>1, <2>1, <2>2 DEF EvidenceOK, NameOK, InsideTry
        <3>2. CountsOK(t)'
            BY <1>3, <2>2 DEF CountsOK, Opening, Writing
        <3>3. QED BY <3>1, <3>2 DEF Knows
    <2> HIDE DEF Written
    <2>3. UpdateJobProgress(w, Work[i], Work[i], "linkCheck")
        BY <1>3, <1>12 DEF FinalProgress
    <2>4. QED BY <1>6, <2>2, <2>3
<1>13. QED BY <1>7, <1>8, <1>9, <1>10, <1>11, <1>12

\* A move that writes no row of a job: what is known of the row stays, what is known
\* of the run is to be shown.
LEMMA PlainKnows ==
    ASSUME TypeInv, LinksOK, KnowsInv, NEW w \in Workers, Busy(exec[w]), Alone(w), UNCHANGED jobs,
           NEW p, Goto(w, p),
           p \in Opening => exec[w].pc \in Opening \ {"announce"} /\ p # "announce",
           p \in {"compute", "report"} => exec[w].pc \in Opening,
           p \in Writing => exec[w].pc \in Writing \cup {"compute"},
           p \in {"settle", "final"} => exec[w].pc \in {"settle", "final"},
           p = "size" => exec[w].pc = "size",
           p = "linkWrite" => jobs[exec[w].job].run \in {NoRun, exec[w].run},
           p \in InsideTry \ {"final"} => runs'[exec[w].run].status = "running",
           p \in {"lookup", "insert", "fetch"} /\ exec[w].run.nonce # 0
               => runs'[exec[w].run].status \notin Terminal,
           p = "linkCheck" => exec[w].pc \in HasRun,
           p = "linkCheck" /\ Stage(w) = "multivariate" => runs'[exec[w].run].status = "succeeded"
    PROVE  \A v \in Workers : Knows(exec[v])'
<1>1. /\ exec[w] \in Threads /\ exec[w].job \in Jobs /\ jobs[exec[w].job] \in JobRows
      /\ Input(w) = jobs[exec[w].job].input /\ Input(w) \in Inputs
      /\ Stage(w) = StageOf[Input(w)] /\ Stage(w) \in Stages
      /\ jobs[exec[w].job].current \in Nat /\ exec[w].step \in Nat
      /\ exec[w].pc \in HasRun => /\ exec[w].run \in RunIds
                                  /\ exec[w].run.input = Input(w)
      /\ Knows(exec[w]) /\ LinkOK(exec[w])
    BY Situation
<1>2. PICK i : i = Input(w)
    OBVIOUS
<1>3. ComputeSteps(i) \in Nat /\ Work[i] \in Nat /\ ComputeSteps(i) <= Work[i]
    BY <1>1, <1>2, StepsType
<1>4. EvidenceOK(exec[w]) /\ CountsOK(exec[w])
    BY <1>1 DEF Knows
<1>5. ASSUME NEW t, Moves(w, t, p) PROVE Knows(t)'
    <2>1. p = "linkCheck" => StageOf[exec[w].run.input] = Stage(w)
        BY <1>1
    <2>2. EvidenceOK(t)'
        BY <1>4, <1>5, <2>1 DEF EvidenceOK, Moves
    <2>3. NameOK(t)'
        BY <1>5 DEF NameOK, Moves
    <2>4. CountsOK(t)'
        BY <1>1, <1>2, <1>3, <1>4, <1>5 DEF CountsOK, Moves, Opening, Writing, ComputeSteps
    <2>5. QED BY <2>2, <2>3, <2>4 DEF Knows
<1>6. QED BY <1>5, GotoKnows

\* The other steps of a thread.
LEMMA ThreadKnows ==
    ASSUME TypeInv, LinksOK, KnowsInv, NEW w \in Workers, Alone(w),
           ThreadStep(w) \/ LoseCompletion(w) \/ RaiseError(w)
    PROVE  \A v \in Workers : Knows(exec[v])'
<1> USE DEF At, dbVars
<1>1. Busy(exec[w]) =>
      /\ exec[w] \in Threads /\ exec[w].job \in Jobs /\ jobs[exec[w].job] \in JobRows
      /\ Input(w) = jobs[exec[w].job].input /\ Input(w) \in Inputs
      /\ Stage(w) = StageOf[Input(w)] /\ Stage(w) \in Stages
      /\ jobs[exec[w].job].current \in Nat /\ exec[w].step \in Nat
      /\ exec[w].pc \in HasRun => /\ exec[w].run \in RunIds
                                  /\ exec[w].run.input = Input(w)
      /\ Knows(exec[w]) /\ LinkOK(exec[w])
    BY Situation
<1>2. Busy(exec[w]) => EvidenceOK(exec[w]) /\ CountsOK(exec[w]) /\ LinkOK(exec[w])
    BY <1>1 DEF Knows
<1>3. \A r \in RunIds : runs[r] \in RunRows
    BY DEF TypeInv, TypeOK
<1>4. CASE LookupRun(w)
    BY <1>2, <1>4, PlainKnows DEF LookupRun, Busy, EvidenceOK, Opening, Writing, InsideTry
<1>5. CASE InsertRun(w)
    <2>1. CASE GiveUp(w)
        BY <2>1, RestingKnows
    <2>2. CASE ~GiveUp(w)
        <3>1. /\ Goto(w, "fetch") /\ Busy(exec[w]) /\ exec[w].pc = "insert" /\ UNCHANGED jobs
              /\ runs' = [runs EXCEPT ![exec[w].run].status = "running"]
            BY <1>5, <2>2 DEF InsertRun, Busy
        <3>2. runs'[exec[w].run].status = "running"
            BY <1>1, <1>3, <3>1 DEF HasRun, TypeInv, TypeOK, RunRows
        <3>3. QED BY <3>1, <3>2, PlainKnows DEF Opening, Writing, InsideTry, Terminal
    <2>3. QED BY <2>1, <2>2
<1>6. CASE FetchRun(w)
    <2>1. /\ exec[w].pc = "fetch" /\ Busy(exec[w]) /\ UNCHANGED <<jobs, runs>>
        BY <1>6 DEF FetchRun, Busy
    <2>2. ASSUME NEW p \in {"compute", "open", "load"}, Goto(w, p), runs[exec[w].run].status = "running",
                 p = "compute" => Stage(w) = "univariate"
          PROVE  \A v \in Workers : Knows(exec[v])'
        BY <2>1, <2>2, PlainKnows DEF Opening, Writing, InsideTry
    <2>3. CASE Goto(w, "linkCheck") /\ runs[exec[w].run].status \in Terminal
               /\ ~(runs[exec[w].run].status = "failed" /\ Stage(w) = "multivariate"
                      /\ exec[w].run.nonce = 0)
        <3>1. Stage(w) = "multivariate" => runs[exec[w].run].status = "succeeded"
            BY <1>2, <2>1, <2>3 DEF EvidenceOK, Terminal
        <3>2. QED BY <2>1, <2>3, <3>1, PlainKnows DEF Opening, Writing, InsideTry, HasRun
    <2>4. ASSUME NEW n \in FreshNonces(exec[w].run),
                 exec' = [exec EXCEPT ![w].pc = "lookup", ![w].run.nonce = n]
          PROVE  \A v \in Workers : Knows(exec[v])'
        <3>1. PICK r : r = [exec[w].run EXCEPT !.nonce = n]
            OBVIOUS
        <3>2. PICK t : t = [exec[w] EXCEPT !.pc = "lookup", !.run = r]
            OBVIOUS
        <3>3. /\ exec' = [exec EXCEPT ![w] = t]
              /\ t.pc = "lookup" /\ t.job = exec[w].job /\ t.run = r /\ t.step = exec[w].step
            BY <1>1, <2>1, <2>4, <3>1, <3>2 DEF TypeInv, TypeOK, Threads
        <3>4. runs'[r].status = "absent"
            BY <2>1, <3>1 DEF FreshNonces
        <3>5. EvidenceOK(t)' /\ NameOK(t)'
            BY <3>3, <3>4 DEF EvidenceOK, NameOK, InsideTry, Terminal
        <3>6. CountsOK(t)'
            BY <1>2, <2>1, <3>3 DEF CountsOK, Opening, Writing, ComputeSteps
        <3>7. QED BY <3>3, <3>5, <3>6, ReplaceKnows DEF Knows
    <2>5. QED BY <1>1, <1>6, <2>1, <2>2, <2>3, <2>4 DEF FetchRun, Stages
<1>7. CASE FinishCompute(w) \/ DeleteCheckpoint(w)
    <2>1. /\ Busy(exec[w]) /\ UNCHANGED <<jobs, runs>>
          /\ \/ exec[w].pc = "compute" /\ Goto(w, "publish")
             \/ exec[w].pc = "drop" /\ Goto(w, "top")
        BY <1>7 DEF FinishCompute, DeleteCheckpoint, Busy
    <2>2. runs'[exec[w].run].status = "running"
        BY <1>2, <2>1 DEF EvidenceOK, InsideTry
    <2>3. QED BY <2>1, <2>2, PlainKnows DEF Opening, Writing, InsideTry
<1>8. CASE SettleRun(w)
    <2>1. CASE Goto(w, "failRun")
        BY <2>1, RestingKnows
    <2>2. CASE ~Goto(w, "failRun")
        <3>1. /\ exec[w].pc = "settle" /\ Busy(exec[w]) /\ UNCHANGED jobs
              /\ runs' = [runs EXCEPT ![exec[w].run].status = "succeeded"]
              /\ Goto(w, "final") \/ Goto(w, "linkCheck")
            BY <1>8, <2>2 DEF SettleRun, Busy
        <3>2. runs'[exec[w].run].status = "succeeded"
            BY <1>1, <1>3, <3>1 DEF HasRun, InsideTry, TypeInv, TypeOK, RunRows
        <3>3. QED BY <3>1, <3>2, PlainKnows DEF Opening, Writing, InsideTry, HasRun
    <2>3. QED BY <2>1, <2>2
<1>9. CASE LinkCheck(w)
    <2>1. CASE GiveUp(w)
        BY <2>1, RestingKnows
    <2>2. CASE ~GiveUp(w)
        <3>1. /\ exec[w].pc = "linkCheck" /\ Busy(exec[w]) /\ UNCHANGED jobs
              /\ Goto(w, "linkWrite") /\ jobs[exec[w].job].run \in {NoRun, exec[w].run}
            BY <1>9, <2>2 DEF LinkCheck, Row, Busy
        <3>2. QED BY <3>1, PlainKnows DEF Opening, Writing, InsideTry
    <2>3. QED BY <2>1, <2>2
<1>10. CASE LinkWrite(w) \/ FinishCheck(w)
    <2>1. CASE GiveUp(w)
        BY <2>1, RestingKnows
    <2>2. CASE ~GiveUp(w)
        <3>1. PICK p \in {"finishCheck", "finishWrite"} : Goto(w, p)
            BY <1>10, <2>2 DEF LinkWrite, FinishCheck
        <3>2. ASSUME NEW t, Moves(w, t, p) PROVE Knows(t)'
            BY <3>1, <3>2 DEF Moves, Knows, EvidenceOK, NameOK, CountsOK, Opening, Writing, InsideTry
        <3>3. QED BY <3>1, <3>2, GotoKnows
    <2>3. QED BY <2>1, <2>2
<1>11. CASE FailRun(w) \/ RaiseError(w) \/ ClaimConflict(w) \/ FinishWrite(w)
            \/ CompleteFailed(w) \/ LoseCompletion(w) \/ Forget(w)
    BY <1>11, RestingKnows DEF FailRun, RaiseError, ClaimConflict, FinishWrite, CompleteFailed,
                               LoseCompletion, Forget
<1>12. CASE ClaimJob(w)
    <2>1. PICK j, a, p :
              /\ j = Head(queue[w]) /\ p \in {"read", "announce"}
              /\ jobs' = [jobs EXCEPT ![j].status = "running", ![j].attempt = @ + 1,
                                      ![j].current = 0, ![j].total = NoTotal, ![j].stale = FALSE]
              /\ exec' = [exec EXCEPT ![w] = [Idle EXCEPT !.pc = p, !.job = j, !.attempt = a]]
        BY <1>12 DEF ClaimJob
    <2>2. j \in Jobs /\ jobs[j] \in JobRows
        BY <1>12, <2>1, HeadTailProperties DEF ClaimJob, TypeInv, TypeOK
    <2>3. jobs'[j] = [jobs[j] EXCEPT !.status = "running", !.attempt = jobs[j].attempt + 1,
                                     !.current = 0, !.total = NoTotal, !.stale = FALSE]
        BY <2>1, <2>2 DEF TypeInv, TypeOK, JobRows
    <2>4. jobs'[j].current = 0 /\ jobs'[j].total = NoTotal /\ jobs'[j].input = jobs[j].input
        BY <2>2, <2>3 DEF JobRows
    <2>5. PICK t : t = [Idle EXCEPT !.pc = p, !.job = j, !.attempt = a]
        OBVIOUS
    <2>6. t.pc = p /\ t.job = j /\ t.step = 0
        BY <2>5 DEF Idle
    <2>7. 0 <= ComputeSteps(jobs'[j].input)
        BY <2>2, <2>4, StepsType DEF JobRows
    <2>8. EvidenceOK(t)' /\ NameOK(t)'
        BY <2>1, <2>6 DEF EvidenceOK, NameOK, InsideTry
    <2>9. CountsOK(t)'
        BY <2>1, <2>4, <2>6, <2>7 DEF CountsOK, Opening, Writing, ComputeSteps
    <2>10. QED BY <2>1, <2>5, <2>8, <2>9, ReplaceKnows DEF Knows
<1>13. CASE ReadMarket(w)
    <2>1. PICK p, r : /\ p \in {"size", "lookup"} /\ r.nonce = 0
                      /\ exec' = [exec EXCEPT ![w].pc = p, ![w].used = {market}, ![w].run = r]
        <3>1. PICK p : p = IF Stage(w) = "univariate" THEN "size" ELSE "lookup"
            OBVIOUS
        <3>2. PICK r : r = [input |-> Input(w), nonce |-> 0,
                      snap |-> IF Stage(w) = "multivariate" THEN Pinned[Input(w)] ELSE market]
            OBVIOUS
        <3>3. p \in {"size", "lookup"} /\ r.nonce = 0
            BY <3>1, <3>2
        <3>4. exec' = [exec EXCEPT ![w].pc = p, ![w].used = {market}, ![w].run = r]
            BY <1>13, <3>1, <3>2 DEF ReadMarket
        <3>5. QED BY <3>3, <3>4
    <2>2. exec[w].pc = "read" /\ Busy(exec[w]) /\ UNCHANGED <<jobs, runs>>
        BY <1>13 DEF ReadMarket, Busy
    <2>3. PICK t : t = [exec[w] EXCEPT !.pc = p, !.used = {market}, !.run = r]
        OBVIOUS
    <2>4. /\ exec' = [exec EXCEPT ![w] = t]
          /\ t.pc = p /\ t.job = exec[w].job /\ t.run = r /\ t.step = exec[w].step
        BY <1>1, <2>1, <2>2, <2>3 DEF TypeInv, TypeOK, Threads
    <2>5. EvidenceOK(t)' /\ NameOK(t)'
        BY <2>1, <2>4 DEF EvidenceOK, NameOK, InsideTry
    <2>6. CountsOK(t)'
        BY <1>2, <2>1, <2>2, <2>4 DEF CountsOK, Opening, Writing, ComputeSteps
    <2>7. QED BY <2>4, <2>5, <2>6, ReplaceKnows DEF Knows
<1>14. CASE LoadCheckpoint(w)
    <2>1. exec[w].pc = "load" /\ Busy(exec[w]) /\ UNCHANGED <<jobs, runs>>
        BY <1>14 DEF LoadCheckpoint, Busy
    <2>2. PICK n, u : /\ n = ckpt[Input(w)].phase
                      /\ exec' = [exec EXCEPT ![w].pc = "open", ![w].step = n, ![w].used = u]
        BY <1>14 DEF LoadCheckpoint
    <2>3. n <= ComputeSteps(jobs[exec[w].job].input)
        BY <1>1, <2>1, <2>2 DEF KnowsInv, Checkpoints
    <2>4. PICK t : t = [exec[w] EXCEPT !.pc = "open", !.step = n, !.used = u]
        OBVIOUS
    <2>5. /\ exec' = [exec EXCEPT ![w] = t]
          /\ t.pc = "open" /\ t.job = exec[w].job /\ t.run = exec[w].run /\ t.step = n
        BY <1>1, <2>1, <2>2, <2>4 DEF TypeInv, TypeOK, Threads
    <2>6. EvidenceOK(t)' /\ NameOK(t)'
        BY <1>2, <2>1, <2>5 DEF EvidenceOK, NameOK, InsideTry
    <2>7. CountsOK(t)'
        BY <1>2, <2>1, <2>3, <2>5 DEF CountsOK, Opening, Writing, ComputeSteps
    <2>8. QED BY <2>5, <2>6, <2>7, ReplaceKnows DEF Knows
<1>15. CASE ComputeStep(w)
    <2>1. exec[w].pc = "compute" /\ Busy(exec[w]) /\ UNCHANGED <<jobs, runs>>
        BY <1>15 DEF ComputeStep, Busy
    <2>2. PICK n \in exec[w].step + 1 .. ComputeSteps(Input(w)) :
              exec' = [exec EXCEPT ![w].pc = "report", ![w].step = n]
        BY <1>15 DEF ComputeStep
    <2>3. /\ n <= ComputeSteps(jobs[exec[w].job].input)
          /\ jobs[exec[w].job].current <= n
        <3>1. PICK i : i = Input(w)
            OBVIOUS
        <3>2. ComputeSteps(i) \in Nat
            BY <1>1, <2>1, <3>1, StepsType
        <3>3. jobs[exec[w].job].current <= exec[w].step
            BY <1>2, <2>1 DEF CountsOK
        <3>4. QED BY <1>1, <2>1, <2>2, <3>1, <3>2, <3>3
    <2>4. PICK t : t = [exec[w] EXCEPT !.pc = "report", !.step = n]
        OBVIOUS
    <2>5. /\ exec' = [exec EXCEPT ![w] = t]
          /\ t.pc = "report" /\ t.job = exec[w].job /\ t.run = exec[w].run /\ t.step = n
        BY <1>1, <2>1, <2>2, <2>4 DEF TypeInv, TypeOK, Threads
    <2>6. EvidenceOK(t)' /\ NameOK(t)'
        BY <1>2, <2>1, <2>5 DEF EvidenceOK, NameOK, InsideTry
    <2>7. CountsOK(t)'
        BY <1>2, <2>1, <2>3, <2>5 DEF CountsOK, Opening, Writing, ComputeSteps
    <2>8. QED BY <2>5, <2>6, <2>7, ReplaceKnows DEF Knows
<1>16. CASE PublishArtifact(w)
    <2>1. CASE Goto(w, "failRun")
        BY <2>1, RestingKnows
    <2>2. CASE ~Goto(w, "failRun")
        <3>1. /\ exec[w].pc = "publish" /\ Busy(exec[w]) /\ UNCHANGED jobs
            BY <1>16 DEF PublishArtifact, Busy
        <3>2. PICK p, k : /\ p \in Writing
                          /\ exec' = [exec EXCEPT ![w].pc = p, ![w].made = k]
            <4>1. PICK k : k = exec[w].made + 1
                OBVIOUS
            <4>2. PICK p : p = IF k < ArtifactCount[Input(w)] THEN "publish"
                               ELSE IF Stage(w) = "multivariate" THEN "drop" ELSE "top"
                OBVIOUS
            <4>3. p \in Writing
                BY <4>2 DEF Writing
            <4>4. QED BY <1>16, <2>2, <4>1, <4>2, <4>3 DEF PublishArtifact
        <3>3. runs'[exec[w].run].status = "running"
            <4>1. runs[exec[w].run].status = "running" /\ exec[w].run \in RunIds
                BY <1>1, <1>2, <3>1 DEF EvidenceOK, InsideTry, HasRun
            <4>2. Quiet \/ Advanced(exec[w].run, runs[exec[w].run].status)
                BY <1>16, <3>1, RunStepWrites DEF RunStep, Worked
            <4>3. QED BY <4>1, <4>2 DEF Quiet, Advanced
        <3>4. PICK t : t = [exec[w] EXCEPT !.pc = p, !.made = k]
            OBVIOUS
        <3>5. /\ exec' = [exec EXCEPT ![w] = t]
              /\ t.pc = p /\ t.job = exec[w].job /\ t.run = exec[w].run
            BY <1>1, <3>1, <3>2, <3>4 DEF TypeInv, TypeOK, Threads
        <3>6. EvidenceOK(t)' /\ NameOK(t)'
            BY <3>2, <3>3, <3>5 DEF EvidenceOK, NameOK, Writing
        <3>7. CountsOK(t)'
            BY <1>2, <3>1, <3>2, <3>5 DEF CountsOK, Opening, Writing, ComputeSteps
        <3>8. QED BY <3>5, <3>6, <3>7, ReplaceKnows DEF Knows
    <2>3. QED BY <2>1, <2>2
<1>17. QED BY <1>4, <1>5, <1>6, <1>7, <1>8, <1>9, <1>10, <1>11, <1>12, <1>13, <1>14, <1>15, <1>16,
              ProgressStepsKnow DEF ThreadStep, RunStep

\* A saved checkpoint counts no more phases than the computation has.
LEMMA StepCheckpoints == ASSUME TypeInv, Checkpoints, Next PROVE Checkpoints'
<1> USE DEF At, dbVars
<1>1. CASE ckpt' = ckpt
    BY <1>1 DEF Checkpoints, ComputeSteps
<1>2. ASSUME NEW i \in Inputs, NEW row, ckpt' = [ckpt EXCEPT ![i] = row],
             row.phase <= ComputeSteps(i)
      PROVE  Checkpoints'
    BY <1>2 DEF Checkpoints, ComputeSteps, TypeInv, TypeOK
<1>3. ASSUME NEW w \in Workers, ComputeStep(w) PROVE Checkpoints'
    <2>1. Input(w) \in Inputs
        BY <1>3 DEF ComputeStep, TypeInv, TypeOK, ThreadOK, Fits, JobRows, Input, Row
    <2>2. PICK n \in exec[w].step + 1 .. ComputeSteps(Input(w)) :
              \/ ckpt' = ckpt
              \/ ckpt' = [ckpt EXCEPT ![Input(w)] = [phase |-> n, used |-> exec[w].used]]
        BY <1>3 DEF ComputeStep
    <2>3. PICK i : i = Input(w)
        OBVIOUS
    <2>4. n <= ComputeSteps(i)
        <3>1. ComputeSteps(i) \in Nat /\ exec[w].step \in Nat
            BY <2>1, <2>3, StepsType DEF TypeInv, TypeOK, Threads
        <3>2. QED BY <2>2, <2>3, <3>1
    <2>5. PICK row : row = [phase |-> n, used |-> exec[w].used]
        OBVIOUS
    <2>6. row.phase = n
        BY <2>5
    <2>7. QED BY <1>1, <1>2, <2>1, <2>2, <2>3, <2>4, <2>5, <2>6
<1>4. ASSUME NEW w \in Workers, DeleteCheckpoint(w) PROVE Checkpoints'
    <2>1. PICK i \in Inputs : i = Input(w)
        BY <1>4 DEF DeleteCheckpoint, TypeInv, TypeOK, ThreadOK, Fits, JobRows, Input, Row
    <2>2. PICK row : row = [phase |-> 0, used |-> {}]
        OBVIOUS
    <2>3. row.phase = 0
        BY <2>2
    <2>4. 0 <= ComputeSteps(i)
        BY <2>1, StepsType
    <2>5. QED BY <1>2, <1>4, <2>1, <2>2, <2>3, <2>4 DEF DeleteCheckpoint
<1>5. ASSUME NEW w \in Workers, ThreadStep(w) PROVE Checkpoints'
    BY <1>1, <1>3, <1>4, <1>5
    DEF ThreadStep, RunStep, Announce, ReadMarket, SizeUnivariate, LookupRun, InsertRun, FetchRun,
        LoadCheckpoint, OpenProgress, ReportProgress, FinishCompute, PublishArtifact, TopProgress,
        SettleRun, FinalProgress, FailRun, ClaimJob, ClaimConflict, LinkCheck, LinkWrite,
        FinishCheck, FinishWrite, CompleteFailed, Forget
<1>6. ASSUME NEW w \in Workers, HttpStep(w) \/ ProcessStep(w) PROVE Checkpoints'
    BY <1>1, <1>6
    DEF HttpStep, CreateOrGetActiveJob, Submit, ProcessStep, StartJob, LoseCompletion,
        RaiseError, BeginClose, Exit, Crash, Restart
<1>7. QED BY <1>1, <1>5, <1>6 DEF Next, HeartbeatExpires, MarketRefresh

\* Every step, as long as no executor outlasts the heartbeat.
LEMMA StepKnows ==
    ASSUME ~SlowPhases, TypeInv, Ownership, LinksOK, OneActive, KnowsInv, Next
    PROVE  KnowsInv'
<1>1. Checkpoints'
    BY StepCheckpoints DEF KnowsInv
<1>2. ASSUME NEW w \in Workers, ThreadStep(w) \/ LoseCompletion(w) \/ RaiseError(w)
      PROVE  \A v \in Workers : Knows(exec[v])'
    BY <1>2, ThreadAlone, ThreadKnows
<1>3. \A v \in Workers : Busy(exec[v]) => /\ exec[v].job \in Jobs
                                         /\ jobs[exec[v].job].status = "running"
    BY DEF TypeInv, ThreadOK, Fits, Busy, Ownership, Holds
<1>4. ASSUME NEW w \in Workers, Crash(w) PROVE \A v \in Workers : Knows(exec[v])'
    <2>1. Alone(w) /\ exec' = [exec EXCEPT ![w] = Idle]
        BY <1>4 DEF Crash, Alone, dbVars
    <2>2. QED BY <2>1, RestingKnows
<1>5. ASSUME exec' = exec, runs' = runs,
             \A v \in Workers : Busy(exec[v]) => jobs'[exec[v].job] = jobs[exec[v].job]
      PROVE  \A v \in Workers : Knows(exec[v])'
    <2>1. ASSUME NEW v \in Workers PROVE Knows(exec[v])'
        <3>1. PICK t : t = exec[v]
            OBVIOUS
        <3>2. Knows(t)'
            BY <1>5, <3>1, KeepKnows DEF KnowsInv
        <3>3. QED BY <1>5, <3>1, <3>2 DEF Knows, EvidenceOK, NameOK, CountsOK
    <2>2. QED BY <2>1
<1>6. ASSUME NEW w \in Workers, NEW i \in Inputs, NEW j \in Jobs, CreateOrGetActiveJob(w, i, j)
      PROVE  \A v \in Workers : Knows(exec[v])'
    BY <1>3, <1>5, <1>6 DEF CreateOrGetActiveJob, bounds, TypeInv, TypeOK
<1>7. ASSUME NEW j \in Jobs, HeartbeatExpires(j) PROVE \A v \in Workers : Knows(exec[v])'
    <2>1. \A v \in Workers : Busy(exec[v]) => exec[v].job # j
        BY <1>7 DEF HeartbeatExpires, Executing, Busy
    <2>2. QED BY <1>3, <1>5, <1>7, <2>1 DEF HeartbeatExpires, TypeInv, TypeOK
<1>8. ASSUME exec' = exec, runs' = runs, jobs' = jobs
      PROVE  \A v \in Workers : Knows(exec[v])'
    BY <1>5, <1>8
<1>9. ASSUME NEW w \in Workers, \/ \E i \in Inputs : StartJob(w, i)
                                \/ \E j \in Jobs : Submit(w, j)
                                \/ BeginClose(w) \/ Exit(w) \/ Restart(w)
      PROVE  \A v \in Workers : Knows(exec[v])'
    BY <1>8, <1>9 DEF StartJob, Submit, BeginClose, Exit, Restart, dbVars
<1>10. ASSUME MarketRefresh PROVE \A v \in Workers : Knows(exec[v])'
    BY <1>8, <1>10 DEF MarketRefresh, dbVars
<1>11. \A v \in Workers : Knows(exec[v])'
    BY <1>2, <1>4, <1>6, <1>7, <1>9, <1>10 DEF Next, HttpStep, ProcessStep
<1>12. QED BY <1>1, <1>11 DEF KnowsInv

-----------------------------------------------------------------------------
\* All parts together are inductive.
JobsInv == TypeInv /\ Ownership /\ LinksOK /\ OneActive /\ Blank /\ KnowsInv

\* Nothing is active and nobody knows anything at the start.
LEMMA InitJobs == Init => OneActive /\ Blank /\ KnowsInv
<1> SUFFICES ASSUME Init PROVE OneActive /\ Blank /\ KnowsInv
    OBVIOUS
<1>1. \A j \in Jobs : jobs[j] = NoRow /\ jobs[j].status = "absent"
    BY DEF Init, NoRow
<1>2. OneActive
    BY <1>1 DEF OneActive, Active
<1>3. Blank
    <2>1. NoRow.attempt = 0 /\ NoRow.run = NoRun /\ NoRow.status = "absent"
        BY DEF NoRow
    <2>2. QED BY <1>1, <2>1 DEF Blank, View
<1>4. Checkpoints
    <2>1. \A i \in Inputs : ckpt[i].phase = 0
        BY DEF Init
    <2>2. \A i \in Inputs : 0 <= ComputeSteps(i)
        BY StepsType
    <2>3. QED BY <2>1, <2>2 DEF Checkpoints
<1>5. \A w \in Workers : Knows(exec[w])
    BY DEF Init, Idle, Knows, EvidenceOK, NameOK, CountsOK, InsideTry, Opening, Writing
<1>6. QED BY <1>2, <1>3, <1>4, <1>5 DEF KnowsInv

\* They hold for every number of processes, crashes and restarts, from the claims and
\* the links.
THEOREM JobsInvariant == ASSUME ~SlowPhases PROVE Spec => []JobsInv
<1>1. TypeInv /\ Ownership /\ LinksOK /\ OneActive /\ Blank /\ KnowsInv /\ [Next]_vars
          => (OneActive /\ Blank /\ KnowsInv)'
    <2>1. ASSUME OneActive, Blank, KnowsInv, UNCHANGED vars PROVE (OneActive /\ Blank /\ KnowsInv)'
        <3>1. OneActive' /\ Blank'
            BY <2>1 DEF OneActive, Blank, View, NoRow, vars
        <3>2. KnowsInv'
            BY <2>1 DEF KnowsInv, Checkpoints, Knows, EvidenceOK, NameOK, CountsOK, ComputeSteps, vars
        <3>3. QED BY <3>1, <3>2
    <2>2. QED BY <2>1, StepWrites, StepActive, StepKnows
<1>2. JobsInv <=> TypeInv /\ Ownership /\ LinksOK /\ OneActive /\ Blank /\ KnowsInv
    BY DEF JobsInv
<1>3. QED BY <1>1, <1>2, InitJobs, LinksInvariant, PTL DEF Spec

-----------------------------------------------------------------------------
\* The evidence of an ended run is final for every number of processes, crashes and
\* restarts: whoever writes it is the only thread at work on it and knows it is running.
THEOREM EvidenceIsFinal == ASSUME ~SlowPhases PROVE Spec => RunEvidenceIsFinal
<1>1. JobsInv /\ [Next]_vars =>
          [\A r \in RunIds : runs[r].status \in Terminal => runs'[r] = runs[r]]_vars
    <2>1. ASSUME JobsInv, Next, NEW r \in RunIds, runs[r].status \in Terminal
          PROVE  runs'[r] = runs[r]
        <3>1. TypeInv /\ KnowsInv
            BY <2>1 DEF JobsInv
        <3>2. CASE runs' = runs
            BY <3>2
        <3>3. ASSUME NEW w \in Workers, Worked(w) PROVE runs'[r] = runs[r]
            <4>1. exec[w].pc = "publish" => runs[exec[w].run].status = "running"
                BY <3>1 DEF KnowsInv, Knows, EvidenceOK, InsideTry
            <4>2. exec[w].run # r
                BY <2>1, <3>3, <4>1 DEF Worked, Terminal
            <4>3. QED BY <3>3, <4>2 DEF Worked, Advanced
        <3>4. OneWrite
            BY <2>1, <3>1, StepWrites
        <3>5. QED BY <3>2, <3>3, <3>4
                  DEF OneWrite, Quiet, Attempted, Requested, Concluded, Rewritten
    <2>2. QED BY <2>1
<1>2. QED BY <1>1, JobsInvariant, PTL DEF Spec, RunEvidenceIsFinal

\* A multivariate job never concludes from a failed run, whatever attempts failed, crashed
\* or were reclaimed before: a run under a retry nonce is the thread's own until it ends.
THEOREM RetriesCompute == ASSUME ~SlowPhases PROVE Spec => []RetryComputes
<1>1. JobsInv => RetryComputes
    <2>1. ASSUME JobsInv, NEW w \in Workers, At(w, "linkCheck"), Stage(w) = "multivariate"
          PROVE  runs[exec[w].run].status = "succeeded"
        <3>1. exec[w].run.input = Input(w)
            BY <2>1 DEF JobsInv, TypeInv, ThreadOK, Fits, HasRun, At, Input, Row
        <3>2. EvidenceOK(exec[w])
            BY <2>1 DEF JobsInv, KnowsInv, Knows
        <3>3. QED BY <2>1, <3>1, <3>2 DEF EvidenceOK, At, Stage
    <2>2. QED BY <2>1 DEF RetryComputes
<1>2. QED BY <1>1, JobsInvariant, PTL

\* A job never fails because of its own progress, for every total, batch size and checkpoint
\* it resumes from: the row never runs ahead of the thread that holds it.
THEOREM ProgressIsAccepted == ASSUME ~SlowPhases PROVE Spec => []OwnProgressIsAccepted
<1>1. JobsInv => OwnProgressIsAccepted
    <2>1. ASSUME JobsInv, NEW w \in Workers, Busy(exec[w])
          PROVE  LET total == Work[Input(w)] IN
                 /\ At(w, "announce") => AcceptsProgress(Row(w), 0,
                        IF Stage(w) = "univariate" THEN NoTotal ELSE total)
                 /\ exec[w].pc \in {"size", "open"} => AcceptsProgress(Row(w), 0, total)
                 /\ At(w, "report") => AcceptsProgress(Row(w), exec[w].step, total)
                 /\ At(w, "top")    => AcceptsProgress(Row(w),
                        IF Stage(w) = "multivariate" THEN total - 1 ELSE total, total)
                 /\ At(w, "final")  => AcceptsProgress(Row(w), total, total)
        <3>1. /\ TypeInv /\ LinksOK /\ KnowsInv
              /\ jobs[exec[w].job].status = "running"
            BY <2>1 DEF JobsInv, Ownership, Holds
        <3>2. /\ Input(w) = jobs[exec[w].job].input /\ Input(w) \in Inputs
              /\ Stage(w) = StageOf[Input(w)]
              /\ jobs[exec[w].job].current \in Nat /\ exec[w].step \in Nat
              /\ CountsOK(exec[w])
            BY <2>1, <3>1, Situation DEF Knows
        <3>3. PICK i : i = Input(w)
            OBVIOUS
        <3>4. PICK row : row = jobs[exec[w].job]
            OBVIOUS
        <3>5. /\ ComputeSteps(i) \in Nat /\ Work[i] \in Nat /\ ComputeSteps(i) <= Work[i]
              /\ StageOf[i] = "multivariate" => ComputeSteps(i) <= Work[i] - 1
            BY <3>2, <3>3, StepsType
        <3>6. /\ exec[w].pc = "announce" => row.total = NoTotal
              /\ exec[w].pc \in {"announce", "size", "open"} => row.current = 0
              /\ exec[w].pc \in {"announce", "size", "open", "report", "top", "final"}
                     => row.total \in {NoTotal, Work[i]}
              /\ exec[w].pc = "report" => row.current <= exec[w].step
              /\ exec[w].pc = "top" => row.current <= ComputeSteps(i)
              /\ exec[w].pc = "final" => row.current <= Work[i]
            BY <3>2, <3>3, <3>4 DEF CountsOK, Opening, Writing
        <3>7. row.status = "running" /\ Row(w) = row /\ row.current \in Nat
            BY <3>1, <3>2, <3>4 DEF Row
        <3>8. exec[w].pc = "top" => row.current <= IF Stage(w) = "multivariate"
                                                   THEN Work[i] - 1 ELSE Work[i]
            BY <3>2, <3>3, <3>5, <3>6, <3>7
        <3>9. QED BY <3>2, <3>3, <3>6, <3>7, <3>8 DEF AcceptsProgress, At
    <2>2. ASSUME NEW w \in Workers, ~Busy(exec[w])
          PROVE  exec[w].pc \notin {"announce", "size", "open", "report", "top", "final"}
        BY <2>2 DEF Busy
    <2>3. QED BY <2>1, <2>2 DEF OwnProgressIsAccepted, At
<1>2. QED BY <1>1, JobsInvariant, PTL

-----------------------------------------------------------------------------

-----------------------------------------------------------------------------
(***************************************************************************)
(* The tables implement JobContract: every step is one of its steps or     *)
(* none.                                                                   *)
(***************************************************************************)
\* The refinement mapping.
JobTable == [j \in Jobs |-> [status |-> jobs[j].status, input |-> jobs[j].input,
                             attempt |-> jobs[j].attempt, run |-> jobs[j].run]]
RunTable == [r \in RunIds |-> runs[r].status]

\* A rewritten row is one step of the table of jobs.
LEMMA RowTable ==
    ASSUME NEW j \in Jobs, NEW v, Rewritten(j, v)
    PROVE  JobTable' = [JobTable EXCEPT ![j] = v] /\ RunTable' = RunTable
<1>1. JobTable' = [k \in Jobs |-> IF k = j THEN v ELSE View(k)]
    BY DEF Rewritten, JobTable, View
<1>2. JobTable = [k \in Jobs |-> View(k)]
    BY DEF JobTable, View
<1>3. JobTable' = [JobTable EXCEPT ![j] = v]
    BY <1>1, <1>2
<1>4. QED BY <1>3 DEF Rewritten, RunTable

\* A new status of a run is one step of the table of runs.
LEMMA StatusTable ==
    ASSUME NEW r \in RunIds, NEW s, Advanced(r, s)
    PROVE  RunTable' = [RunTable EXCEPT ![r] = s] /\ JobTable' = JobTable
<1>1. RunTable' = [RunTable EXCEPT ![r] = s]
    BY DEF Advanced, RunTable
<1>2. JobTable' = JobTable
    <2>1. \A k \in Jobs : View(k)' = View(k)
        BY DEF Advanced
    <2>2. JobTable = [k \in Jobs |-> View(k)] /\ JobTable' = [k \in Jobs |-> View(k)']
        BY DEF JobTable, View
    <2>3. QED BY <2>1, <2>2
<1>3. QED BY <1>1, <1>2

\* A row of the table, by its name.
LEMMA TableRow ==
    ASSUME NEW j \in Jobs
    PROVE  /\ JobTable[j] = View(j)
           /\ JobTable[j].status = jobs[j].status /\ JobTable[j].input = jobs[j].input
           /\ JobTable[j].attempt = jobs[j].attempt /\ JobTable[j].run = jobs[j].run
BY DEF JobTable, View

\* Both tables start blank.
LEMMA InitContract == Init => Contract!Init
<1> SUFFICES ASSUME Init PROVE Contract!Init
    OBVIOUS
<1>1. \A j \in Jobs : /\ jobs[j].status = "absent" /\ jobs[j].input = Contract!Null
                      /\ jobs[j].attempt = 0 /\ jobs[j].run = NoRun
    <2>1. /\ NoRow.status = "absent" /\ NoRow.input = Contract!Null
          /\ NoRow.attempt = 0 /\ NoRow.run = NoRun
        BY DEF NoRow, Contract!Null
    <2>2. QED BY <2>1 DEF Init
<1>2. \A r \in RunIds : runs[r].status = "absent"
    BY DEF Init
<1>3. QED BY <1>1, <1>2 DEF Contract!Init

\* An insert is a request.
LEMMA RequestContract ==
    ASSUME JobsInv, NEW j \in Jobs, NEW i \in Inputs, Requested(j, i)
    PROVE  Contract!Request(j, i)
<1>1. PICK v : v = [status |-> "queued", input |-> i, attempt |-> 0, run |-> NoRun]
    OBVIOUS
<1>2. JobTable' = [JobTable EXCEPT ![j] = v] /\ RunTable' = RunTable
    BY <1>1, RowTable DEF Requested
<1>3. JobTable[j] = [status |-> "absent", input |-> NoRow.input, attempt |-> 0, run |-> NoRun]
    BY TableRow DEF JobsInv, Blank, Requested
<1>4. [JobTable EXCEPT ![j].status = "queued", ![j].input = i] = [JobTable EXCEPT ![j] = v]
    <2>1. PICK u : u = JobTable[j]
        OBVIOUS
    <2>2. [u EXCEPT !.status = "queued", !.input = i] = v
        <3>1. PICK m : m = [u EXCEPT !.status = "queued"]
            OBVIOUS
        <3>2. m = [status |-> "queued", input |-> NoRow.input, attempt |-> 0, run |-> NoRun]
            BY <1>3, <2>1, <3>1
        <3>3. [m EXCEPT !.input = i] = v
            BY <1>1, <3>2
        <3>4. QED BY <3>1, <3>3
    <2>3. [JobTable EXCEPT ![j].status = "queued", ![j].input = i]
              = [JobTable EXCEPT ![j] = [u EXCEPT !.status = "queued", !.input = i]]
        BY <2>1 DEF JobTable
    <2>4. QED BY <2>2, <2>3
<1>5. \A k \in Jobs : jobs[k].status \in Active => jobs[k].input # i
    BY DEF Requested, ActiveJobs
<1>6. \A k \in Jobs : JobTable[k].status \in {"queued", "running"} => JobTable[k].input # i
    BY <1>5, TableRow DEF Active
<1>7. QED BY <1>2, <1>3, <1>4, <1>6 DEF Contract!Request, Contract!Active, JobTable, RunTable

\* A claim, first or again, is an attempt.
LEMMA AttemptContract ==
    ASSUME JobsInv, NEW j \in Jobs, Attempted(j)
    PROVE  Contract!Attempt(j)
<1>1. PICK v : v = [status |-> "running", input |-> jobs[j].input,
                    attempt |-> jobs[j].attempt + 1, run |-> jobs[j].run]
    OBVIOUS
<1>2. JobTable' = [JobTable EXCEPT ![j] = v] /\ RunTable' = RunTable
    BY <1>1, RowTable DEF Attempted
<1>3. JobTable[j] = [status |-> jobs[j].status, input |-> jobs[j].input,
                     attempt |-> jobs[j].attempt, run |-> jobs[j].run]
    BY TableRow DEF View
<1>4. [JobTable EXCEPT ![j].status = "running", ![j].attempt = @ + 1] = [JobTable EXCEPT ![j] = v]
    <2>1. PICK u : u = JobTable[j]
        OBVIOUS
    <2>2. [u EXCEPT !.status = "running", !.attempt = u.attempt + 1] = v
        <3>1. PICK m : m = [u EXCEPT !.status = "running"]
            OBVIOUS
        <3>2. m = [status |-> "running", input |-> jobs[j].input,
                   attempt |-> jobs[j].attempt, run |-> jobs[j].run]
            BY <1>3, <2>1, <3>1
        <3>3. [m EXCEPT !.attempt = u.attempt + 1] = v
            BY <1>1, <1>3, <2>1, <3>2
        <3>4. QED BY <3>1, <3>3
    <2>3. [JobTable EXCEPT ![j].status = "running", ![j].attempt = @ + 1]
              = [JobTable EXCEPT ![j] = [u EXCEPT !.status = "running", !.attempt = u.attempt + 1]]
        BY <1>3, <2>1 DEF JobTable
    <2>4. QED BY <2>2, <2>3
<1>5. jobs[j].status \in {"queued", "running"}
    BY DEF Attempted, Active
<1>6. QED BY <1>2, <1>4, <1>5, TableRow DEF Contract!Attempt, Contract!Active, JobTable, RunTable

\* Link, success and failure, by the thread that holds the row.
LEMMA ConcludeContract ==
    ASSUME JobsInv, NEW w \in Workers, Busy(exec[w]), Concluded(w)
    PROVE  Contract!Next \/ UNCHANGED <<JobTable, RunTable>>
<1>1. TypeInv /\ LinksOK /\ Ownership /\ KnowsInv
    BY DEF JobsInv
<1>2. PICK j \in Jobs : j = exec[w].job
    BY <1>1 DEF TypeInv, ThreadOK, Fits, Busy
<1>3. jobs[j].status = "running" /\ JobOK(j) /\ LinkOK(exec[w]) /\ NameOK(exec[w])
    BY <1>1, <1>2 DEF Ownership, Holds, LinksOK, KnowsInv, Knows
<1>4. JobTable[j] = [status |-> jobs[j].status, input |-> jobs[j].input,
                     attempt |-> jobs[j].attempt, run |-> jobs[j].run]
    BY TableRow DEF View
<1>5. CASE exec[w].pc = "linkWrite" /\ Rewritten(j, [View(j) EXCEPT !.run = exec[w].run])
    <2>1. PICK r \in RunIds : /\ r = exec[w].run /\ r.input = jobs[j].input
                              /\ runs[r].status \in Terminal /\ jobs[j].run \in {NoRun, r}
        BY <1>1, <1>2, <1>3, <1>5 DEF TypeInv, ThreadOK, Fits, HasRun, LinkOK, NameOK
    <2>2. PICK v : v = [View(j) EXCEPT !.run = r]
        OBVIOUS
    <2>3. JobTable' = [JobTable EXCEPT ![j] = v] /\ RunTable' = RunTable
        BY <1>5, <2>1, <2>2, RowTable
    <2>4. [JobTable EXCEPT ![j].run = r] = [JobTable EXCEPT ![j] = v]
        BY <2>2, TableRow DEF JobTable
    <2>5. CASE jobs[j].run = NoRun
        <3>1. Contract!NameRun(j, r)
            BY <1>3, <2>1, <2>3, <2>4, <2>5, TableRow
            DEF Contract!NameRun, JobTable, RunTable, Terminal
        <3>2. QED BY <3>1 DEF Contract!Next
    <2>6. CASE jobs[j].run = r
        <3>1. v = JobTable[j]
            BY <1>4, <2>2, <2>6 DEF View
        <3>2. QED BY <2>3, <3>1 DEF JobTable
    <2>7. QED BY <2>1, <2>5, <2>6
<1>6. CASE exec[w].pc = "finishWrite" /\ Rewritten(j, [View(j) EXCEPT !.status = "succeeded"])
    <2>1. PICK r \in RunIds : r = jobs[j].run /\ runs[r].status = "succeeded" /\ r # NoRun
        BY <1>1, <1>2, <1>3, <1>6, NullAssumption DEF TypeInv, TypeOK, JobRows, LinkOK
    <2>2. PICK v : v = [View(j) EXCEPT !.status = "succeeded"]
        OBVIOUS
    <2>3. JobTable' = [JobTable EXCEPT ![j] = v] /\ RunTable' = RunTable
        BY <1>6, <2>2, RowTable
    <2>4. [JobTable EXCEPT ![j].status = "succeeded"] = [JobTable EXCEPT ![j] = v]
        BY <2>2, TableRow DEF JobTable
    <2>5. Contract!Succeed(j)
        BY <1>3, <2>1, <2>3, <2>4, TableRow DEF Contract!Succeed, JobTable, RunTable
    <2>6. QED BY <2>5 DEF Contract!Next
<1>7. CASE exec[w].pc = "giveUp" /\ Rewritten(j, [View(j) EXCEPT !.status = "failed"])
    <2>1. PICK v : v = [View(j) EXCEPT !.status = "failed"]
        OBVIOUS
    <2>2. JobTable' = [JobTable EXCEPT ![j] = v] /\ RunTable' = RunTable
        BY <1>7, <2>1, RowTable
    <2>3. [JobTable EXCEPT ![j].status = "failed"] = [JobTable EXCEPT ![j] = v]
        BY <2>1, TableRow DEF JobTable
    <2>4. Contract!Fail(j)
        BY <1>3, <2>2, <2>3, TableRow DEF Contract!Fail, JobTable, RunTable
    <2>5. QED BY <2>4 DEF Contract!Next
<1>8. QED BY <1>2, <1>5, <1>6, <1>7 DEF Concluded

\* The insert and the end of a run; an artifact is not in the contract.
LEMMA WorkContract ==
    ASSUME JobsInv, NEW w \in Workers, Worked(w)
    PROVE  Contract!Next \/ UNCHANGED <<JobTable, RunTable>>
<1>1. PICK r \in RunIds : r = exec[w].run
    BY DEF JobsInv, Worked, TypeInv, ThreadOK, Fits, HasRun, InsideTry
<1>2. CASE runs[r].status = "absent" /\ Advanced(r, "running")
    <2>1. Contract!BeginRun(r)
        BY <1>2, StatusTable DEF Contract!BeginRun, JobTable, RunTable
    <2>2. QED BY <2>1 DEF Contract!Next
<1>3. ASSUME NEW s \in {"succeeded", "failed"}, runs[r].status = "running", Advanced(r, s)
      PROVE  Contract!Next
    <2>1. Contract!EndRun(r)
        BY <1>3, StatusTable DEF Contract!EndRun, JobTable, RunTable
    <2>2. QED BY <2>1 DEF Contract!Next
<1>4. CASE Advanced(r, runs[r].status)
    <2>1. RunTable' = [RunTable EXCEPT ![r] = runs[r].status] /\ JobTable' = JobTable
        BY <1>4, StatusTable
    <2>2. QED BY <2>1 DEF RunTable
<1>5. QED BY <1>1, <1>2, <1>3, <1>4 DEF Worked

\* Every step maps to one of the contract's or to none.
LEMMA StepContract ==
    ASSUME JobsInv, Next
    PROVE  Contract!Next \/ UNCHANGED Contract!vars
<1>1. UNCHANGED <<JobTable, RunTable>> => UNCHANGED Contract!vars
    BY DEF Contract!vars, JobTable, RunTable
<1>2. CASE Quiet
    <2>1. JobTable = [k \in Jobs |-> View(k)] /\ JobTable' = [k \in Jobs |-> View(k)']
        BY DEF JobTable, View
    <2>2. JobTable' = JobTable /\ RunTable' = RunTable
        BY <1>2, <2>1 DEF Quiet, RunTable
    <2>3. QED BY <1>1, <2>2
<1>3. ASSUME NEW j \in Jobs, NEW i \in Inputs, Requested(j, i) PROVE Contract!Next
    BY <1>3, RequestContract DEF Contract!Next
<1>4. ASSUME NEW j \in Jobs, Attempted(j) PROVE Contract!Next
    BY <1>4, AttemptContract DEF Contract!Next
<1>5. ASSUME NEW w \in Workers, Busy(exec[w]), Concluded(w) \/ Worked(w)
      PROVE  Contract!Next \/ UNCHANGED <<JobTable, RunTable>>
    BY <1>5, ConcludeContract, WorkContract
<1>6. QED BY <1>1, <1>2, <1>3, <1>4, <1>5, StepWrites DEF OneWrite, JobsInv

\* The job and run tables keep the promises of JobContract, whatever processes write
\* them, for every number of them: one active job for an input, attempts that only grow,
\* a name that stays, success only through a succeeded run, and ends that are final.
THEOREM TablesImplementContract == ASSUME ~SlowPhases PROVE Spec => ImplementsContract
<1>1. JobsInv /\ [Next]_vars => [Contract!Next]_(Contract!vars)
    <2>1. UNCHANGED vars => UNCHANGED Contract!vars
        BY DEF vars, Contract!vars
    <2>2. QED BY <2>1, StepContract
<1>2. QED BY <1>1, InitContract, JobsInvariant, PTL DEF Spec, ImplementsContract, Contract!Spec
=============================================================================
