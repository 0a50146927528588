---------------------------- MODULE Workspace_proofs ----------------------------
(***************************************************************************)
(* What a tab is shown and what is stored belong together, for any number  *)
(* of tabs, filters, refreshes, failures and deletions. A succeeded run    *)
(* owns artifacts, so no deletion removes it; everything else rests on     *)
(* this: selections keep their run, runs keep their input, and the parts a *)
(* tab read one after the other still exist when it shows them. The last   *)
(* part is about the boxes of the univariate page: what a click on them    *)
(* stores.                                                                 *)
(***************************************************************************)
EXTENDS Workspace, UnivariateFilter, WellFoundedInduction, SequenceTheorems, TLAPS

\* The fields of a row, a task and of a tab.
HasFields(record, fields) == DOMAIN record = fields /\ record = [f \in fields |-> record[f]]

IsRun(run) == HasFields(run, {"id", "status", "artifacts"})
IsRunId(id) == HasFields(id, {"stage", "input", "snap", "nonce"})
IsJob(job) == HasFields(job, {"stage", "input", "status"})
IsTask(record) == HasFields(record, {"step", "job", "run"})
IsTab(page) ==
    /\ HasFields(page, {"call", "view", "state"})
    /\ HasFields(page.call, {"step", "content", "row", "version", "floor", "click", "optimize"})
    /\ HasFields(page.view, {"universes", "selection", "wanted"} \union StageSet)
    /\ HasFields(page.state, {"universe", "selection", "ready"} \union StageSet)

Bounded(S) == S \subseteq Nat /\ \E n \in Nat : \A m \in S : m <= n

Shape ==
    /\ \A i \in DOMAIN runs : IsRun(runs[i])
    /\ Bounded(DOMAIN runs)
    /\ jobs \in Seq({jobs[j] : j \in DOMAIN jobs})
    /\ \A j \in DOMAIN jobs : IsJob(jobs[j])
    /\ tabs = [t \in Tabs |-> tabs[t]]
    /\ \A t \in Tabs : IsTab(tabs[t])
    /\ HasFields(spent, {"clicks", "reads", "failures", "deletes"})
    /\ spent.clicks \in Nat

Started == {"create", "compute", "settle"}

\* What the executor relies on: the run it computes is its own, and its job runs
\* only while the input is there.
TaskOK ==
    \/ task = NoTask
    \/ LET job == jobs[task.job] IN
       /\ IsTask(task)
       /\ task.step \in {"read"} \union Started
       /\ task.job \in DOMAIN jobs
       /\ job.status = "running" => InputExists(job.stage, job.input)
       /\ task.step \in Started =>
             IsRunId(task.run) /\ task.run.stage = job.stage /\ task.run.input = job.input
       /\ task.step \in {"compute", "settle"} =>
             \A i \in RunsNamed(task.run) : runs[i].status = "running"
       /\ task.step = "settle" => \A i \in RunsNamed(task.run) : runs[i].artifacts = TRUE

RowsOK ==
    /\ \A i \in DOMAIN runs : runs[i].id.stage \in StageSet
    /\ \A i \in DOMAIN runs : runs[i].status = "succeeded" => runs[i].artifacts = TRUE
    /\ \A j \in DOMAIN jobs : jobs[j].stage \in StageSet

Saving == {"existing selection", "latest selection", "history selection", "insert selection"}

\* Versions are handed out without a gap, and no two selections are alike.
SelectionsOK ==
    /\ \E n \in Nat : Versions(selections) = 1 .. n
    /\ \A s \in selections : /\ s = [id |-> s.id, version |-> s.version]
                             /\ s.id.nonce \in 0 .. spent.clicks
    /\ \A r, s \in selections : r.version = s.version \/ r.id = s.id => r = s

\* What a save in progress relies on: the click that gave it its nonce is its
\* own, a record of its content is younger than the floor, and the version it
\* computed leaves no gap.
SaveOK(call) ==
    call.step \in Saving =>
        /\ call.row = NoRow
        /\ call.content = SelectionId(call.content.source, call.content.predicate, call.content.nonce)
        /\ RunSucceeded(call.content.source)
        /\ call.floor = 0 \/ call.floor \in Versions(selections)
        /\ call.click \in 1 .. spent.clicks
        /\ \A s \in selections : s.id.nonce # call.click
        /\ call.content.nonce \in {0, call.click}
        /\ call.step = "latest selection" => HasSelection(call.content)
        /\ call.step \in {"history selection", "insert selection"} =>
              \A s \in selections : s.id = call.content => s.version > call.floor
        /\ call.step = "insert selection" =>
              call.version \in Nat \ {0} /\ 1 .. call.version - 1 \subseteq Versions(selections)

SavesOK ==
    /\ \A t \in Tabs : SaveOK(tabs[t].call)
    /\ \A t, u \in Tabs : /\ t # u
                          /\ tabs[t].call.step \in Saving /\ tabs[u].call.step \in Saving
                          => tabs[t].call.click # tabs[u].call.click

\* What a tab has read may be old, but it is still there.
ViewOK(view) ==
    /\ view.selection # NoRow => view.selection \in selections
    /\ \A part \in StageSet :
          /\ Bounded(DOMAIN view[part])
          /\ \A i \in DOMAIN view[part] :
                view[part][i].status = "succeeded" => RunSucceeded(view[part][i].id)

ViewsOK == \A t \in Tabs : ViewOK(tabs[t].view)

IInv ==
    /\ Shape /\ TaskOK /\ RowsOK /\ LineageResolves
    /\ SelectionsOK /\ SavesOK /\ SavesActivate
    /\ ViewsOK /\ ReadyIsOneRevision

-----------------------------------------------------------------------------
(* Numbers *)

\* A set of numbers has a least one.
LEMMA LeastNatural ==
    ASSUME NEW S, S \subseteq Nat, S # {}
    PROVE  \E n \in S : \A m \in S : n <= m
<1> DEFINE R == {p \in Nat \X Nat : p[1] < p[2]}
<1>1. R = OpToRel(<, Nat)
  BY DEF OpToRel
<1>2. IsWellFoundedOn(R, Nat)
  BY <1>1, NatLessThanWellFounded
<1>3. \A m, n \in Nat : <<m, n>> \in R <=> m < n
  OBVIOUS
<1> HIDE DEF R
<1>4. PICK n \in S : \A m \in S : ~(<<m, n>> \in R)
  BY <1>2, WFMin
<1>5. ASSUME NEW m \in S PROVE n <= m
  <2>1. n \in Nat /\ m \in Nat
    OBVIOUS
  <2>2. ~(m < n)
    BY <1>3, <1>4, <2>1
  <2> QED
    BY <2>1, <2>2
<1> QED
  BY <1>5

LEMMA MaxOfBounded ==
    ASSUME NEW S, Bounded(S), S # {}
    PROVE  Max(S) \in S /\ \A m \in S : m <= Max(S)
<1> DEFINE U == {u \in Nat : \A m \in S : m <= u}
<1>1. PICK u \in U : \A w \in U : u <= w
  <2> U \subseteq Nat /\ U # {}
    BY DEF Bounded
  <2> QED
    BY LeastNatural
<1>2. u \in S
  <2> SUFFICES ASSUME u \notin S PROVE FALSE
    OBVIOUS
  <2>1. PICK x \in S : TRUE
    OBVIOUS
  <2>2. x \in Nat /\ x < u
    BY <1>1, <2>1 DEF Bounded
  <2>3. u - 1 \in U
    BY <1>1, <2>2 DEF Bounded
  <2> QED
    BY <2>3, <1>1
<1>3. \E x \in S : \A y \in S : x >= y
  BY <1>1, <1>2 DEF Bounded
<1> QED
  BY <1>3 DEF Max, Bounded

LEMMA NextAfter ==
    ASSUME NEW S, Bounded(S)
    PROVE  /\ Max(S \union {0}) + 1 \in Nat \ S
           /\ Bounded(S \union {Max(S \union {0}) + 1})
<1> DEFINE T == S \union {0}
           m == Max(T)
<1>1. Bounded(T) /\ T # {}
  BY DEF Bounded
<1> HIDE DEF T
<1>2. m \in T /\ \A x \in T : x <= m
  BY <1>1, MaxOfBounded
<1>3. m \in Nat /\ \A x \in S : x <= m
  BY <1>1, <1>2 DEF T, Bounded
<1> HIDE DEF m
<1>4. m + 1 \in Nat \ S /\ Bounded(S \union {m + 1})
  BY <1>3 DEF Bounded
<1> QED
  BY <1>4 DEF m, T

LEMMA BoundedSubset == ASSUME NEW S, Bounded(S), NEW T, T \subseteq S PROVE Bounded(T)
BY DEF Bounded

-----------------------------------------------------------------------------
(* Runs *)

\* A succeeded run stays as it is.
RunsFinal ==
    \A i \in DOMAIN runs : runs[i].status = "succeeded" => i \in DOMAIN runs' /\ runs'[i] = runs[i]

RunRowsOK ==
    /\ \A i \in DOMAIN runs : IsRun(runs[i]) /\ runs[i].id.stage \in StageSet
    /\ Bounded(DOMAIN runs)
    /\ \A i \in DOMAIN runs : runs[i].status = "succeeded" => runs[i].artifacts = TRUE

LEMMA RunStatus ==
    ASSUME NEW run, IsRun(run), NEW status
    PROVE  LET new == [run EXCEPT !.status = status]
           IN  IsRun(new) /\ new.id = run.id /\ new.status = status /\ new.artifacts = run.artifacts
BY DEF IsRun, HasFields

LEMMA RunArtifacts ==
    ASSUME NEW run, IsRun(run)
    PROVE  LET new == [run EXCEPT !.artifacts = TRUE]
           IN  IsRun(new) /\ new.id = run.id /\ new.status = run.status /\ new.artifacts = TRUE
BY DEF IsRun, HasFields

\* The end of the computation touches the run of the task only.
LEMMA WithStatusRows ==
    ASSUME RunRowsOK, NEW id, NEW status,
           runs' = WithStatus(id, status),
           \A i \in RunsNamed(id) : runs[i].status = "running",
           status = "succeeded" => \A i \in RunsNamed(id) : runs[i].artifacts = TRUE
    PROVE  RunRowsOK' /\ RunsFinal
<1>1. DOMAIN runs' = DOMAIN runs
  BY DEF WithStatus
<1>2. ASSUME NEW i \in DOMAIN runs, runs[i].id # id
      PROVE  runs'[i] = runs[i]
  BY <1>2 DEF WithStatus
<1>3. ASSUME NEW i \in DOMAIN runs, runs[i].id = id
      PROVE  /\ IsRun(runs'[i]) /\ runs'[i].id = runs[i].id
             /\ runs'[i].status = status /\ runs'[i].artifacts = runs[i].artifacts
  <2>1. runs'[i] = [runs[i] EXCEPT !.status = status]
    BY <1>3 DEF WithStatus
  <2> QED
    BY <2>1, RunStatus DEF RunRowsOK
<1>4. RunRowsOK'
  BY <1>1, <1>2, <1>3 DEF RunRowsOK, RunsNamed
<1>5. RunsFinal
  BY <1>1, <1>2 DEF RunsFinal, RunsNamed
<1> QED
  BY <1>4, <1>5

LEMMA RunsOfInv == ASSUME IInv PROVE RunRowsOK
BY DEF IInv, Shape, RowsOK, RunRowsOK

LEMMA SameRuns == ASSUME RunRowsOK, runs' = runs PROVE RunRowsOK' /\ RunsFinal
BY DEF RunRowsOK, RunsFinal

\* A deletion that goes through takes no run with artifacts.
LEMMA DeletedRuns ==
    ASSUME RunRowsOK, NEW uid, ~Immutable(Closure(uid)),
           runs' = [i \in {j \in DOMAIN runs : runs[j] \notin Closure(uid).runs} |-> runs[i]]
    PROVE  RunRowsOK' /\ RunsFinal
<1>1. DOMAIN runs' \subseteq DOMAIN runs /\ \A i \in DOMAIN runs' : runs'[i] = runs[i]
  OBVIOUS
<1>2. RunRowsOK'
  BY <1>1, BoundedSubset DEF RunRowsOK
<1>3. ASSUME NEW i \in DOMAIN runs, runs[i].status = "succeeded"
      PROVE  i \in DOMAIN runs'
  BY <1>3 DEF Immutable, RunRowsOK
<1> QED
  BY <1>1, <1>2, <1>3 DEF RunsFinal

LEMMA ExecutorRuns ==
    ASSUME IInv, Execute
    PROVE  RunRowsOK' /\ RunsFinal
<1>1. RunRowsOK
  BY RunsOfInv
<1>2. CASE BeginJob \/ ReadInputs \/ ReuseRun \/ LoseRun
  BY <1>1, <1>2, SameRuns DEF BeginJob, ReadInputs, ReuseRun, LoseRun, tables
<1>3. CASE CreateRun
  <2> DEFINE id == Retried(task.run)
             n == NextRun
             row == [id |-> id, status |-> "running", artifacts |-> FALSE]
  <2>1. n \in Nat \ DOMAIN runs /\ Bounded(DOMAIN runs \union {n})
    BY <1>1, NextAfter DEF RunRowsOK, NextRun
  <2>2. runs' = [i \in DOMAIN runs \union {n} |-> IF i = n THEN row ELSE runs[i]]
    BY <1>3 DEF CreateRun
  <2>3. id.stage \in StageSet
    <3>1. IsRunId(task.run) /\ task.run.stage \in StageSet
      BY <1>3 DEF IInv, TaskOK, CreateRun, Started, RowsOK, NoTask
    <3> QED
      BY <3>1 DEF Retried, IsRunId, HasFields
  <2> HIDE DEF id, n
  <2>4. IsRun(row) /\ row.id = id /\ row.status = "running"
    BY DEF IsRun, HasFields
  <2>5. DOMAIN runs' = DOMAIN runs \union {n} /\ runs'[n] = row
        /\ \A i \in DOMAIN runs : runs'[i] = runs[i]
    BY <2>1, <2>2
  <2> HIDE DEF row
  <2>6. RunRowsOK'
    BY <1>1, <2>1, <2>3, <2>4, <2>5 DEF RunRowsOK
  <2> QED
    BY <2>5, <2>6 DEF RunsFinal
<1>4. CASE PublishArtifacts
  <2>1. \A i \in RunsNamed(task.run) : runs[i].status = "running"
    BY <1>4 DEF IInv, TaskOK, PublishArtifacts, NoTask
  <2>2. runs' = [i \in DOMAIN runs |-> IF runs[i].id = task.run
                                      THEN [runs[i] EXCEPT !.artifacts = TRUE] ELSE runs[i]]
    BY <1>4 DEF PublishArtifacts
  <2>3. ASSUME NEW i \in DOMAIN runs, runs[i].id = task.run
        PROVE  /\ IsRun(runs'[i]) /\ runs'[i].id = runs[i].id
               /\ runs'[i].status = "running" /\ runs'[i].artifacts = TRUE
    <3>1. runs'[i] = [runs[i] EXCEPT !.artifacts = TRUE] /\ runs[i].status = "running"
      BY <2>1, <2>2, <2>3 DEF RunsNamed
    <3> QED
      BY <1>1, <3>1, RunArtifacts DEF RunRowsOK
  <2>4. DOMAIN runs' = DOMAIN runs
        /\ \A i \in DOMAIN runs : runs[i].id # task.run => runs'[i] = runs[i]
    BY <2>2
  <2>5. RunRowsOK'
    BY <1>1, <2>3, <2>4 DEF RunRowsOK
  <2> QED
    BY <2>1, <2>4, <2>5 DEF RunsFinal, RunsNamed
<1>5. CASE SettleRun
  <2>1. /\ \A i \in RunsNamed(task.run) : runs[i].status = "running"
        /\ \A i \in RunsNamed(task.run) : runs[i].artifacts = TRUE
    BY <1>5 DEF IInv, TaskOK, SettleRun, NoTask
  <2>2. runs' = WithStatus(task.run, IF AcceptsProgress(task.job) THEN "succeeded" ELSE "failed")
    BY <1>5 DEF SettleRun
  <2> QED
    BY <1>1, <2>1, <2>2, WithStatusRows
<1>6. CASE FailRun
  <2>1. CASE task.step = "read"
    BY <1>1, <1>6, <2>1, SameRuns DEF FailRun
  <2>2. CASE task.step \in {"compute", "settle"}
    <3>1. runs' = WithStatus(task.run, "failed")
      BY <1>6, <2>2 DEF FailRun
    <3>2. \A i \in RunsNamed(task.run) : runs[i].status = "running"
      BY <2>2 DEF IInv, TaskOK, NoTask
    <3> QED
      BY <1>1, <3>1, <3>2, WithStatusRows
  <2> QED
    BY <1>6, <2>1, <2>2 DEF FailRun
<1> QED
  BY <1>2, <1>3, <1>4, <1>5, <1>6 DEF Execute

-----------------------------------------------------------------------------
(* Jobs *)

JobRowsOK ==
    /\ jobs \in Seq({jobs[j] : j \in DOMAIN jobs})
    /\ \A j \in DOMAIN jobs : IsJob(jobs[j]) /\ jobs[j].stage \in StageSet

\* Jobs keep what they were asked for, and none is started.
JobsKept ==
    /\ DOMAIN jobs \subseteq DOMAIN jobs'
    /\ \A j \in DOMAIN jobs :
          /\ jobs'[j].stage = jobs[j].stage /\ jobs'[j].input = jobs[j].input
          /\ jobs'[j].status = "running" => jobs[j].status = "running"

LEMMA SequenceOfItems ==
    ASSUME NEW f, NEW n \in Nat, DOMAIN f = 1 .. n, f = [i \in 1 .. n |-> f[i]]
    PROVE  f \in Seq({f[i] : i \in DOMAIN f})
<1>1. f \in [1 .. n -> {f[i] : i \in DOMAIN f}]
  OBVIOUS
<1> QED
  BY <1>1, SeqDef

LEMMA SameJobs == ASSUME JobRowsOK, jobs' = jobs PROVE JobRowsOK' /\ JobsKept
BY DEF JobRowsOK, JobsKept

\* The jobs of J get a status, the others keep theirs.
Restatused(J, status) ==
    /\ DOMAIN jobs' = DOMAIN jobs /\ jobs' = [j \in DOMAIN jobs' |-> jobs'[j]]
    /\ \A j \in DOMAIN jobs :
          jobs'[j] = IF j \in J THEN [jobs[j] EXCEPT !.status = status] ELSE jobs[j]

LEMMA StatusChanged ==
    ASSUME JobRowsOK, NEW J, NEW status, Restatused(J, status)
    PROVE  /\ JobRowsOK' /\ DOMAIN jobs' = DOMAIN jobs
           /\ \A j \in DOMAIN jobs :
                 /\ jobs'[j].stage = jobs[j].stage /\ jobs'[j].input = jobs[j].input
                 /\ jobs'[j].status = IF j \in J THEN status ELSE jobs[j].status
<1>1. DOMAIN jobs = 1 .. Len(jobs) /\ Len(jobs) \in Nat
  BY LenProperties DEF JobRowsOK
<1>2. DOMAIN jobs' = 1 .. Len(jobs) /\ jobs' = [j \in 1 .. Len(jobs) |-> jobs'[j]]
  BY <1>1 DEF Restatused
<1>3. jobs' \in Seq({jobs'[j] : j \in DOMAIN jobs'})
  BY <1>1, <1>2, SequenceOfItems
<1>4. ASSUME NEW j \in DOMAIN jobs
      PROVE  /\ IsJob(jobs'[j])
             /\ jobs'[j].stage = jobs[j].stage /\ jobs'[j].input = jobs[j].input
             /\ jobs'[j].status = IF j \in J THEN status ELSE jobs[j].status
  BY DEF JobRowsOK, IsJob, HasFields, Restatused
<1> QED
  BY <1>1, <1>2, <1>3, <1>4 DEF JobRowsOK, Restatused

LEMMA OneStatus ==
    ASSUME JobRowsOK, NEW j \in DOMAIN jobs, NEW status, jobs' = JobStatus(j, status)
    PROVE  /\ JobRowsOK' /\ DOMAIN jobs' = DOMAIN jobs
           /\ \A k \in DOMAIN jobs :
                 /\ jobs'[k].stage = jobs[k].stage /\ jobs'[k].input = jobs[k].input
                 /\ jobs'[k].status = IF k = j THEN status ELSE jobs[k].status
<1>1. jobs = [k \in DOMAIN jobs |-> jobs[k]]
  BY LenProperties DEF JobRowsOK
<1>2. Restatused({j}, status)
  BY <1>1 DEF JobStatus, Restatused
<1> HIDE DEF JobStatus
<1> QED
  BY <1>2, StatusChanged

LEMMA NewJob ==
    ASSUME JobRowsOK, NEW stage \in StageSet, NEW input, SubmitJob(stage, input)
    PROVE  JobRowsOK' /\ JobsKept
<1>1. CASE ActiveJobs(stage, input) # {}
  BY <1>1, SameJobs DEF SubmitJob
<1>2. CASE ActiveJobs(stage, input) = {}
  <2> DEFINE row == [stage |-> stage, input |-> input, status |-> "queued"]
             n == Len(jobs)
             S == {jobs[j] : j \in DOMAIN jobs} \union {row}
  <2>1. jobs \in Seq(S)
    BY SeqMonotonic DEF JobRowsOK
  <2>2. jobs' = Append(jobs, row)
    BY <1>2 DEF SubmitJob
  <2>3. n \in Nat /\ DOMAIN jobs = 1 .. n
    BY <2>1, LenProperties
  <2>4. IsJob(row) /\ row.stage \in StageSet
    BY DEF IsJob, HasFields
  <2> HIDE DEF row, S, n
  <2>5. row \in S
    BY DEF S
  <2>6. /\ jobs' \in Seq(S) /\ Len(jobs') = n + 1 /\ jobs'[n + 1] = row
        /\ \A j \in 1 .. n : jobs'[j] = jobs[j]
    BY <2>1, <2>2, <2>5, AppendProperties DEF n
  <2>7. DOMAIN jobs' = 1 .. n + 1 /\ jobs' = [j \in 1 .. n + 1 |-> jobs'[j]]
    BY <2>6, LenProperties
  <2>8. jobs' \in Seq({jobs'[j] : j \in DOMAIN jobs'})
    BY <2>3, <2>7, SequenceOfItems
  <2>9. \A j \in 1 .. n + 1 : j \in 1 .. n \/ j = n + 1
    BY <2>3
  <2> QED
    BY <2>3, <2>4, <2>6, <2>7, <2>8, <2>9 DEF JobRowsOK, JobsKept
<1> QED
  BY <1>1, <1>2

LEMMA NewJobOnce ==
    ASSUME JobRowsOK, NEW stage \in StageSet, NEW input, SubmitJobOnce(stage, input)
    PROVE  JobRowsOK' /\ JobsKept
BY NewJob, SameJobs DEF SubmitJobOnce

LEMMA OptimizedJob == ASSUME JobRowsOK, NEW state, Optimize(state) PROVE JobRowsOK' /\ JobsKept
BY NewJobOnce, SameJobs DEF Optimize, StageSet

LEMMA EndedJob ==
    ASSUME JobRowsOK, task.job \in DOMAIN jobs, NEW run, NEW rows, EndJob(run, rows)
    PROVE  JobRowsOK' /\ JobsKept /\ task' = NoTask
<1>1. CASE jobs' = jobs
  BY <1>1, SameJobs DEF EndJob
<1>2. ASSUME NEW status \in {"succeeded", "failed"}, jobs' = JobStatus(task.job, status)
      PROVE  JobRowsOK' /\ JobsKept
  BY <1>2, OneStatus DEF JobsKept
<1> QED
  BY <1>1, <1>2 DEF EndJob

-----------------------------------------------------------------------------
(* Tabs *)

TabsShape == tabs = [t \in Tabs |-> tabs[t]] /\ \A t \in Tabs : IsTab(tabs[t])
SpentShape == HasFields(spent, {"clicks", "reads", "failures", "deletes"}) /\ spent.clicks \in Nat

\* A step of a tab leaves the others alone.
OthersKept(t) == \A u \in Tabs \ {t} : tabs'[u] = tabs[u]

LEMMA IdleTabShape ==
    /\ IsTab([call |-> Idle, view |-> EmptyView, state |-> EmptyState])
    /\ HasFields(Idle, {"step", "content", "row", "version", "floor", "click", "optimize"})
    /\ HasFields(EmptyView, {"universes", "selection", "wanted"} \union StageSet)
BY DEF IsTab, HasFields, Idle, EmptyView, EmptyState, StageSet

LEMMA ProjectedShape ==
    ASSUME NEW view
    PROVE  HasFields(Projected(view), {"universe", "selection", "ready"} \union StageSet)
BY DEF HasFields, Projected, StageSet

LEMMA SpentMore ==
    ASSUME SpentShape, NEW what \in {"clicks", "reads", "failures", "deletes"}, Spend(what)
    PROVE  /\ SpentShape'
           /\ spent'.clicks = IF what = "clicks" THEN spent.clicks + 1 ELSE spent.clicks
<1>1. /\ DOMAIN spent' = DOMAIN spent
      /\ \A f \in DOMAIN spent : spent'[f] = IF f = what THEN spent[f] + 1 ELSE spent[f]
  BY DEF SpentShape, Spend, HasFields
<1>2. spent' = [f \in DOMAIN spent |-> spent'[f]]
  BY DEF SpentShape, Spend, HasFields
<1> QED
  BY <1>1, <1>2 DEF SpentShape, HasFields

LEMMA MovedTab ==
    ASSUME TabsShape, NEW t \in Tabs, NEW page, IsTab(page), tabs' = [tabs EXCEPT ![t] = page]
    PROVE  TabsShape' /\ OthersKept(t) /\ tabs'[t] = page
BY DEF TabsShape, OthersKept

\* Only the place in the call changes.
LEMMA GoneTo ==
    ASSUME TabsShape, NEW t \in Tabs, NEW step, Goto(t, step)
    PROVE  /\ TabsShape' /\ OthersKept(t)
           /\ tabs'[t].view = tabs[t].view /\ tabs'[t].state = tabs[t].state
           /\ tabs'[t].call = [tabs[t].call EXCEPT !.step = step]
BY DEF TabsShape, OthersKept, Goto, IsTab, HasFields

\* Only the call changes.
LEMMA CalledTab ==
    ASSUME TabsShape, NEW t \in Tabs, NEW call, tabs' = [tabs EXCEPT ![t].call = call],
           HasFields(call, {"step", "content", "row", "version", "floor", "click", "optimize"})
    PROVE  /\ TabsShape' /\ OthersKept(t)
           /\ tabs'[t].view = tabs[t].view /\ tabs'[t].state = tabs[t].state
           /\ tabs'[t].call = call
BY DEF TabsShape, OthersKept, IsTab, HasFields

-----------------------------------------------------------------------------
(* What the step of a tab does to the tables *)

LEMMA TabRuns ==
    ASSUME IInv, NEW t \in Tabs, TabStep(t)
    PROVE  RunRowsOK' /\ RunsFinal /\ task' = task
<1>1. RunRowsOK
  BY RunsOfInv
<1>2. CASE DeleteProject(t)
  <2> DEFINE uid == tabs[t].state.universe
  <2>1. CASE Immutable(Closure(uid))
    BY <1>1, <1>2, <2>1, SameRuns DEF DeleteProject, tables
  <2>2. CASE ~Immutable(Closure(uid))
    <3>1. /\ runs' = [i \in {j \in DOMAIN runs : runs[j] \notin Closure(uid).runs} |-> runs[i]]
          /\ task' = task
      BY <1>2, <2>2 DEF DeleteProject
    <3> QED
      BY <1>1, <2>2, <3>1, DeletedRuns
  <2> QED
    BY <2>1, <2>2
<1>3. CASE TabStep(t) /\ ~DeleteProject(t)
  <2>1. runs' = runs /\ task' = task
    BY <1>3 DEF TabStep, ChooseFilter, UniverseExisting, UniverseHistory, UniverseInsert, UniverseStored,
                UniverseConflict, SubmitUnivariate, SaveSelection, SelectionExisting, SelectionLatest,
                SelectionHistory, SelectionInsert, SelectionStored, SelectionConflict, ComputeBivariate,
                OptimizeMultivariate, RefreshState, ReadPart, FinishRead, ResumeOptimize, tables
  <2> QED
    BY <1>1, <2>1, SameRuns
<1> QED
  BY <1>2, <1>3

LEMMA JobsOfInv == ASSUME IInv PROVE JobRowsOK
BY DEF IInv, Shape, RowsOK, JobRowsOK

LEMMA TabJobs ==
    ASSUME IInv, NEW t \in Tabs, TabStep(t)
    PROVE  JobRowsOK' /\ JobsKept
<1>1. JobRowsOK
  BY JobsOfInv
<1>2. CASE SubmitUnivariate(t)
  <2>1. CASE jobs' = jobs
    BY <1>1, <2>1, SameJobs
  <2>2. CASE SubmitJob("univariate", tabs[t].call.content.id)
    BY <1>1, <2>2, NewJob DEF StageSet
  <2> QED
    BY <1>2, <2>1, <2>2 DEF SubmitUnivariate
<1>3. CASE ComputeBivariate(t)
  BY <1>1, <1>3, NewJobOnce DEF ComputeBivariate, StageSet
<1>4. CASE OptimizeMultivariate(t)
  <2>1. CASE jobs' = jobs
    BY <1>1, <2>1, SameJobs
  <2>2. CASE Optimize(tabs[t].state)
    BY <1>1, <2>2, OptimizedJob
  <2> QED
    BY <1>4, <2>1, <2>2 DEF OptimizeMultivariate
<1>5. CASE ResumeOptimize(t)
  BY <1>1, <1>5, OptimizedJob DEF ResumeOptimize
<1>6. CASE DeleteProject(t)
  <2> DEFINE uid == tabs[t].state.universe
             J == {j \in DOMAIN jobs : jobs[j].input = uid}
  <2>1. CASE jobs' = jobs
    BY <1>1, <2>1, SameJobs
  <2>2. CASE jobs' = [j \in DOMAIN jobs |-> IF jobs[j].input = uid
                              THEN [jobs[j] EXCEPT !.status = "deleted"] ELSE jobs[j]]
    <3>1. Restatused(J, "deleted")
      BY <2>2 DEF Restatused
    <3> HIDE DEF J
    <3>2. /\ JobRowsOK'
          /\ \A j \in DOMAIN jobs :
                /\ jobs'[j].stage = jobs[j].stage /\ jobs'[j].input = jobs[j].input
                /\ jobs'[j].status = IF j \in J THEN "deleted" ELSE jobs[j].status
      BY <1>1, <3>1, StatusChanged
    <3> QED
      BY <3>1, <3>2 DEF JobsKept, Restatused
  <2> QED
    BY <1>6, <2>1, <2>2 DEF DeleteProject, tables
<1>7. CASE /\ TabStep(t)
           /\ ~(\/ SubmitUnivariate(t) \/ ComputeBivariate(t) \/ OptimizeMultivariate(t)
                \/ ResumeOptimize(t) \/ DeleteProject(t))
  <2>1. jobs' = jobs
    BY <1>7 DEF TabStep, ChooseFilter, UniverseExisting, UniverseHistory, UniverseInsert, UniverseStored,
                UniverseConflict, SaveSelection, SelectionExisting, SelectionLatest,
                SelectionHistory, SelectionInsert, SelectionStored, SelectionConflict,
                RefreshState, ReadPart, FinishRead, tables
  <2> QED
    BY <1>1, <2>1, SameJobs
<1> QED
  BY <1>2, <1>3, <1>4, <1>5, <1>6, <1>7

LEMMA TabSelections ==
    ASSUME NEW t \in Tabs, TabStep(t), ~SelectionInsert(t)
    PROVE  selections' = selections
BY DEF TabStep, ChooseFilter, UniverseExisting, UniverseHistory, UniverseInsert, UniverseStored,
       UniverseConflict, SubmitUnivariate, DeleteProject, SaveSelection, SelectionExisting,
       SelectionLatest, SelectionHistory, SelectionStored, SelectionConflict, ComputeBivariate,
       OptimizeMultivariate, RefreshState, ReadPart, FinishRead, ResumeOptimize, tables

LEMMA NextSelections == ASSUME Next PROVE selections \subseteq selections'
<1>1. CASE Execute \/ PublishMarket
  BY <1>1 DEF Execute, PublishMarket, BeginJob, ReadInputs, CreateRun, ReuseRun, PublishArtifacts,
              LoseRun, SettleRun, FailRun, tables
<1>2. ASSUME NEW t \in Tabs, TabStep(t) PROVE selections \subseteq selections'
  <2>1. CASE SelectionInsert(t)
    BY <2>1 DEF SelectionInsert
  <2> QED
    BY <1>2, <2>1, TabSelections
<1> QED
  BY <1>1, <1>2 DEF Next

LEMMA NextRuns == ASSUME IInv, Next PROVE RunRowsOK' /\ RunsFinal
<1>1. CASE PublishMarket
  BY <1>1, RunsOfInv, SameRuns DEF PublishMarket, tables
<1> QED
  BY <1>1, ExecutorRuns, TabRuns DEF Next

\* A run that once succeeded still does.
LEMMA SucceededStays == ASSUME RunsFinal, NEW id, RunSucceeded(id) PROVE RunSucceeded(id)'
BY DEF RunsFinal, RunSucceeded, RunsNamed

LEMMA ShapeOfInv == ASSUME IInv PROVE TabsShape /\ SpentShape
BY DEF IInv, Shape, TabsShape, SpentShape

CallFields == {"step", "content", "row", "version", "floor", "click", "optimize"}

LEMMA CallShape ==
    ASSUME TabsShape, NEW t \in Tabs
    PROVE  /\ HasFields(tabs[t].call, CallFields)
           /\ HasFields(Idle, CallFields)
           /\ \A call : HasFields(call, CallFields) => HasFields(Reading(call), CallFields)
<1>1. HasFields(tabs[t].call, CallFields)
  BY DEF TabsShape, IsTab, CallFields
<1>2. HasFields(Idle, CallFields)
  BY IdleTabShape DEF CallFields
<1>3. ASSUME NEW call, HasFields(call, CallFields) PROVE HasFields(Reading(call), CallFields)
  BY <1>3 DEF HasFields, Reading, CallFields
<1> QED
  BY <1>1, <1>2, <1>3

\* The part a step reads.
LEMMA ViewedTab ==
    ASSUME TabsShape, NEW t \in Tabs, ReadPart(t)
    PROVE  LET part == tabs[t].call.step IN
           /\ TabsShape' /\ OthersKept(t)
           /\ part \in {"universes", "selection", "wanted"} \union StageSet
           /\ tabs'[t].state = tabs[t].state
           /\ tabs'[t].call = [tabs[t].call EXCEPT !.step = After[part]]
           /\ DOMAIN tabs'[t].view = DOMAIN tabs[t].view
           /\ \A f \in DOMAIN tabs[t].view :
                 tabs'[t].view[f] = IF f = part THEN Stored(part) ELSE tabs[t].view[f]
<1> DEFINE part == tabs[t].call.step
<1>1. part \in {"universes", "selection", "wanted"} \union StageSet
  BY DEF ReadPart, After, StageSet
<1>2. tabs' = [tabs EXCEPT ![t].view[part] = Stored(part), ![t].call.step = After[part]]
  BY DEF ReadPart
<1> DEFINE view == [tabs[t].view EXCEPT ![part] = Stored(part)]
           call == [tabs[t].call EXCEPT !.step = After[part]]
<1>3. HasFields(view, {"universes", "selection", "wanted"} \union StageSet)
      /\ HasFields(call, CallFields)
  BY DEF TabsShape, IsTab, HasFields, CallFields
<1>4. \A f \in DOMAIN tabs[t].view : view[f] = IF f = part THEN Stored(part) ELSE tabs[t].view[f]
  OBVIOUS
<1>5. DOMAIN view = DOMAIN tabs[t].view
  OBVIOUS
<1>6. tabs' = [tabs EXCEPT ![t] = [[tabs[t] EXCEPT !.view = view] EXCEPT !.call = call]]
  BY <1>2 DEF TabsShape, IsTab, HasFields
<1> HIDE DEF part, view, call
<1>7. /\ TabsShape' /\ OthersKept(t)
      /\ tabs'[t].state = tabs[t].state /\ tabs'[t].call = call /\ tabs'[t].view = view
  BY <1>3, <1>6 DEF TabsShape, OthersKept, IsTab, HasFields, CallFields
<1> QED
  BY <1>1, <1>4, <1>5, <1>7 DEF part, call

\* The call a step of a tab leaves: nothing is being saved, and what the last
\* save returned stays or is dropped.
Quiet(t) ==
    LET call == tabs[t].call  new == tabs'[t].call IN
    /\ new.step \notin Saving
    /\ \/ new.row = NoRow
       \/ new.row = call.row /\ new.content = call.content /\ new.floor = call.floor

StateKept(t) ==
    /\ \A f \in {"selection", "ready"} \union StageSet : tabs'[t].state[f] = tabs[t].state[f]

\* What a tab shows and has read changes in few steps.
Effect(t) ==
    /\ TabsShape' /\ OthersKept(t)
    /\ ReadPart(t) \/ tabs'[t].view = tabs[t].view \/ tabs'[t].view = EmptyView
    /\ StateKept(t) \/ (FinishRead(t) /\ tabs'[t].state = Projected(tabs[t].view))

SaveStep(t) ==
    \/ \E p \in Predicates : SaveSelection(t, p)
    \/ SelectionExisting(t) \/ SelectionLatest(t) \/ SelectionHistory(t)
    \/ SelectionInsert(t) \/ SelectionStored(t)

LEMMA MovedCall ==
    ASSUME TabsShape, NEW t \in Tabs, NEW call, tabs' = [tabs EXCEPT ![t].call = call],
           HasFields(call, CallFields)
    PROVE  Effect(t) /\ tabs'[t].call = call
BY CalledTab DEF Effect, StateKept, CallFields

LEMMA MovedStep ==
    ASSUME TabsShape, NEW t \in Tabs, NEW step, Goto(t, step)
    PROVE  Effect(t) /\ tabs'[t].call = [tabs[t].call EXCEPT !.step = step]
BY GoneTo DEF Effect, StateKept

LEMMA QuietReading ==
    ASSUME TabsShape, NEW t \in Tabs
    PROVE  /\ tabs' = [tabs EXCEPT ![t].call = Reading(Idle)] => Effect(t) /\ Quiet(t)
           /\ tabs' = [tabs EXCEPT ![t].call = Idle] => Effect(t) /\ Quiet(t)
           /\ tabs' = [tabs EXCEPT ![t].call = Reading([Idle EXCEPT !.optimize = TRUE])]
                 => Effect(t) /\ Quiet(t)
<1>1. HasFields(Idle, CallFields) /\ HasFields([Idle EXCEPT !.optimize = TRUE], CallFields)
  BY DEF Idle, HasFields, CallFields
<1>2. HasFields(Reading(Idle), CallFields)
      /\ HasFields(Reading([Idle EXCEPT !.optimize = TRUE]), CallFields)
  BY <1>1, CallShape
<1>3. /\ Idle.row = NoRow /\ Idle.step \notin Saving
      /\ Reading(Idle).row = NoRow /\ Reading(Idle).step \notin Saving
      /\ Reading([Idle EXCEPT !.optimize = TRUE]).row = NoRow
      /\ Reading([Idle EXCEPT !.optimize = TRUE]).step \notin Saving
  BY DEF Idle, Reading, Saving
<1>4. ASSUME NEW call \in {Idle, Reading(Idle), Reading([Idle EXCEPT !.optimize = TRUE])},
             tabs' = [tabs EXCEPT ![t].call = call]
      PROVE  Effect(t) /\ Quiet(t)
  <2>1. Effect(t) /\ tabs'[t].call = call
    BY <1>1, <1>2, <1>4, MovedCall
  <2> QED
    BY <1>3, <2>1 DEF Quiet
<1> QED
  BY <1>4

LEMMA QuietStep ==
    ASSUME TabsShape, NEW t \in Tabs, NEW step, step \notin Saving, Goto(t, step)
    PROVE  Effect(t) /\ Quiet(t)
<1>1. Effect(t) /\ tabs'[t].call = [tabs[t].call EXCEPT !.step = step]
  BY MovedStep
<1>2. HasFields(tabs[t].call, CallFields)
  BY CallShape
<1> QED
  BY <1>1, <1>2 DEF Quiet, HasFields, CallFields

LEMMA QuietTab ==
    ASSUME TabsShape, NEW t \in Tabs, TabStep(t), ~SaveStep(t)
    PROVE  Effect(t) /\ Quiet(t)
<1>1. ASSUME NEW c \in MetadataFilters, ChooseFilter(t, c) PROVE Effect(t) /\ Quiet(t)
  <2> DEFINE call == [Idle EXCEPT
                    !.step = "existing universe",
                    !.content = [id |-> [choice |-> c, lineage |-> market.lineage],
                                 members |-> <<c, market.members>>]]
  <2>1. tabs' = [tabs EXCEPT ![t].call = call]
    BY <1>1 DEF ChooseFilter
  <2>2. HasFields(call, CallFields) /\ call.row = NoRow /\ call.step \notin Saving
    BY DEF Idle, HasFields, CallFields, Saving
  <2> HIDE DEF call
  <2>3. Effect(t) /\ tabs'[t].call = call
    BY <2>1, <2>2, MovedCall
  <2> QED
    BY <2>2, <2>3 DEF Quiet
<1>2. CASE UniverseExisting(t) \/ UniverseInsert(t) \/ UniverseStored(t)
  <2>1. \E step \in {"submit universe", "history universe"} : Goto(t, step)
    BY <1>2 DEF UniverseExisting, UniverseInsert, UniverseStored
  <2> QED
    BY <2>1, QuietStep DEF Saving
<1>3. CASE UniverseHistory(t)
  <2> DEFINE call == [tabs[t].call EXCEPT !.step = "insert universe", !.version = NextVersion(universes)]
  <2>1. HasFields(tabs[t].call, CallFields)
    BY CallShape
  <2>2. /\ HasFields(call, CallFields) /\ call.step = "insert universe"
        /\ call.row = tabs[t].call.row /\ call.content = tabs[t].call.content
        /\ call.floor = tabs[t].call.floor
    BY <2>1 DEF HasFields, CallFields
  <2>3. tabs' = [tabs EXCEPT ![t].call = call]
    BY <1>3 DEF UniverseHistory, TabsShape, IsTab, HasFields
  <2> HIDE DEF call
  <2>4. Effect(t) /\ tabs'[t].call = call
    BY <2>2, <2>3, MovedCall
  <2> QED
    BY <2>2, <2>4 DEF Quiet, Saving
<1>4. CASE UniverseConflict(t)
  BY <1>4, QuietReading DEF UniverseConflict
<1>5. CASE SubmitUnivariate(t)
  <2> DEFINE state == [tabs[t].state EXCEPT !.universe = tabs[t].call.content.id]
  <2>1. tabs' = [tabs EXCEPT ![t] = [[tabs[t] EXCEPT !.call = Idle] EXCEPT !.state = state]]
    BY <1>5 DEF SubmitUnivariate, TabsShape, IsTab, HasFields
  <2>2. /\ HasFields(state, {"universe", "selection", "ready"} \union StageSet)
        /\ \A f \in {"selection", "ready"} \union StageSet : state[f] = tabs[t].state[f]
    BY DEF TabsShape, IsTab, HasFields, StageSet
  <2> HIDE DEF state
  <2>3. /\ TabsShape' /\ OthersKept(t)
        /\ tabs'[t].state = state /\ tabs'[t].call = Idle /\ tabs'[t].view = tabs[t].view
    BY <2>1, <2>2, IdleTabShape DEF TabsShape, OthersKept, IsTab, HasFields
  <2>4. Idle.row = NoRow /\ Idle.step \notin Saving
    BY DEF Idle, Saving
  <2> QED
    BY <2>2, <2>3, <2>4 DEF Effect, Quiet, StateKept
<1>6. CASE DeleteProject(t) \/ SelectionConflict(t) \/ ComputeBivariate(t) \/ RefreshState(t)
  BY <1>6, QuietReading DEF DeleteProject, SelectionConflict, ComputeBivariate, RefreshState, Reread
<1>7. CASE OptimizeMultivariate(t)
  BY <1>7, QuietReading DEF OptimizeMultivariate, Reread
<1>8. CASE ReadPart(t)
  <2>1. /\ TabsShape' /\ OthersKept(t) /\ tabs'[t].state = tabs[t].state
        /\ tabs[t].call.step \in DOMAIN After
        /\ tabs'[t].call = [tabs[t].call EXCEPT !.step = After[tabs[t].call.step]]
    BY <1>8, ViewedTab DEF ReadPart
  <2>2. After[tabs[t].call.step] \notin Saving
    <3>1. After[tabs[t].call.step] \in {"selection", "univariate", "bivariate", "multivariate", "wanted", "listings"}
      BY <2>1 DEF After
    <3> QED
      BY <3>1 DEF Saving
  <2>3. HasFields(tabs[t].call, CallFields)
    BY CallShape
  <2>4. Quiet(t)
    BY <2>1, <2>2, <2>3 DEF Quiet, HasFields, CallFields
  <2> QED
    BY <1>8, <2>1, <2>4 DEF Effect, StateKept
<1>9. CASE FinishRead(t)
  <2> DEFINE page == [call |-> Idle, view |-> EmptyView, state |-> Projected(tabs[t].view)]
  <2>1. IsTab(page)
    BY IdleTabShape, ProjectedShape DEF IsTab, HasFields
  <2>2. tabs' = [tabs EXCEPT ![t] = page]
    BY <1>9 DEF FinishRead
  <2>3. page.view = EmptyView /\ page.state = Projected(tabs[t].view) /\ page.call = Idle
    OBVIOUS
  <2> HIDE DEF page
  <2>4. TabsShape' /\ OthersKept(t) /\ tabs'[t] = page
    BY <2>1, <2>2, MovedTab
  <2>5. Idle.row = NoRow /\ Idle.step \notin Saving
    BY DEF Idle, Saving
  <2>6. /\ tabs'[t].view = EmptyView /\ tabs'[t].state = Projected(tabs[t].view)
        /\ tabs'[t].call = Idle
    BY <2>3, <2>4
  <2> QED
    BY <1>9, <2>4, <2>5, <2>6 DEF Effect, Quiet
<1>10. CASE ResumeOptimize(t)
  <2> DEFINE call == Reading(Idle)
  <2>1. tabs' = [tabs EXCEPT ![t] = [[tabs[t] EXCEPT !.call = call] EXCEPT !.view = EmptyView]]
    BY <1>10 DEF ResumeOptimize, TabsShape, IsTab, HasFields
  <2>2. HasFields(call, CallFields) /\ call.row = NoRow /\ call.step \notin Saving
    BY CallShape DEF Idle, Reading, Saving
  <2> HIDE DEF call
  <2>3. /\ TabsShape' /\ OthersKept(t)
        /\ tabs'[t].state = tabs[t].state /\ tabs'[t].call = call /\ tabs'[t].view = EmptyView
    BY <2>1, <2>2, IdleTabShape DEF TabsShape, OthersKept, IsTab, HasFields, CallFields
  <2> QED
    BY <2>2, <2>3 DEF Effect, Quiet, StateKept
<1> QED
  BY <1>1, <1>2, <1>3, <1>4, <1>5, <1>6, <1>7, <1>8, <1>9, <1>10 DEF TabStep, SaveStep

-----------------------------------------------------------------------------
(* Selections and their versions *)

LEMMA NewestSelection ==
    ASSUME SelectionsOK, selections # {}
    PROVE  /\ Newest(selections) \in selections
           /\ \A s \in selections : s.version <= Newest(selections).version
<1>1. PICK n \in Nat : Versions(selections) = 1 .. n
  BY DEF SelectionsOK
<1>2. n >= 1
  BY <1>1 DEF Versions
<1>3. PICK row \in selections : row.version = n
  BY <1>1, <1>2 DEF Versions
<1>4. \A other \in selections : other.version \in 1 .. n
  BY <1>1 DEF Versions
<1>5. \A other \in selections : other.version <= row.version
  BY <1>3, <1>4
<1> QED
  BY <1>5 DEF Newest

LEMMA FloorVersion ==
    ASSUME SelectionsOK PROVE NewestVersion = 0 \/ NewestVersion \in Versions(selections)
BY NewestSelection DEF NewestVersion, Versions

LEMMA GaplessVersion ==
    ASSUME SelectionsOK
    PROVE  /\ NextVersion(selections) \in Nat \ {0}
           /\ 1 .. NextVersion(selections) - 1 \subseteq Versions(selections)
<1>1. PICK n \in Nat : Versions(selections) = 1 .. n
  BY DEF SelectionsOK
<1> DEFINE V == Versions(selections) \union {0}
<1>2. Bounded(V) /\ V # {}
  BY <1>1 DEF Bounded
<1>3. \A m \in V : m \in 0 .. n
  BY <1>1
<1> HIDE DEF V
<1>4. Max(V) \in 0 .. n
  BY <1>2, <1>3, MaxOfBounded
<1>5. NextVersion(selections) = Max(V) + 1
  BY DEF NextVersion, V
<1> QED
  BY <1>1, <1>4, <1>5

\* A selection that is stored comes right after the newest, under an identity
\* of its own.
LEMMA Inserted ==
    ASSUME IInv, NEW t \in Tabs, SelectionInsert(t)
    PROVE  LET call == tabs[t].call
               row == [id |-> call.content, version |-> call.version]
           IN  /\ selections' = selections \union {row}
               /\ SelectionsOK'
               /\ \A s \in selections : s.version < row.version
               /\ row.version > call.floor
<1> DEFINE call == tabs[t].call
           row == [id |-> call.content, version |-> call.version]
<1>1. PICK n \in Nat : Versions(selections) = 1 .. n
  BY DEF IInv, SelectionsOK
<1>2. /\ selections' = selections \union {row} /\ spent' = spent
      /\ ~HasSelection(call.content) /\ ~VersionTaken(call.version)
  BY DEF SelectionInsert
<1>3. /\ SaveOK(call) /\ call.step = "insert selection"
  BY DEF IInv, SavesOK, SelectionInsert, At
<1>4. /\ call.version \in Nat \ {0} /\ 1 .. call.version - 1 \subseteq 1 .. n
      /\ call.version \notin 1 .. n
  BY <1>1, <1>2, <1>3 DEF SaveOK, Saving, VersionTaken
<1>5. call.version = n + 1
  <2>1. call.version >= n + 1
    BY <1>4
  <2>2. CASE call.version > n + 1
    <3>1. n + 1 \in 1 .. call.version - 1
      BY <1>4, <2>2
    <3> QED
      BY <1>4, <3>1
  <2> QED
    BY <1>4, <2>1, <2>2
<1>6. spent.clicks \in Nat
  BY DEF IInv, Shape
<1>7. call.content.nonce \in 0 .. spent.clicks
  <2>1. call.content.nonce \in {0, call.click} /\ call.click \in 1 .. spent.clicks
    BY <1>3 DEF SaveOK, Saving
  <2> HIDE DEF call
  <2> QED
    BY <1>6, <2>1
<1>8. row.id = call.content /\ row.version = n + 1 /\ row = [id |-> row.id, version |-> row.version]
  BY <1>5
<1>9. \A s \in selections : s.version \in 1 .. n /\ s.id # call.content
  BY <1>1, <1>2 DEF Versions, HasSelection
<1> HIDE DEF row
<1>10. SelectionsOK'
  <2>1. Versions(selections)' = 1 .. n + 1
    <3>1. Versions(selections)' = Versions(selections) \union {n + 1}
      BY <1>2, <1>8 DEF Versions
    <3>2. 1 .. n + 1 = (1 .. n) \union {n + 1}
      OBVIOUS
    <3> QED
      BY <1>1, <3>1, <3>2
  <2>2. \A s \in selections' : /\ s = [id |-> s.id, version |-> s.version]
                               /\ s.id.nonce \in 0 .. spent'.clicks
    BY <1>2, <1>7, <1>8 DEF IInv, SelectionsOK
  <2>3. \A r, s \in selections' : r.version = s.version \/ r.id = s.id => r = s
    <3> SUFFICES ASSUME NEW r \in selections', NEW s \in selections',
                        r.version = s.version \/ r.id = s.id
                 PROVE  r = s
      OBVIOUS
    <3>1. CASE r \in selections /\ s \in selections
      BY <3>1 DEF IInv, SelectionsOK
    <3>2. CASE r = row /\ s \in selections
      BY <1>8, <1>9, <3>2
    <3>3. CASE s = row /\ r \in selections
      BY <1>8, <1>9, <3>3
    <3> QED
      BY <1>2, <3>1, <3>2, <3>3
  <2>4. n + 1 \in Nat
    OBVIOUS
  <2> QED
    BY <2>1, <2>2, <2>3, <2>4 DEF SelectionsOK
<1>11. call.floor \in 0 .. n
  <2>1. call.floor = 0 \/ call.floor \in Versions(selections)
    BY <1>3 DEF SaveOK, Saving
  <2> HIDE DEF call
  <2> QED
    BY <1>1, <2>1
<1>12. \A s \in selections : s.version < row.version
  BY <1>8, <1>9
<1>13. row.version > call.floor
  BY <1>8, <1>11
<1> QED
  BY <1>2, <1>10, <1>12, <1>13 DEF row

\* A save in progress does not notice what others do.
LEMMA SaveKept ==
    ASSUME NEW u \in Tabs, tabs'[u].call = tabs[u].call, SaveOK(tabs[u].call),
           RunsFinal, selections \subseteq selections',
           spent.clicks \in Nat, spent'.clicks \in Nat, spent.clicks <= spent'.clicks,
           tabs[u].call.step \in Saving =>
               \A s \in selections' \ selections :
                   s.id.nonce # tabs[u].call.click /\ s.version > tabs[u].call.floor
    PROVE  SaveOK(tabs[u].call)'
<1> DEFINE call == tabs[u].call
<1> SUFFICES ASSUME call.step \in Saving PROVE SaveOK(tabs[u].call)'
  BY DEF SaveOK
<1>1. RunSucceeded(call.content.source)'
  <2>1. \E i \in DOMAIN runs : runs[i].id = call.content.source /\ runs[i].status = "succeeded"
    BY DEF SaveOK, RunSucceeded, RunsNamed
  <2> QED
    BY <2>1 DEF RunsFinal, RunSucceeded, RunsNamed
<1>2. Versions(selections) \subseteq Versions(selections)'
  BY DEF Versions
<1>3. call.click \in 1 .. spent'.clicks
  <2>1. call.click \in 1 .. spent.clicks
    BY DEF SaveOK
  <2> HIDE DEF call
  <2> QED
    BY <2>1
<1>4. \A s \in selections' : s.id.nonce # call.click
  BY DEF SaveOK
<1>5. call.step \in {"history selection", "insert selection"} =>
          \A s \in selections' : s.id = call.content => s.version > call.floor
  BY DEF SaveOK
<1>6. call.step = "insert selection" =>
          call.version \in Nat \ {0} /\ 1 .. call.version - 1 \subseteq Versions(selections)'
  BY <1>2 DEF SaveOK
<1>7. call.step = "latest selection" => HasSelection(call.content)'
  BY DEF SaveOK, HasSelection
<1> QED
  BY <1>1, <1>2, <1>3, <1>4, <1>5, <1>6, <1>7 DEF SaveOK

\* What a tab's last save returned.
RowOK(call) ==
    call.row # NoRow =>
        /\ call.row.id.source = call.content.source
        /\ call.row.id.predicate = call.content.predicate
        /\ call.row.version >= call.floor

\* A save goes on: its call is again one that SaveOK describes.
SaveGoesOn(t) ==
    /\ Effect(t)
    /\ tabs[t].call.step \in Saving /\ tabs'[t].call.click = tabs[t].call.click
    /\ tabs'[t].call.step \in Saving /\ SaveOK(tabs[t].call)' /\ RowOK(tabs[t].call)'

\* A save is acknowledged.
SaveEnds(t) ==
    Effect(t) /\ tabs'[t].call.step \notin Saving /\ RowOK(tabs[t].call)'

LEMMA RowAcknowledged ==
    ASSUME IInv, NEW t \in Tabs, NEW row, Acknowledge(t, row),
           row.id = tabs[t].call.content, row.version >= tabs[t].call.floor
    PROVE  SaveEnds(t)
<1> DEFINE call == Reading([tabs[t].call EXCEPT !.row = row])
<1>1. TabsShape
  BY ShapeOfInv
<1>2. HasFields(tabs[t].call, CallFields)
  BY <1>1, CallShape
<1>3. HasFields([tabs[t].call EXCEPT !.row = row], CallFields)
  BY <1>2 DEF HasFields, CallFields
<1>4. HasFields(call, CallFields)
  BY <1>1, <1>3, CallShape
<1>5. /\ call.row = row /\ call.content = tabs[t].call.content /\ call.floor = tabs[t].call.floor
      /\ call.step = "universes"
  BY <1>2 DEF Reading, HasFields, CallFields
<1>6. tabs' = [tabs EXCEPT ![t].call = call]
  BY DEF Acknowledge
<1> HIDE DEF call
<1>7. Effect(t) /\ tabs'[t].call = call
  BY <1>1, <1>4, <1>6, MovedCall
<1> QED
  BY <1>5, <1>7 DEF SaveEnds, RowOK, Saving

\* Each step of a save, the insertion excepted.
LEMMA SaveSelectionOK ==
    ASSUME IInv, NEW t \in Tabs, NEW p \in Predicates, SaveSelection(t, p)
    PROVE  /\ spent'.clicks = spent.clicks + 1
           /\ \/ Effect(t) /\ Quiet(t)
              \/ /\ Effect(t) /\ tabs'[t].call.step \in Saving /\ tabs'[t].call.click = spent'.clicks
                 /\ SaveOK(tabs[t].call)' /\ RowOK(tabs[t].call)'
<1>1. TabsShape /\ SpentShape
  BY ShapeOfInv
<1>2. spent'.clicks = spent.clicks + 1 /\ spent.clicks \in Nat
  BY <1>1, SpentMore DEF SaveSelection, Click, SpentShape
<1> DEFINE source == tabs[t].state.univariate
           call == [Idle EXCEPT
                          !.step = "existing selection",
                          !.content = SelectionId(source, p, 0),
                          !.floor = NewestVersion, !.click = spent'.clicks]
<1>3. CASE ~RunSucceeded(source)
  BY <1>1, <1>2, <1>3, QuietReading DEF SaveSelection, Reread
<1>4. CASE RunSucceeded(source)
  <2>1. tabs' = [tabs EXCEPT ![t].call = call] /\ selections' = selections /\ runs' = runs
    BY <1>4 DEF SaveSelection, tables
  <2>2. /\ HasFields(call, CallFields) /\ call.row = NoRow
        /\ call.step = "existing selection" /\ call.content = SelectionId(source, p, 0)
        /\ call.floor = NewestVersion /\ call.click = spent'.clicks
    BY DEF Idle, HasFields, CallFields
  <2> HIDE DEF call
  <2>3. Effect(t) /\ tabs'[t].call = call
    BY <1>1, <2>1, <2>2, MovedCall
  <2>4. call.content = SelectionId(call.content.source, call.content.predicate, call.content.nonce)
        /\ call.content.source = source /\ call.content.nonce = 0
    <3>1. LET id == SelectionId(source, p, 0)
          IN  id.source = source /\ id.predicate = p /\ id.nonce = 0
      BY DEF SelectionId
    <3> HIDE DEF source
    <3> QED
      BY <2>2, <3>1
  <2>5. call.floor = 0 \/ call.floor \in Versions(selections)
    BY <2>2, FloorVersion DEF IInv
  <2>6. call.click = spent.clicks + 1
    BY <1>2, <2>2
  <2>7. \A s \in selections : s.id.nonce # call.click
    <3> TAKE s \in selections
    <3>1. s.id.nonce \in 0 .. spent.clicks
      BY DEF IInv, SelectionsOK
    <3> QED
      BY <1>2, <2>6, <3>1
  <2>8. \E i \in DOMAIN runs' : runs'[i].id = call.content.source /\ runs'[i].status = "succeeded"
    BY <1>4, <2>1, <2>4 DEF RunSucceeded, RunsNamed
  <2>9. call.click \in 1 .. spent'.clicks
    BY <1>2, <2>6
  <2>10. SaveOK(tabs[t].call)'
    BY <2>1, <2>2, <2>3, <2>4, <2>5, <2>7, <2>8, <2>9
    DEF SaveOK, Versions, RunSucceeded, RunsNamed
  <2> QED
    BY <1>2, <2>2, <2>3, <2>10 DEF RowOK, Saving
<1> QED
  BY <1>3, <1>4

LEMMA SaveStepOK ==
    ASSUME IInv, NEW t \in Tabs,
           SelectionExisting(t) \/ SelectionLatest(t) \/ SelectionHistory(t) \/ SelectionStored(t)
    PROVE  SaveGoesOn(t) \/ SaveEnds(t)
<1> DEFINE call == tabs[t].call
<1>1. TabsShape /\ SelectionsOK /\ SaveOK(call)
  BY ShapeOfInv DEF IInv, SavesOK
<1>2. selections' = selections /\ runs' = runs /\ spent' = spent
  BY DEF SelectionExisting, SelectionLatest, SelectionHistory, SelectionStored, tables
<1>3. call.step \in Saving
  BY DEF SelectionExisting, SelectionLatest, SelectionHistory, SelectionStored, At, Saving
<1>4. HasFields(call, CallFields)
  BY <1>1, CallShape
\* Whatever the next step is, most of SaveOK stays.
<1>5. ASSUME NEW new, HasFields(new, CallFields), new.step \in Saving, new.row = call.row,
             new.floor = call.floor, new.click = call.click,
             new.content = SelectionId(call.content.source, call.content.predicate, new.content.nonce),
             new.content.nonce \in {0, call.click},
             new.step = "latest selection" => HasSelection(new.content),
             new.step \in {"history selection", "insert selection"} =>
                 \A s \in selections : s.id = new.content => s.version > new.floor,
             new.step = "insert selection" =>
                 new.version \in Nat \ {0} /\ 1 .. new.version - 1 \subseteq Versions(selections),
             tabs' = [tabs EXCEPT ![t].call = new]
      PROVE  SaveGoesOn(t)
  <2>1. Effect(t) /\ tabs'[t].call = new
    BY <1>1, <1>5, MovedCall
  <2>2. /\ call.row = NoRow /\ RunSucceeded(call.content.source)
        /\ call.floor = 0 \/ call.floor \in Versions(selections)
        /\ call.click \in 1 .. spent.clicks /\ \A s \in selections : s.id.nonce # call.click
    BY <1>1, <1>3 DEF SaveOK
  <2>3. new.content.source = call.content.source /\ new.content.predicate = call.content.predicate
    <3>1. SelectionId(call.content.source, call.content.predicate, new.content.nonce).source = call.content.source
          /\ SelectionId(call.content.source, call.content.predicate, new.content.nonce).predicate = call.content.predicate
      BY DEF SelectionId
    <3> QED
      BY <1>5, <3>1
  <2>4. RunSucceeded(new.content.source)' /\ (HasSelection(new.content) => HasSelection(new.content)')
    BY <1>2, <2>2, <2>3 DEF RunSucceeded, RunsNamed, HasSelection
  <2>5. Versions(selections)' = Versions(selections)
    BY <1>2 DEF Versions
  <2>6. SaveOK(tabs[t].call)'
    BY <1>2, <1>5, <2>1, <2>2, <2>3, <2>4, <2>5 DEF SaveOK
  <2>7. RowOK(tabs[t].call)'
    BY <1>5, <2>1, <2>2 DEF RowOK
  <2> QED
    BY <1>3, <1>5, <2>1, <2>6, <2>7 DEF SaveGoesOn
<1>6. call.content = SelectionId(call.content.source, call.content.predicate, call.content.nonce)
      /\ call.content.nonce \in {0, call.click}
  BY <1>1, <1>3 DEF SaveOK
<1>7. CASE SelectionExisting(t)
  <2> DEFINE step == IF HasSelection(call.content) THEN "latest selection" ELSE "history selection"
             new == [call EXCEPT !.step = step]
  <2>1. HasFields(new, CallFields) /\ new.step = step
        /\ \A f \in CallFields \ {"step"} : new[f] = call[f]
    BY <1>4 DEF HasFields, CallFields
  <2>2. tabs' = [tabs EXCEPT ![t].call = new]
    BY <1>1, <1>7 DEF SelectionExisting, Goto, TabsShape, IsTab, HasFields
  <2>3. /\ new.row = call.row /\ new.floor = call.floor /\ new.click = call.click
        /\ new.content = call.content
    BY <2>1 DEF CallFields
  <2>4. /\ step = "latest selection" => HasSelection(call.content)
        /\ step \in {"history selection", "insert selection"} => \A s \in selections : s.id # call.content
        /\ step \in Saving /\ step # "insert selection"
    BY DEF HasSelection, Saving
  <2> HIDE DEF new, step
  <2> QED
    BY <1>5, <1>6, <2>1, <2>2, <2>3, <2>4
<1>8. CASE SelectionLatest(t)
  <2>1. HasSelection(call.content)
    BY <1>1, <1>8 DEF SelectionLatest, At, SaveOK, Saving
  <2>2. CASE Active(call.content)
    <3> DEFINE row == CHOOSE s \in selections : s.id = call.content
    <3>1. row \in selections /\ row.id = call.content
      BY <2>1 DEF HasSelection
    <3>2. Newest(selections) \in selections /\ Newest(selections).id = call.content
          /\ \A s \in selections : s.version <= Newest(selections).version
      BY <1>1, <2>1, <2>2, NewestSelection DEF HasSelection, Active
    <3>3. Acknowledge(t, row)
      BY <1>8, <2>2 DEF SelectionLatest
    <3> HIDE DEF row
    <3>4. row = Newest(selections)
      BY <1>1, <3>1, <3>2 DEF SelectionsOK
    <3>5. PICK n \in Nat : Versions(selections) = 1 .. n
      BY <1>1 DEF SelectionsOK
    <3>6. row.version \in 1 .. n /\ (call.floor = 0 \/ \E s \in selections : s.version = call.floor)
      BY <1>1, <1>3, <3>1, <3>5 DEF SaveOK, Versions
    <3>7. row.version >= call.floor
      BY <3>2, <3>4, <3>5, <3>6
    <3> QED
      BY <3>1, <3>3, <3>7, RowAcknowledged
  <2>3. CASE ~Active(call.content)
    <3> DEFINE content == [call.content EXCEPT !.nonce = call.click]
               new == [[call EXCEPT !.step = "history selection"] EXCEPT !.content = content]
    <3>1. tabs' = [tabs EXCEPT ![t].call = new]
      <4>1. tabs' = [tabs EXCEPT ![t].call.step = "history selection",
                                 ![t].call.content.nonce = call.click]
        BY <1>8, <2>3 DEF SelectionLatest
      <4> QED
        BY <1>1, <4>1 DEF TabsShape, IsTab, HasFields
    <3>2. content = SelectionId(call.content.source, call.content.predicate, call.click)
          /\ content.nonce = call.click
      BY <1>6 DEF SelectionId
    <3> HIDE DEF content
    <3>3. /\ HasFields(new, CallFields) /\ new.step = "history selection" /\ new.row = call.row
          /\ new.floor = call.floor /\ new.click = call.click /\ new.content = content
      BY <1>4 DEF HasFields, CallFields
    <3>4. \A s \in selections : s.id # content
      BY <1>1, <1>3, <3>2 DEF SaveOK
    <3> HIDE DEF new
    <3> QED
      BY <1>5, <3>1, <3>2, <3>3, <3>4 DEF Saving
  <2> QED
    BY <2>2, <2>3
<1>9. CASE SelectionHistory(t)
  <2> DEFINE new == [[call EXCEPT !.step = "insert selection"] EXCEPT !.version = NextVersion(selections)]
  <2>1. tabs' = [tabs EXCEPT ![t].call = new]
    BY <1>1, <1>9 DEF SelectionHistory, TabsShape, IsTab, HasFields
  <2>2. /\ HasFields(new, CallFields) /\ new.step = "insert selection" /\ new.row = call.row
        /\ new.floor = call.floor /\ new.click = call.click /\ new.content = call.content
        /\ new.version = NextVersion(selections)
    BY <1>4 DEF HasFields, CallFields
  <2>3. \A s \in selections : s.id = call.content => s.version > call.floor
    BY <1>1, <1>9 DEF SelectionHistory, At, SaveOK, Saving
  <2> HIDE DEF new
  <2> QED
    BY <1>1, <1>5, <1>6, <2>1, <2>2, <2>3, GaplessVersion DEF Saving
<1>10. CASE SelectionStored(t)
  <2>1. PICK row \in selections : row.id = call.content /\ Acknowledge(t, row)
    BY <1>10 DEF SelectionStored
  <2>2. row.version > call.floor
    BY <1>1, <1>10, <2>1 DEF SelectionStored, At, SaveOK, Saving
  <2>3. PICK n \in Nat : Versions(selections) = 1 .. n
    BY <1>1 DEF SelectionsOK
  <2>4. row.version \in 1 .. n /\ (call.floor = 0 \/ call.floor \in 1 .. n)
    BY <1>1, <1>3, <2>1, <2>3 DEF SaveOK, Versions
  <2>5. row.version >= call.floor
    BY <2>2, <2>4
  <2> QED
    BY <2>1, <2>5, RowAcknowledged
<1> QED
  BY <1>7, <1>8, <1>9, <1>10

\* Clicks are only added.
LEMMA NextSpent == ASSUME IInv, Next PROVE SpentShape' /\ spent.clicks <= spent'.clicks
<1>1. SpentShape /\ spent.clicks \in Nat
  BY ShapeOfInv DEF SpentShape
<1>2. CASE spent' = spent
  BY <1>1, <1>2 DEF SpentShape
<1>3. ASSUME NEW what \in {"clicks", "reads", "failures", "deletes"}, Spend(what)
      PROVE  SpentShape' /\ spent.clicks <= spent'.clicks
  BY <1>1, <1>3, SpentMore
<1>4. CASE Execute \/ PublishMarket
  <2>1. spent' = spent \/ Spend("failures")
    BY <1>4 DEF Execute, PublishMarket, BeginJob, ReadInputs, CreateRun, ReuseRun, PublishArtifacts,
                LoseRun, SettleRun, FailRun
  <2> QED
    BY <1>2, <1>3, <2>1
<1>5. ASSUME NEW t \in Tabs, TabStep(t) PROVE SpentShape' /\ spent.clicks <= spent'.clicks
  <2>1. spent' = spent \/ Spend("clicks") \/ Spend("deletes") \/ Spend("reads")
    BY <1>5 DEF TabStep, Click, ChooseFilter, UniverseExisting, UniverseHistory, UniverseInsert,
                UniverseStored, UniverseConflict, SubmitUnivariate, DeleteProject, SaveSelection,
                SelectionExisting, SelectionLatest, SelectionHistory, SelectionInsert, SelectionStored,
                SelectionConflict, ComputeBivariate, OptimizeMultivariate, RefreshState, ReadPart,
                FinishRead, ResumeOptimize
  <2> QED
    BY <1>2, <1>3, <2>1
<1> QED
  BY <1>4, <1>5 DEF Next

\* The click of a save in progress was made.
LEMMA ClickMade ==
    ASSUME IInv, NEW u \in Tabs, tabs[u].call.step \in Saving
    PROVE  tabs[u].call.click \in 1 .. spent.clicks /\ spent.clicks \in Nat
BY DEF IInv, SavesOK, SaveOK, Shape

\* The step of one tab, for all the saves in progress.
LEMMA SavesStep ==
    ASSUME IInv, Next, NEW t \in Tabs, Effect(t), RowOK(tabs[t].call)',
           tabs'[t].call.step \in Saving =>
               /\ SaveOK(tabs[t].call)'
               /\ \A u \in Tabs \ {t} : tabs[u].call.step \in Saving =>
                      tabs[u].call.click # tabs'[t].call.click,
           \A u \in Tabs \ {t} : tabs[u].call.step \in Saving =>
               \A s \in selections' \ selections :
                   s.id.nonce # tabs[u].call.click /\ s.version > tabs[u].call.floor
    PROVE  SavesOK' /\ SavesActivate'
<1>1. RunsFinal /\ selections \subseteq selections'
  BY NextRuns, NextSelections
<1>2. spent.clicks \in Nat /\ spent'.clicks \in Nat /\ spent.clicks <= spent'.clicks
  BY NextSpent DEF SpentShape, IInv, Shape
<1>3. \A u \in Tabs \ {t} : tabs'[u] = tabs[u]
  BY DEF Effect, OthersKept
<1>4. ASSUME NEW u \in Tabs \ {t} PROVE SaveOK(tabs[u].call)' /\ RowOK(tabs[u].call)'
  <2>1. tabs'[u].call = tabs[u].call /\ SaveOK(tabs[u].call) /\ RowOK(tabs[u].call)
    BY <1>3 DEF IInv, SavesOK, SavesActivate, RowOK
  <2>2. SaveOK(tabs[u].call)'
    BY <1>1, <1>2, <2>1, SaveKept
  <2> QED
    BY <2>1, <2>2 DEF RowOK
<1>5. SaveOK(tabs[t].call)'
  BY DEF SaveOK
<1>6. ASSUME NEW u \in Tabs, NEW v \in Tabs, u # v,
             tabs'[u].call.step \in Saving, tabs'[v].call.step \in Saving
      PROVE  tabs'[u].call.click # tabs'[v].call.click
  BY <1>3, <1>6 DEF IInv, SavesOK
<1> QED
  BY <1>4, <1>5, <1>6 DEF SavesOK, SavesActivate, RowOK

\* Without a change of the saves: the selections are as they were.
LEMMA SelectionsKept ==
    ASSUME IInv, Next, selections' = selections PROVE SelectionsOK'
<1>1. spent.clicks \in Nat /\ spent'.clicks \in Nat /\ spent.clicks <= spent'.clicks
  BY NextSpent DEF SpentShape, IInv, Shape
<1>2. \A s \in selections : s.id.nonce \in 0 .. spent.clicks => s.id.nonce \in 0 .. spent'.clicks
  BY <1>1
<1>3. Versions(selections)' = Versions(selections)
  BY DEF Versions
<1> QED
  BY <1>2, <1>3 DEF IInv, SelectionsOK

LEMMA InsertedRow ==
    ASSUME IInv, NEW t \in Tabs, SelectionInsert(t)
    PROVE  /\ SaveEnds(t)
           /\ \A u \in Tabs \ {t} : tabs[u].call.step \in Saving =>
                 \A s \in selections' \ selections :
                     s.id.nonce # tabs[u].call.click /\ s.version > tabs[u].call.floor
<1> DEFINE row == [id |-> tabs[t].call.content, version |-> tabs[t].call.version]
<1>1. /\ selections' = selections \union {row}
      /\ \A s \in selections : s.version < row.version
      /\ row.version > tabs[t].call.floor
  BY Inserted
<1>2. tabs[t].call.step = "insert selection" /\ Acknowledge(t, row) /\ row.id = tabs[t].call.content
  BY DEF SelectionInsert, At
<1>3. PICK n \in Nat : Versions(selections) = 1 .. n
  BY DEF IInv, SelectionsOK
<1>4. /\ tabs[t].call.version \in Nat \ {0} /\ row.version = tabs[t].call.version
      /\ tabs[t].call.content.nonce \in {0, tabs[t].call.click}
      /\ tabs[t].call.floor = 0 \/ tabs[t].call.floor \in 1 .. n
  BY <1>2, <1>3 DEF IInv, SavesOK, SaveOK, Saving
<1> HIDE DEF row
<1>5. row.version >= tabs[t].call.floor
  BY <1>1, <1>4
<1>6. SaveEnds(t)
  BY <1>2, <1>5, RowAcknowledged
<1>7. ASSUME NEW u \in Tabs \ {t}, tabs[u].call.step \in Saving
      PROVE  row.id.nonce # tabs[u].call.click /\ row.version > tabs[u].call.floor
  <2>1. tabs[u].call.click # 0
    BY <1>7, ClickMade
  <2>2. tabs[u].call.click # tabs[t].call.click
    BY <1>2, <1>7 DEF IInv, SavesOK, Saving
  <2>3. tabs[u].call.floor = 0 \/ \E s \in selections : s.version = tabs[u].call.floor
    BY <1>7 DEF IInv, SavesOK, SaveOK, Versions
  <2>4. row.version > tabs[u].call.floor
    <3>1. CASE tabs[u].call.floor = 0
      BY <1>4, <3>1
    <3>2. ASSUME NEW s \in selections, s.version = tabs[u].call.floor PROVE row.version > tabs[u].call.floor
      <4>1. s.version \in 1 .. n
        BY <1>3 DEF Versions
      <4>2. s.version < row.version
        BY <1>1
      <4> QED
        BY <1>4, <3>2, <4>1, <4>2
    <3> QED
      BY <2>3, <3>1, <3>2
  <2> QED
    BY <1>2, <1>4, <2>1, <2>2, <2>4
<1> QED
  BY <1>1, <1>6, <1>7

LEMMA SavesInv ==
    ASSUME IInv, Next
    PROVE  SelectionsOK' /\ SavesOK' /\ SavesActivate'
<1>1. TabsShape /\ SpentShape /\ spent.clicks \in Nat
  BY ShapeOfInv DEF SpentShape
<1>2. CASE Execute \/ PublishMarket
  <2>1. tabs' = tabs /\ selections' = selections
    BY <1>2 DEF Execute, PublishMarket, BeginJob, ReadInputs, CreateRun, ReuseRun, PublishArtifacts,
                LoseRun, SettleRun, FailRun, tables
  <2>2. RunsFinal /\ spent'.clicks \in Nat /\ spent.clicks <= spent'.clicks
    BY NextRuns, NextSpent DEF SpentShape
  <2>3. ASSUME NEW u \in Tabs PROVE SaveOK(tabs[u].call)'
    <3>1. SaveOK(tabs[u].call) /\ tabs'[u].call = tabs[u].call
      BY <2>1 DEF IInv, SavesOK
    <3> QED
      BY <1>1, <2>1, <2>2, <3>1, SaveKept
  <2> QED
    BY <2>1, <2>3, SelectionsKept DEF IInv, SavesOK, SavesActivate
<1>3. ASSUME NEW t \in Tabs, TabStep(t)
      PROVE  SelectionsOK' /\ SavesOK' /\ SavesActivate'
  <2>1. ASSUME Effect(t), Quiet(t), selections' = selections
        PROVE  SelectionsOK' /\ SavesOK' /\ SavesActivate'
    <3>1. RowOK(tabs[t].call)'
      BY <2>1 DEF Quiet, RowOK, IInv, SavesActivate
    <3> QED
      BY <2>1, <3>1, SavesStep, SelectionsKept DEF Quiet
  <2>2. ASSUME SaveGoesOn(t), selections' = selections
        PROVE  SelectionsOK' /\ SavesOK' /\ SavesActivate'
    <3>1. \A u \in Tabs \ {t} : tabs[u].call.step \in Saving => tabs[u].call.click # tabs'[t].call.click
      BY <2>2 DEF SaveGoesOn, IInv, SavesOK
    <3> QED
      BY <2>2, <3>1, SavesStep, SelectionsKept DEF SaveGoesOn
  <2>3. CASE ~SaveStep(t)
    <3>1. selections' = selections
      BY <1>3, <2>3, TabSelections DEF SaveStep
    <3> QED
      BY <1>1, <1>3, <2>1, <2>3, <3>1, QuietTab
  <2>4. ASSUME NEW p \in Predicates, SaveSelection(t, p)
        PROVE  SelectionsOK' /\ SavesOK' /\ SavesActivate'
    <3>1. selections' = selections
      BY <2>4 DEF SaveSelection, tables
    <3>2. CASE Effect(t) /\ Quiet(t)
      BY <2>1, <3>1, <3>2
    <3>3. CASE /\ Effect(t) /\ tabs'[t].call.click = spent'.clicks
               /\ SaveOK(tabs[t].call)' /\ RowOK(tabs[t].call)'
      <4>1. spent'.clicks = spent.clicks + 1
        BY <2>4, SaveSelectionOK
      <4>2. ASSUME NEW u \in Tabs \ {t}, tabs[u].call.step \in Saving
            PROVE  tabs[u].call.click # tabs'[t].call.click
        <5>1. tabs[u].call.click \in 1 .. spent.clicks
          BY <4>2, ClickMade
        <5> QED
          BY <1>1, <3>3, <4>1, <5>1
      <4> QED
        BY <3>1, <3>3, <4>2, SavesStep, SelectionsKept
    <3> QED
      BY <2>4, <3>2, <3>3, SaveSelectionOK
  <2>5. CASE SelectionExisting(t) \/ SelectionLatest(t) \/ SelectionHistory(t) \/ SelectionStored(t)
    <3>1. selections' = selections
      BY <2>5 DEF SelectionExisting, SelectionLatest, SelectionHistory, SelectionStored, tables
    <3>2. CASE SaveGoesOn(t)
      BY <2>2, <3>1, <3>2
    <3>3. CASE SaveEnds(t)
      BY <3>1, <3>3, SavesStep, SelectionsKept DEF SaveEnds
    <3> QED
      BY <2>5, <3>2, <3>3, SaveStepOK
  <2>6. CASE SelectionInsert(t)
    BY <2>6, Inserted, InsertedRow, SavesStep DEF SaveEnds
  <2> QED
    BY <2>3, <2>4, <2>5, <2>6 DEF SaveStep
<1> QED
  BY <1>2, <1>3 DEF Next

-----------------------------------------------------------------------------
(* What tabs have read, and what they show *)

LEMMA ViewStays ==
    ASSUME NEW view, ViewOK(view), RunsFinal, selections \subseteq selections'
    PROVE  /\ view.selection # NoRow => view.selection \in selections'
           /\ \A part \in StageSet :
                 /\ Bounded(DOMAIN view[part])
                 /\ \A i \in DOMAIN view[part] :
                       view[part][i].status = "succeeded" => RunSucceeded(view[part][i].id)'
BY SucceededStays DEF ViewOK

LEMMA EmptyViewOK == ViewOK(EmptyView)
<1>1. \A part \in StageSet : EmptyView[part] = << >>
  BY DEF EmptyView, StageSet
<1>2. EmptyView.selection = NoRow /\ DOMAIN << >> = {}
  BY DEF EmptyView
<1>3. Bounded({})
  BY DEF Bounded
<1> QED
  BY <1>1, <1>2, <1>3 DEF ViewOK

\* What a read of one part finds.
LEMMA StoredOK ==
    ASSUME IInv
    PROVE  /\ Stored("selection") # NoRow => Stored("selection") \in selections
           /\ \A part \in StageSet :
                 /\ Bounded(DOMAIN Stored(part))
                 /\ \A i \in DOMAIN Stored(part) :
                       Stored(part)[i].status = "succeeded" => RunSucceeded(Stored(part)[i].id)
<1>1. Stored("selection") # NoRow => Stored("selection") \in selections
  BY NewestSelection DEF IInv, Stored, Newest
<1>2. ASSUME NEW part \in StageSet
      PROVE  /\ Bounded(DOMAIN Stored(part))
             /\ \A i \in DOMAIN Stored(part) :
                   Stored(part)[i].status = "succeeded" => RunSucceeded(Stored(part)[i].id)
  <2>1. Stored(part) = StageRuns(part)
    BY DEF StageSet, Stored
  <2>2. DOMAIN StageRuns(part) \subseteq DOMAIN runs
        /\ \A i \in DOMAIN StageRuns(part) : StageRuns(part)[i] = runs[i]
    BY DEF StageRuns
  <2>3. Bounded(DOMAIN StageRuns(part))
    BY <2>2, BoundedSubset DEF IInv, Shape
  <2> QED
    BY <2>1, <2>2, <2>3 DEF RunSucceeded, RunsNamed
<1> QED
  BY <1>1, <1>2

\* What ReadyIsOneRevision says of one tab.
OneRevision(state) ==
    /\ "multivariate" \in state.ready =>
          state.multivariate.input = state.bivariate /\ RunSucceeded(state.multivariate)
    /\ state.ready \intersect {"bivariate", "multivariate"} # {} =>
          state.bivariate.input = state.selection /\ RunSucceeded(state.bivariate)
    /\ state.ready # {} =>
          HasSelection(state.selection) /\ state.selection.source = state.univariate

\* The latest run of a part that was read.
LEMMA LatestRun ==
    ASSUME NEW view, ViewOK(view), NEW part \in StageSet, Latest(view[part]) # NoRow,
           Latest(view[part]).status = "succeeded"
    PROVE  RunSucceeded(Latest(view[part]).id)
<1> DEFINE rows == view[part]
<1>1. Bounded(DOMAIN rows) /\ DOMAIN rows # {}
  BY DEF ViewOK, Latest
<1>2. Max(DOMAIN rows) \in DOMAIN rows
  BY <1>1, MaxOfBounded
<1> QED
  BY <1>1, <1>2 DEF Latest, ViewOK

LEMMA ProjectedRevision ==
    ASSUME NEW view, ViewOK(view) PROVE OneRevision(Projected(view))
<1> DEFINE universe == ShownUniverse(view)
           uni == Latest(view.univariate)
           bi == Latest(view.bivariate)
           multi == Latest(view.multivariate)
           selection == IF /\ view.selection # NoRow /\ uni # NoRow
                           /\ view.selection.id.source # uni.id
                        THEN NoRow ELSE view.selection
           ready == ReadyStages(universe, selection, uni, bi, multi)
           state == Projected(view)
<1>1. /\ state.selection = IdOf(selection) /\ state.univariate = IdOf(uni)
      /\ state.bivariate = IdOf(bi) /\ state.multivariate = IdOf(multi) /\ state.ready = ready
  BY DEF Projected
<1>2. /\ Succeeded(bi, IdOf(selection)) => RunSucceeded(bi.id)
      /\ Succeeded(multi, IdOf(bi)) => RunSucceeded(multi.id)
  BY LatestRun DEF Succeeded, StageSet
<1>3. selection # NoRow => selection \in selections
  BY DEF ViewOK
<1> HIDE DEF universe, uni, bi, multi, selection, state
<1>4. /\ ready # {} => selection # NoRow /\ uni # NoRow /\ selection.id.source = uni.id
      /\ "bivariate" \in ready => Succeeded(bi, IdOf(selection))
      /\ "multivariate" \in ready => Succeeded(bi, IdOf(selection)) /\ Succeeded(multi, IdOf(bi))
  BY DEF ReadyStages, StageSet, Succeeded
<1>5. ready # {} => HasSelection(state.selection) /\ state.selection.source = state.univariate
  BY <1>1, <1>3, <1>4 DEF IdOf, HasSelection
<1>6. "multivariate" \in ready => state.multivariate.input = state.bivariate /\ RunSucceeded(state.multivariate)
  BY <1>1, <1>2, <1>4 DEF IdOf, Succeeded
<1>7. ready \intersect {"bivariate", "multivariate"} # {} =>
          state.bivariate.input = state.selection /\ RunSucceeded(state.bivariate)
  BY <1>1, <1>2, <1>4 DEF IdOf, Succeeded
<1> QED
  BY <1>1, <1>5, <1>6, <1>7 DEF OneRevision, state

LEMMA RevisionStays ==
    ASSUME NEW t, OneRevision(tabs[t].state), StateKept(t), RunsFinal, selections \subseteq selections'
    PROVE  OneRevision(tabs[t].state)'
<1>1. /\ RunSucceeded(tabs[t].state.multivariate) => RunSucceeded(tabs[t].state.multivariate)'
      /\ RunSucceeded(tabs[t].state.bivariate) => RunSucceeded(tabs[t].state.bivariate)'
  BY DEF RunSucceeded, RunsNamed, RunsFinal, StateKept, StageSet
<1>2. HasSelection(tabs[t].state.selection) => HasSelection(tabs[t].state.selection)'
  BY DEF HasSelection, StateKept
<1> QED
  BY <1>1, <1>2 DEF OneRevision, StateKept, StageSet

LEMMA TabEffect ==
    ASSUME IInv, NEW t \in Tabs, TabStep(t) PROVE Effect(t)
<1>1. TabsShape
  BY ShapeOfInv
<1>2. CASE ~SaveStep(t)
  BY <1>1, <1>2, QuietTab
<1>3. CASE SaveStep(t)
  BY <1>3, SaveSelectionOK, SaveStepOK, InsertedRow DEF SaveStep, SaveGoesOn, SaveEnds
<1> QED
  BY <1>2, <1>3

LEMMA ViewsInv == ASSUME IInv, Next PROVE TabsShape' /\ ViewsOK' /\ ReadyIsOneRevision'
<1>1. TabsShape /\ RunsFinal /\ selections \subseteq selections'
  BY ShapeOfInv, NextRuns, NextSelections
<1>2. ASSUME NEW u \in Tabs, tabs'[u].view = tabs[u].view PROVE ViewOK(tabs[u].view)'
  <2>1. ViewOK(tabs[u].view)
    BY DEF IInv, ViewsOK
  <2> QED
    BY <1>1, <1>2, <2>1, ViewStays DEF ViewOK
<1>3. ASSUME NEW u \in Tabs, StateKept(u) PROVE OneRevision(tabs[u].state)'
  BY <1>1, <1>3, RevisionStays DEF IInv, ReadyIsOneRevision, OneRevision
<1>4. CASE Execute \/ PublishMarket
  <2>1. tabs' = tabs
    BY <1>4 DEF Execute, PublishMarket, BeginJob, ReadInputs, CreateRun, ReuseRun, PublishArtifacts,
                LoseRun, SettleRun, FailRun
  <2>2. \A u \in Tabs : StateKept(u)
    BY <2>1 DEF StateKept
  <2> QED
    BY <1>1, <1>2, <1>3, <2>1, <2>2 DEF TabsShape, ViewsOK, ReadyIsOneRevision, OneRevision
<1>5. ASSUME NEW t \in Tabs, TabStep(t) PROVE TabsShape' /\ ViewsOK' /\ ReadyIsOneRevision'
  <2>1. Effect(t)
    BY <1>5, TabEffect
  <2>2. \A u \in Tabs \ {t} : tabs'[u] = tabs[u]
    BY <2>1 DEF Effect, OthersKept
  <2>3. ViewOK(tabs[t].view)'
    <3>1. CASE ReadPart(t)
      <4> DEFINE part == tabs[t].call.step  old == tabs[t].view  new == tabs'[t].view
      <4>1. /\ part \in {"universes", "selection", "wanted"} \union StageSet
            /\ DOMAIN new = DOMAIN old
            /\ \A f \in DOMAIN old : new[f] = IF f = part THEN Stored(part) ELSE old[f]
        BY <1>1, <3>1, ViewedTab
      <4>2. DOMAIN old = {"universes", "selection", "wanted"} \union StageSet
        BY <1>1 DEF TabsShape, IsTab, HasFields
      <4>3. ViewOK(old) /\ runs' = runs /\ selections' = selections
        BY <3>1 DEF IInv, ViewsOK, ReadPart, tables
      <4>4. ViewOK(new)
        BY <4>1, <4>2, <4>3, StoredOK DEF ViewOK
      <4> QED
        BY <4>3, <4>4 DEF ViewOK, RunSucceeded, RunsNamed
    <3>2. CASE tabs'[t].view = EmptyView
      BY <1>1, <3>2, EmptyViewOK, ViewStays DEF ViewOK
    <3> QED
      BY <1>2, <2>1, <3>1, <3>2 DEF Effect
  <2>4. OneRevision(tabs[t].state)'
    <3>1. CASE FinishRead(t) /\ tabs'[t].state = Projected(tabs[t].view)
      <4>1. runs' = runs /\ selections' = selections
        BY <3>1 DEF FinishRead, tables
      <4>2. OneRevision(tabs'[t].state)
        BY <3>1, ProjectedRevision DEF IInv, ViewsOK
      <4> QED
        BY <4>1, <4>2 DEF OneRevision, HasSelection, RunSucceeded, RunsNamed
    <3> QED
      BY <1>3, <2>1, <3>1 DEF Effect
  <2>5. \A u \in Tabs : u # t => StateKept(u)
    BY <2>2 DEF StateKept
  <2> QED
    BY <1>2, <1>3, <2>1, <2>2, <2>3, <2>4, <2>5 DEF Effect, ViewsOK, ReadyIsOneRevision, OneRevision
<1> QED
  BY <1>4, <1>5 DEF Next

-----------------------------------------------------------------------------
(* Inputs, runs and the job that is executed *)

\* An input can only go with its universe.
LEMMA InputStays ==
    ASSUME RunsFinal, selections \subseteq selections', NEW stage \in StageSet, NEW input,
           InputExists(stage, input),
           stage = "univariate" => input \in {u.id : u \in universes'}
    PROVE  InputExists(stage, input)'
<1>1. CASE stage = "univariate"
  BY <1>1 DEF InputExists
<1>2. CASE stage = "bivariate"
  <2>1. input \in {s.id : s \in selections} /\ RunSucceeded(input.source)
    BY <1>2 DEF InputExists
  <2>2. RunSucceeded(input.source)'
    BY <2>1, SucceededStays
  <2> QED
    BY <1>2, <2>1, <2>2 DEF InputExists
<1>3. CASE stage = "multivariate"
  <2>1. RunSucceeded(input)
    BY <1>3 DEF InputExists
  <2>2. RunSucceeded(input)'
    BY <2>1, SucceededStays
  <2> QED
    BY <1>3, <2>2 DEF InputExists
<1> QED
  BY <1>1, <1>2, <1>3 DEF StageSet

\* The deletion that goes through.
Deletes(t) == DeleteProject(t) /\ ~Immutable(Closure(tabs[t].state.universe))

LEMMA UniverseStays ==
    ASSUME Next, NEW id \in {u.id : u \in universes}
    PROVE  \/ id \in {u.id : u \in universes'}
           \/ \E t \in Tabs : Deletes(t) /\ id = tabs[t].state.universe
<1>1. CASE Execute \/ PublishMarket
  BY <1>1 DEF Execute, PublishMarket, BeginJob, ReadInputs, CreateRun, ReuseRun, PublishArtifacts,
              LoseRun, SettleRun, FailRun, tables
<1>2. ASSUME NEW t \in Tabs, TabStep(t)
      PROVE  id \in {u.id : u \in universes'} \/ (Deletes(t) /\ id = tabs[t].state.universe)
  <2>1. CASE UniverseInsert(t)
    BY <2>1 DEF UniverseInsert
  <2>2. CASE DeleteProject(t)
    <3> DEFINE uid == tabs[t].state.universe
    <3>1. CASE Immutable(Closure(uid))
      BY <2>2, <3>1 DEF DeleteProject, tables
    <3>2. CASE ~Immutable(Closure(uid))
      <4>1. universes' = {u \in universes : u.id # uid}
        BY <2>2, <3>2 DEF DeleteProject
      <4> QED
        BY <2>2, <3>2, <4>1 DEF Deletes
    <3> QED
      BY <3>1, <3>2
  <2>3. CASE ~UniverseInsert(t) /\ ~DeleteProject(t)
    <3>1. universes' = universes
      BY <1>2, <2>3 DEF TabStep, ChooseFilter, UniverseExisting, UniverseHistory,
           UniverseStored, UniverseConflict, SubmitUnivariate, SaveSelection, SelectionExisting,
           SelectionLatest, SelectionHistory, SelectionInsert, SelectionStored, SelectionConflict,
           ComputeBivariate, OptimizeMultivariate, RefreshState, ReadPart, FinishRead, ResumeOptimize,
           tables
    <3> QED
      BY <3>1
  <2> QED
    BY <2>1, <2>2, <2>3
<1> QED
  BY <1>1, <1>2 DEF Next

\* Tabs write no run, and a deletion takes all that was computed for the project.
LEMMA TabRunRows ==
    ASSUME NEW t \in Tabs, TabStep(t)
    PROVE  /\ \A i \in DOMAIN runs' : i \in DOMAIN runs /\ runs'[i] = runs[i]
           /\ Deletes(t) =>
                 /\ \A i \in DOMAIN runs' : runs[i].id.input # tabs[t].state.universe
                 /\ \A j \in DOMAIN jobs : jobs[j].input = tabs[t].state.universe =>
                       jobs'[j] = [jobs[j] EXCEPT !.status = "deleted"]
<1>1. CASE Deletes(t)
  <2> DEFINE uid == tabs[t].state.universe
  <2>1. /\ runs' = [i \in {j \in DOMAIN runs : runs[j] \notin Closure(uid).runs} |-> runs[i]]
        /\ jobs' = [j \in DOMAIN jobs |-> IF jobs[j].input = uid
                              THEN [jobs[j] EXCEPT !.status = "deleted"] ELSE jobs[j]]
    BY <1>1 DEF Deletes, DeleteProject
  <2>2. \A i \in DOMAIN runs : runs[i].id.input = uid => runs[i] \in Closure(uid).runs
    BY DEF Closure
  <2> QED
    BY <2>1, <2>2
<1>2. CASE ~Deletes(t)
  <2>1. runs' = runs
    BY <1>2 DEF Deletes, TabStep, ChooseFilter, UniverseExisting, UniverseHistory, UniverseInsert,
         UniverseStored, UniverseConflict, SubmitUnivariate, DeleteProject, SaveSelection,
         SelectionExisting, SelectionLatest, SelectionHistory, SelectionInsert, SelectionStored,
         SelectionConflict, ComputeBivariate, OptimizeMultivariate, RefreshState, ReadPart, FinishRead,
         ResumeOptimize, tables
  <2> QED
    BY <1>2, <2>1
<1> QED
  BY <1>1, <1>2

\* A run succeeds only while its job accepts progress.
LEMMA NewSuccess ==
    ASSUME IInv, Next, NEW i \in DOMAIN runs', runs'[i].status = "succeeded"
    PROVE  \/ i \in DOMAIN runs /\ runs'[i] = runs[i]
           \/ task.step = "settle" /\ runs'[i].id = task.run /\ AcceptsProgress(task.job)
<1>1. ASSUME NEW t \in Tabs, TabStep(t) PROVE i \in DOMAIN runs /\ runs'[i] = runs[i]
  BY <1>1, TabRunRows
<1>2. CASE PublishMarket \/ BeginJob \/ ReadInputs \/ ReuseRun \/ LoseRun
  BY <1>2 DEF PublishMarket, BeginJob, ReadInputs, ReuseRun, LoseRun, tables
<1>3. CASE CreateRun
  BY <1>3 DEF CreateRun
<1>4. CASE PublishArtifacts
  <2>1. \A k \in RunsNamed(task.run) : runs[k].status = "running"
    BY <1>4 DEF IInv, TaskOK, PublishArtifacts, NoTask
  <2>2. runs' = [k \in DOMAIN runs |-> IF runs[k].id = task.run
                                      THEN [runs[k] EXCEPT !.artifacts = TRUE] ELSE runs[k]]
    BY <1>4 DEF PublishArtifacts
  <2>3. CASE runs[i].id = task.run
    <3>1. runs'[i] = [runs[i] EXCEPT !.artifacts = TRUE] /\ IsRun(runs[i])
      BY <2>2, <2>3, RunsOfInv DEF RunRowsOK
    <3>2. runs'[i].status = runs[i].status
      BY <3>1, RunArtifacts
    <3> QED
      BY <2>1, <2>2, <2>3, <3>2 DEF RunsNamed
  <2> QED
    BY <2>2, <2>3
<1>5. ASSUME NEW status, runs' = WithStatus(task.run, status)
      PROVE  i \in DOMAIN runs /\ (runs'[i] = runs[i] \/ (runs'[i].id = task.run /\ status = "succeeded"))
  <2>1. i \in DOMAIN runs /\ runs'[i] = IF runs[i].id = task.run THEN [runs[i] EXCEPT !.status = status]
                                        ELSE runs[i]
    BY <1>5 DEF WithStatus
  <2>2. IsRun(runs[i])
    BY <2>1, RunsOfInv DEF RunRowsOK
  <2> QED
    BY <2>1, <2>2, RunStatus
<1>6. CASE SettleRun
  <2>1. runs' = WithStatus(task.run, IF AcceptsProgress(task.job) THEN "succeeded" ELSE "failed")
        /\ task.step = "settle"
    BY <1>6 DEF SettleRun
  <2> QED
    BY <1>5, <2>1
<1>7. CASE FailRun
  <2>1. runs' = runs \/ runs' = WithStatus(task.run, "failed")
    BY <1>7 DEF FailRun
  <2> QED
    BY <1>5, <2>1
<1> QED
  BY <1>1, <1>2, <1>3, <1>4, <1>6, <1>7 DEF Next, Execute

LEMMA LineageInv == ASSUME IInv, Next PROVE LineageResolves'
<1>1. RunsFinal /\ selections \subseteq selections' /\ RunRowsOK'
  BY NextRuns, NextSelections
<1>2. ASSUME NEW s \in selections' PROVE RunSucceeded(s.id.source)'
  <2>1. CASE s \in selections
    <3>1. RunSucceeded(s.id.source)
      BY <2>1 DEF IInv, LineageResolves
    <3> QED
      BY <1>1, <3>1, SucceededStays
  <2>2. CASE s \notin selections
    <3>1. PICK t \in Tabs : SelectionInsert(t)
      BY <2>2, TabSelections
      DEF Next, Execute, PublishMarket, BeginJob, ReadInputs, CreateRun, ReuseRun, PublishArtifacts,
          LoseRun, SettleRun, FailRun, tables
    <3>2. s = [id |-> tabs[t].call.content, version |-> tabs[t].call.version]
      BY <2>2, <3>1, Inserted
    <3>3. RunSucceeded(tabs[t].call.content.source)
      BY <3>1 DEF IInv, SavesOK, SaveOK, Saving, SelectionInsert, At
    <3>4. RunSucceeded(s.id.source)
      BY <3>2, <3>3
    <3> QED
      BY <1>1, <3>4, SucceededStays
  <2> QED
    BY <2>1, <2>2
<1>3. ASSUME NEW i \in DOMAIN runs', runs'[i].status = "succeeded"
      PROVE  InputExists(runs[i].id.stage, runs[i].id.input)'
  <2>0. PICK stage, input : stage = runs'[i].id.stage /\ input = runs'[i].id.input
    OBVIOUS
  <2>1. stage \in StageSet
    BY <1>1, <2>0 DEF RunRowsOK
  <2>2. InputExists(stage, input)
    <3>1. CASE i \in DOMAIN runs /\ runs'[i] = runs[i]
      BY <1>3, <2>0, <3>1 DEF IInv, LineageResolves
    <3>2. CASE task.step = "settle" /\ runs'[i].id = task.run /\ AcceptsProgress(task.job)
      BY <2>0, <3>2 DEF IInv, TaskOK, NoTask, AcceptsProgress, Started
    <3> QED
      BY <1>3, <3>1, <3>2, NewSuccess
  <2>3. stage = "univariate" => input \in {u.id : u \in universes'}
    <3> SUFFICES ASSUME stage = "univariate" PROVE input \in {u.id : u \in universes'}
      OBVIOUS
    <3>1. input \in {u.id : u \in universes}
      BY <2>2 DEF InputExists
    <3>2. ASSUME NEW t \in Tabs, Deletes(t), input = tabs[t].state.universe PROVE FALSE
      <4>1. TabStep(t)
        BY <3>2 DEF Deletes, TabStep
      <4>2. runs'[i] = runs[i] /\ runs[i].id.input # tabs[t].state.universe
        BY <3>2, <4>1, TabRunRows
      <4> QED
        BY <2>0, <3>2, <4>2
    <3> QED
      BY <3>1, <3>2, UniverseStays
  <2>4. InputExists(stage, input)'
    BY <1>1, <2>1, <2>2, <2>3, InputStays
  <2> QED
    BY <2>0, <2>4 DEF InputExists, RunSucceeded, RunsNamed
<1> QED
  BY <1>2, <1>3 DEF LineageResolves

LEMMA TaskStep ==
    ASSUME NEW record, IsTask(record), NEW step
    PROVE  LET new == [record EXCEPT !.step = step]
           IN  IsTask(new) /\ new.step = step /\ new.run = record.run /\ new.job = record.job
BY DEF IsTask, HasFields

LEMMA ExecutorJobs == ASSUME IInv, Execute PROVE JobRowsOK'
<1>1. JobRowsOK
  BY JobsOfInv
<1>2. CASE BeginJob
  BY <1>1, <1>2, OneStatus DEF BeginJob
<1>3. CASE ReadInputs \/ CreateRun \/ PublishArtifacts
  BY <1>1, <1>3, SameJobs DEF ReadInputs, CreateRun, PublishArtifacts, tables
<1>4. CASE ReuseRun \/ LoseRun \/ SettleRun \/ FailRun
  <2>1. task.job \in DOMAIN jobs
    BY <1>4 DEF IInv, TaskOK, NoTask, ReuseRun, LoseRun, SettleRun, FailRun
  <2>2. \E rows : EndJob(task.run, rows)
    BY <1>4 DEF ReuseRun, LoseRun, SettleRun, FailRun
  <2> QED
    BY <1>1, <2>1, <2>2, EndedJob
<1> QED
  BY <1>2, <1>3, <1>4 DEF Execute

\* What TaskOK says while there is a task, with the job and the inputs named.
LEMMA TaskFacts ==
    ASSUME IInv, task # NoTask
    PROVE  /\ IsTask(task) /\ task.job \in DOMAIN jobs
           /\ task.step \in {"read"} \union Started
           /\ jobs[task.job].status = "running" =>
                 InputExists(jobs[task.job].stage, jobs[task.job].input)
           /\ task.step \in Started =>
                 /\ IsRunId(task.run) /\ task.run.stage = jobs[task.job].stage
                 /\ task.run.input = jobs[task.job].input
           /\ task.step \in {"compute", "settle"} =>
                 \A i \in RunsNamed(task.run) : runs[i].status = "running"
           /\ task.step = "settle" => \A i \in RunsNamed(task.run) : runs[i].artifacts = TRUE
           /\ jobs[task.job].stage \in StageSet
BY DEF IInv, TaskOK, RowsOK

\* The executor's next step, from the task it has to the one it goes on with.
LEMMA ExecutorTask == ASSUME IInv, Execute PROVE TaskOK'
<1>1. JobRowsOK
  BY JobsOfInv
<1>2. RunsFinal /\ selections \subseteq selections' /\ universes' = universes
  BY ExecutorRuns DEF Execute, BeginJob, ReadInputs, CreateRun, ReuseRun, PublishArtifacts,
     LoseRun, SettleRun, FailRun, tables
<1>3. \A stage \in StageSet : \A input : InputExists(stage, input) => InputExists(stage, input)'
  <2> TAKE stage \in StageSet
  <2> TAKE input
  <2>1. stage = "univariate" /\ InputExists(stage, input) => input \in {u.id : u \in universes'}
    BY <1>2 DEF InputExists
  <2> QED
    BY <1>2, <2>1, InputStays
<1>4. CASE BeginJob
  <2>1. PICK j \in DOMAIN jobs :
            /\ task = NoTask
            /\ IF InputExists(jobs[j].stage, jobs[j].input)
               THEN /\ jobs' = JobStatus(j, "running")
                    /\ task' = [step |-> "read", job |-> j, run |-> NoRow]
               ELSE jobs' = JobStatus(j, "failed") /\ UNCHANGED task
    BY <1>4 DEF BeginJob
  <2>2. CASE ~InputExists(jobs[j].stage, jobs[j].input)
    BY <2>1, <2>2 DEF TaskOK
  <2>3. CASE InputExists(jobs[j].stage, jobs[j].input)
    <3>1. /\ DOMAIN jobs' = DOMAIN jobs
          /\ jobs'[j].stage = jobs[j].stage /\ jobs'[j].input = jobs[j].input
      BY <1>1, <2>1, <2>3, OneStatus
    <3>2. jobs[j].stage \in StageSet
      BY <1>1 DEF JobRowsOK
    <3>3. PICK stage, input : stage = jobs[j].stage /\ input = jobs[j].input
      OBVIOUS
    <3>4. InputExists(stage, input)'
      BY <1>3, <2>3, <3>2, <3>3
    <3>5. InputExists(jobs[j].stage, jobs[j].input)'
      BY <3>1, <3>3, <3>4 DEF InputExists, RunSucceeded, RunsNamed
    <3>6. task' = [step |-> "read", job |-> j, run |-> NoRow]
      BY <2>1, <2>3
    <3>7. /\ IsTask(task') /\ task'.step = "read" /\ task'.job = j
      BY <3>6 DEF IsTask, HasFields
    <3> QED
      BY <3>1, <3>5, <3>7 DEF TaskOK, Started
  <2> QED
    BY <2>2, <2>3
<1>5. ASSUME task # NoTask, jobs' = jobs, task'.job = task.job, IsTask(task'),
             task'.step \in Started,
             IsRunId(task'.run) /\ task'.run.stage = jobs[task.job].stage
                 /\ task'.run.input = jobs[task.job].input,
             task'.step \in {"compute", "settle"} =>
                 \A i \in RunsNamed(task.run)' : runs'[i].status = "running",
             task'.step = "settle" => \A i \in RunsNamed(task.run)' : runs'[i].artifacts = TRUE
      PROVE  TaskOK'
  <2>1. task.job \in DOMAIN jobs /\ jobs[task.job].stage \in StageSet
        /\ (jobs[task.job].status = "running" => InputExists(jobs[task.job].stage, jobs[task.job].input))
    BY <1>5, TaskFacts
  <2>2. PICK stage, input : stage = jobs[task.job].stage /\ input = jobs[task.job].input
    OBVIOUS
  <2>3. jobs[task.job].status = "running" => InputExists(stage, input)'
    BY <1>3, <2>1, <2>2
  <2>4. jobs'[task'.job].status = "running" => InputExists(jobs[task.job].stage, jobs[task.job].input)'
    BY <1>5, <2>2, <2>3 DEF InputExists, RunSucceeded, RunsNamed
  <2> QED
    BY <1>5, <2>1, <2>4 DEF TaskOK
<1>6. CASE ReadInputs
  <2> DEFINE job == jobs[task.job]
             snap == IF job.stage = "multivariate" THEN job.input.snap ELSE market.quotes
             run == RunId(job.stage, job.input, snap, 0)
  <2>1. task # NoTask /\ jobs' = jobs /\ IsTask(task)
    BY <1>6, TaskFacts DEF ReadInputs, NoTask, tables
  <2>2. task' = NoTask \/ task' = [task EXCEPT !.step = "create", !.run = run]
    BY <1>6 DEF ReadInputs
  <2>3. IsRunId(run) /\ run.stage = job.stage /\ run.input = job.input
    BY DEF RunId, IsRunId, HasFields
  <2> HIDE DEF run
  <2>4. CASE task' = [task EXCEPT !.step = "create", !.run = run]
    <3>1. IsTask(task') /\ task'.step = "create" /\ task'.run = run /\ task'.job = task.job
      BY <2>1, <2>4 DEF IsTask, HasFields
    <3> QED
      BY <1>5, <2>1, <2>3, <3>1 DEF Started
  <2> QED
    BY <2>2, <2>4 DEF TaskOK
<1>7. CASE CreateRun
  <2> DEFINE id == Retried(task.run)
  <2>1. /\ task # NoTask /\ jobs' = jobs /\ task.step = "create" /\ RunsNamed(id) = {}
        /\ task' = [task EXCEPT !.step = "compute", !.run = id]
        /\ runs' = [i \in DOMAIN runs \union {NextRun} |->
                       IF i = NextRun THEN [id |-> id, status |-> "running", artifacts |-> FALSE]
                       ELSE runs[i]]
    BY <1>7 DEF CreateRun, NoTask
  <2>2. IsTask(task) /\ IsRunId(task.run) /\ task.run.stage = jobs[task.job].stage
        /\ task.run.input = jobs[task.job].input
    BY <2>1, TaskFacts DEF Started
  <2>3. IsRunId(id) /\ id.stage = task.run.stage /\ id.input = task.run.input
    BY <2>2 DEF Retried, IsRunId, HasFields
  <2> HIDE DEF id
  <2>4. IsTask(task') /\ task'.step = "compute" /\ task'.run = id /\ task'.job = task.job
    BY <2>1, <2>2 DEF IsTask, HasFields
  <2>5. \A i \in DOMAIN runs' : runs'[i].id = id => runs'[i].status = "running"
    BY <2>1 DEF RunsNamed
  <2> QED
    BY <1>5, <2>1, <2>2, <2>3, <2>4, <2>5 DEF Started, RunsNamed
<1>8. CASE PublishArtifacts
  <2>1. /\ task # NoTask /\ jobs' = jobs /\ task.step = "compute"
        /\ task' = [task EXCEPT !.step = "settle"]
        /\ runs' = [i \in DOMAIN runs |-> IF runs[i].id = task.run
                                      THEN [runs[i] EXCEPT !.artifacts = TRUE] ELSE runs[i]]
    BY <1>8 DEF PublishArtifacts, NoTask
  <2>2. /\ IsTask(task) /\ IsRunId(task.run) /\ task.run.stage = jobs[task.job].stage
        /\ task.run.input = jobs[task.job].input
        /\ \A i \in RunsNamed(task.run) : runs[i].status = "running"
    BY <2>1, TaskFacts DEF Started
  <2>3. IsTask(task') /\ task'.step = "settle" /\ task'.run = task.run /\ task'.job = task.job
    BY <2>1, <2>2, TaskStep
  <2>4. ASSUME NEW i \in DOMAIN runs', runs'[i].id = task.run
        PROVE  runs'[i].status = "running" /\ runs'[i].artifacts = TRUE
    <3>1. i \in DOMAIN runs /\ IsRun(runs[i])
      BY <2>1, RunsOfInv DEF RunRowsOK
    <3>2. runs[i].id = task.run
      BY <2>1, <2>4, <3>1
    <3>3. runs'[i] = [runs[i] EXCEPT !.artifacts = TRUE] /\ runs[i].status = "running"
      BY <2>1, <2>2, <3>1, <3>2 DEF RunsNamed
    <3> QED
      BY <3>1, <3>3, RunArtifacts
  <2> QED
    BY <1>5, <2>1, <2>2, <2>3, <2>4 DEF Started, RunsNamed
<1>9. CASE ReuseRun \/ LoseRun \/ SettleRun \/ FailRun
  BY <1>9 DEF ReuseRun, LoseRun, SettleRun, FailRun, EndJob, TaskOK
<1> QED
  BY <1>4, <1>6, <1>7, <1>8, <1>9 DEF Execute

LEMMA TaskInv == ASSUME IInv, Next PROVE TaskOK'
<1>1. RunsFinal /\ selections \subseteq selections'
  BY NextRuns, NextSelections
<1>2. CASE Execute
  BY <1>2, ExecutorTask
<1>3. ASSUME PublishMarket \/ \E t \in Tabs : TabStep(t)
      PROVE  TaskOK'
  <2>1. task' = task /\ JobsKept /\ \A i \in DOMAIN runs' : i \in DOMAIN runs /\ runs'[i] = runs[i]
    <3>1. CASE PublishMarket
      BY <3>1, JobsOfInv, SameJobs DEF PublishMarket, tables
    <3>2. ASSUME NEW t \in Tabs, TabStep(t)
          PROVE  task' = task /\ JobsKept /\ \A i \in DOMAIN runs' : i \in DOMAIN runs /\ runs'[i] = runs[i]
      BY <3>2, TabRuns, TabJobs, TabRunRows
    <3> QED
      BY <1>3, <3>1, <3>2
  <2>2. CASE task = NoTask
    BY <2>1, <2>2 DEF TaskOK
  <2>3. CASE task # NoTask
    <3> DEFINE j == task.job
    <3>1. j \in DOMAIN jobs /\ j \in DOMAIN jobs' /\ jobs[j].stage \in StageSet
          /\ jobs'[j].stage = jobs[j].stage /\ jobs'[j].input = jobs[j].input
      BY <2>1, <2>3, TaskFacts DEF JobsKept
    <3>2. PICK stage, input : stage = jobs[j].stage /\ input = jobs[j].input
      OBVIOUS
    <3>3. jobs'[j].status = "running" => InputExists(stage, input)'
      <4> SUFFICES ASSUME jobs'[j].status = "running" PROVE InputExists(stage, input)'
        OBVIOUS
      <4>1. jobs[j].status = "running"
        BY <2>1, <3>1 DEF JobsKept
      <4>2. InputExists(stage, input)
        BY <2>3, <3>2, <4>1, TaskFacts
      <4>3. ASSUME stage = "univariate" PROVE input \in {u.id : u \in universes'}
        <5>1. input \in {u.id : u \in universes}
          BY <4>2, <4>3 DEF InputExists
        <5>2. ASSUME NEW t \in Tabs, Deletes(t), input = tabs[t].state.universe PROVE FALSE
          <6>1. TabStep(t)
            BY <5>2 DEF Deletes, TabStep
          <6>2. jobs'[j] = [jobs[j] EXCEPT !.status = "deleted"]
            BY <3>1, <3>2, <5>2, <6>1, TabRunRows
          <6>3. IsJob(jobs[j])
            BY <3>1, JobsOfInv DEF JobRowsOK
          <6>4. jobs'[j].status = "deleted"
            BY <6>2, <6>3 DEF IsJob, HasFields
          <6> QED
            BY <6>4
        <5> QED
          BY <5>1, <5>2, UniverseStays
      <4> QED
        BY <1>1, <3>1, <3>2, <4>2, <4>3, InputStays
    <3>4. jobs'[task'.job].status = "running" => InputExists(jobs[task.job].stage, jobs[task.job].input)'
      BY <2>1, <3>1, <3>2, <3>3 DEF InputExists, RunSucceeded, RunsNamed
    <3>5. /\ task.step \in {"compute", "settle"} =>
                 \A i \in RunsNamed(task.run)' : runs'[i].status = "running"
          /\ task.step = "settle" => \A i \in RunsNamed(task.run)' : runs'[i].artifacts = TRUE
      BY <2>1, <2>3, TaskFacts DEF RunsNamed
    <3> QED
      BY <2>1, <2>3, <3>1, <3>4, <3>5, TaskFacts DEF TaskOK
  <2> QED
    BY <2>2, <2>3
<1> QED
  BY <1>2, <1>3 DEF Next

-----------------------------------------------------------------------------
(* The invariant and its theorems *)

LEMMA JobsInv == ASSUME IInv, Next PROVE JobRowsOK'
<1>1. CASE PublishMarket
  BY <1>1, JobsOfInv, SameJobs DEF PublishMarket, tables
<1> QED
  BY <1>1, ExecutorJobs, TabJobs DEF Next

LEMMA InitIInv == Init => IInv
<1> SUFFICES ASSUME Init PROVE IInv
  OBVIOUS
<1>1. Bounded({}) /\ DOMAIN << >> = {}
  BY DEF Bounded
<1>2. /\ \A t \in Tabs : tabs[t] = [call |-> Idle, view |-> EmptyView, state |-> EmptyState]
      /\ tabs = [t \in Tabs |-> tabs[t]]
      /\ runs = << >> /\ jobs = << >> /\ selections = {} /\ task = NoTask
      /\ spent = [clicks |-> 0, reads |-> 0, failures |-> 0, deletes |-> 0]
  BY DEF Init
<1>3. Shape
  <2>1. jobs \in Seq({jobs[j] : j \in DOMAIN jobs})
    BY <1>2
  <2>2. HasFields(spent, {"clicks", "reads", "failures", "deletes"}) /\ spent.clicks \in Nat
    BY <1>2 DEF HasFields
  <2> QED
    BY <1>1, <1>2, <2>1, <2>2, IdleTabShape DEF Shape
<1>4. TaskOK /\ RowsOK /\ LineageResolves
  BY <1>1, <1>2 DEF TaskOK, RowsOK, LineageResolves
<1>5. SelectionsOK
  <2>1. Versions(selections) = 1 .. 0
    BY <1>2 DEF Versions
  <2> QED
    BY <1>2, <2>1 DEF SelectionsOK
<1>6. ViewsOK
  BY <1>2, EmptyViewOK DEF ViewsOK
<1>7. ASSUME NEW t \in Tabs
      PROVE  /\ tabs[t].call.step \notin Saving /\ tabs[t].call.row = NoRow
             /\ tabs[t].state.ready = {}
  <2>1. Idle.step \notin Saving /\ Idle.row = NoRow /\ EmptyState.ready = {}
    BY DEF Idle, Saving, EmptyState
  <2>2. tabs[t] = [call |-> Idle, view |-> EmptyView, state |-> EmptyState]
    BY <1>2
  <2> QED
    BY <2>1, <2>2
<1>8. SavesOK /\ SavesActivate /\ ReadyIsOneRevision
  BY <1>7 DEF SavesOK, SaveOK, SavesActivate, ReadyIsOneRevision
<1> QED
  BY <1>3, <1>4, <1>5, <1>6, <1>8 DEF IInv

LEMMA NextIInv == IInv /\ [Next]_vars => IInv'
<1> SUFFICES ASSUME IInv, [Next]_vars PROVE IInv'
  OBVIOUS
<1>1. CASE Next
  <2>1. RunRowsOK' /\ JobRowsOK' /\ TabsShape' /\ SpentShape'
    BY <1>1, NextRuns, JobsInv, ViewsInv, NextSpent
  <2>2. Shape' /\ RowsOK'
    BY <2>1 DEF RunRowsOK, JobRowsOK, TabsShape, SpentShape, Shape, RowsOK
  <2> QED
    BY <1>1, <2>2, TaskInv, LineageInv, SavesInv, ViewsInv DEF IInv
<1>2. CASE UNCHANGED vars
  <2>1. /\ universes' = universes /\ runs' = runs /\ selections' = selections /\ jobs' = jobs
        /\ task' = task /\ tabs' = tabs /\ spent' = spent
    BY <1>2 DEF vars
  <2>2. (Shape /\ RowsOK)'
    BY <2>1 DEF IInv, Shape, RowsOK
  <2>3. TaskOK'
    BY <2>1 DEF IInv, TaskOK, InputExists, RunSucceeded, RunsNamed
  <2>4. LineageResolves'
    BY <2>1 DEF IInv, LineageResolves, InputExists, RunSucceeded, RunsNamed
  <2>5. SelectionsOK' /\ SavesActivate'
    BY <2>1 DEF IInv, SelectionsOK, SavesActivate, Versions
  <2>6. SavesOK'
    <3>1. ASSUME NEW t \in Tabs PROVE SaveOK(tabs[t].call)'
      BY <2>1 DEF IInv, SavesOK, SaveOK, RunSucceeded, RunsNamed, HasSelection, Versions
    <3> QED
      BY <2>1, <3>1 DEF IInv, SavesOK
  <2>7. ViewsOK'
    BY <2>1 DEF IInv, ViewsOK, ViewOK, RunSucceeded, RunsNamed
  <2>8. ReadyIsOneRevision'
    BY <2>1 DEF IInv, ReadyIsOneRevision, RunSucceeded, RunsNamed, HasSelection
  <2> QED
    BY <2>2, <2>3, <2>4, <2>5, <2>6, <2>7, <2>8 DEF IInv
<1> QED
  BY <1>1, <1>2

LEMMA SpecIInv == Spec => []IInv
BY InitIInv, NextIInv, PTL DEF Spec

\* create_univariate_selection, with other tabs saving between its reads: what
\* a save returns is the filter asked for, and not older than the selection
\* that was in force when the click came in.
THEOREM SaveReturnsAnActivation == Spec => []SavesActivate
<1>1. IInv => SavesActivate
  BY DEF IInv
<1> QED
  BY <1>1, SpecIInv, PTL

\* browser_state_from_workflow: the stages a tab calls ready are one stored
\* chain of evidence, whatever was computed, saved or deleted between the
\* reads it was put together from.
THEOREM ReadyStagesAreOneRevision == Spec => []ReadyIsOneRevision
<1>1. IInv => ReadyIsOneRevision
  BY DEF IInv
<1> QED
  BY <1>1, SpecIInv, PTL

\* delete_project_from_universe beside the executor and saves in progress: no
\* selection loses its run and no succeeded run the input it was computed from.
THEOREM LineageAlwaysResolves == Spec => []LineageResolves
<1>1. IInv => LineageResolves
  BY DEF IInv
<1> QED
  BY <1>1, SpecIInv, PTL

\* create_univariate_selection reads the newest version in one call and stores
\* the next in another: still no selection is stored below another.
THEOREM ActivationsAreOrdered == Spec => VersionsOrderActivations
<1>1. ASSUME IInv, [Next]_vars
      PROVE  [\A new \in selections' \ selections : \A old \in selections : old.version < new.version]_vars
  <2>1. ASSUME NEW t \in Tabs, TabStep(t), NEW new \in selections' \ selections, NEW old \in selections
        PROVE  old.version < new.version
    <3>1. SelectionInsert(t)
      BY <2>1, TabSelections
    <3>2. new = [id |-> tabs[t].call.content, version |-> tabs[t].call.version]
      BY <1>1, <2>1, <3>1, Inserted
    <3> QED
      BY <1>1, <2>1, <3>1, <3>2, Inserted
  <2>2. CASE Execute \/ PublishMarket
    BY <2>2 DEF Execute, PublishMarket, BeginJob, ReadInputs, CreateRun, ReuseRun, PublishArtifacts,
                LoseRun, SettleRun, FailRun, tables
  <2> QED
    BY <1>1, <2>1, <2>2 DEF Next
<1> QED
  BY <1>1, SpecIInv, PTL DEF Spec, VersionsOrderActivations

-----------------------------------------------------------------------------
(***************************************************************************)
(* The boxes of the univariate page.                                       *)
(***************************************************************************)
\* A box of the page: of the two frequencies that share one there is no own box.
IsBox(box) ==
    /\ box[1] \in Groups
    /\ box # <<"frequency", "none">> /\ box # <<"frequency", "unknown">>

TabFields == {"run", "filter", "drawn", "checked", "asked", "pc"}

\* Clicks are numbered, so a request is known by its click.
FilterInv ==
    /\ newest \in DOMAIN Measured /\ toggles \in Nat
    /\ DOMAIN tab = FilterTabs
    /\ \A t \in FilterTabs :
          /\ DOMAIN tab[t] = TabFields
          /\ tab[t].run \in DOMAIN Measured
          /\ \A box \in tab[t].checked : IsBox(box)
    /\ \A c \in asks :
          /\ DOMAIN c = {"tab", "click", "boxes", "run", "pc"}
          /\ c = [field \in DOMAIN c |-> c[field]]
          /\ c.click \in 1..toggles /\ c.run \in DOMAIN Measured
          /\ \A box \in c.boxes : IsBox(box)
    /\ \A c, d \in asks : c.click = d.click => c = d

\* The predicates of checked boxes are met by the listings counted beside them.
LEMMA PredicatesMatch ==
    ASSUME NEW run \in DOMAIN Measured, NEW etf \in Etfs, NEW boxes, \A box \in boxes : IsBox(box),
           NEW group \in Groups
    PROVE  <<group, StageLabel(Measured[run][etf], group)>> \in PredicatesOf(boxes)
             <=> Category(run, etf, group) \in boxes
<1>1. PICK row : row = Measured[run][etf]
  OBVIOUS
<1>2. PICK shared : shared = <<"frequency", "none / unknown">>
  OBVIOUS
<1>3. \A value : value \in PredicatesOf(boxes) <=>
          \/ /\ value \in boxes /\ value # shared
          \/ /\ shared \in boxes
             /\ value \in {<<"frequency", "none">>, <<"frequency", "unknown">>}
  BY <1>2 DEF PredicatesOf, Values
<1>4. ASSUME group # "frequency"
      PROVE  <<group, StageLabel(row, group)>> \in PredicatesOf(boxes) <=> Category(run, etf, group) \in boxes
  <2>1. StageLabel(row, group) = PageCategory(row, group)
    BY <1>4 DEF StageLabel, PageCategory, Groups
  <2>2. PICK value : value = <<group, PageCategory(row, group)>>
    OBVIOUS
  <2>3. value # shared /\ value # <<"frequency", "none">> /\ value # <<"frequency", "unknown">>
    BY <1>2, <1>4, <2>2
  <2>4. value \in PredicatesOf(boxes) <=> value \in boxes
    BY <1>3, <2>3
  <2> QED BY <1>1, <2>1, <2>2, <2>4 DEF Category
<1>5. ASSUME group = "frequency"
      PROVE  <<group, StageLabel(row, group)>> \in PredicatesOf(boxes) <=> Category(run, etf, group) \in boxes
  <2>1. row.frequency # "none / unknown"
    BY <1>1, FilterAssumption
  <2>2. StageLabel(row, group) = row.frequency
    BY <1>5 DEF StageLabel
  <2>3. PageCategory(row, group) =
          IF row.frequency \in {"none", "unknown"} THEN "none / unknown" ELSE row.frequency
    BY <1>5 DEF PageCategory
  <2>4. PICK value : value = <<"frequency", row.frequency>>
    OBVIOUS
  <2>5. CASE row.frequency \in {"none", "unknown"}
    <3>1. value \in {<<"frequency", "none">>, <<"frequency", "unknown">>} /\ value \notin boxes
      BY <2>4, <2>5 DEF IsBox
    <3>2. value \in PredicatesOf(boxes) <=> shared \in boxes
      BY <1>3, <3>1
    <3>3. Category(run, etf, group) = shared
      BY <1>1, <1>2, <1>5, <2>3, <2>5 DEF Category
    <3> QED BY <1>5, <2>2, <2>4, <3>2, <3>3
  <2>6. CASE row.frequency \notin {"none", "unknown"}
    <3>1. value # <<"frequency", "none">> /\ value # <<"frequency", "unknown">> /\ value # shared
      BY <1>2, <2>1, <2>4, <2>6
    <3>2. value \in PredicatesOf(boxes) <=> value \in boxes
      BY <1>3, <3>1
    <3>3. Category(run, etf, group) = value
      BY <1>1, <1>5, <2>3, <2>4, <2>6 DEF Category
    <3> QED BY <1>5, <2>2, <2>4, <3>2, <3>3
  <2> QED BY <2>5, <2>6
<1> QED BY <1>1, <1>4, <1>5

LEMMA FilterSelectsChecked ==
    ASSUME FilterInv, NEW c \in asks
    PROVE  Filtered(c.run, PredicatesOf(c.boxes)) = {etf \in Etfs : c.boxes # {} /\ Checked(c, etf)}
<1>1. c.run \in DOMAIN Measured /\ \A box \in c.boxes : IsBox(box)
  BY DEF FilterInv
<1>2. \A box : Values(box) # {} /\ \A value \in Values(box) : value[1] = box[1]
  <2> TAKE box
  <2>1. CASE box = <<"frequency", "none / unknown">>
    <3>1. Values(box) = {<<"frequency", "none">>, <<"frequency", "unknown">>}
      BY <2>1 DEF Values
    <3>2. box[1] = "frequency" /\ \A x : <<"frequency", x>>[1] = "frequency"
      BY <2>1
    <3> QED BY <3>1, <3>2
  <2>2. CASE box # <<"frequency", "none / unknown">>
    BY <2>2 DEF Values
  <2> QED BY <2>1, <2>2
<1>3. {value[1] : value \in PredicatesOf(c.boxes)} = {box[1] : box \in c.boxes}
  BY <1>2 DEF PredicatesOf
<1>4. PredicatesOf(c.boxes) # {} <=> c.boxes # {}
  BY <1>2 DEF PredicatesOf
<1>5. {box[1] : box \in c.boxes} \subseteq Groups
  BY <1>1 DEF IsBox
<1>6. ASSUME NEW etf \in Etfs, NEW group \in {box[1] : box \in c.boxes}
      PROVE  <<group, StageLabel(Measured[c.run][etf], group)>> \in PredicatesOf(c.boxes)
               <=> Category(c.run, etf, group) \in c.boxes
  BY <1>1, <1>5, PredicatesMatch
<1> QED BY <1>3, <1>4, <1>6 DEF Filtered, Checked

LEMMA BoxesAreBoxes == ASSUME NEW run, NEW box \in Boxes(run) PROVE IsBox(box)
<1>1. CASE box \in {"age"} \X (0 .. 7)
  BY <1>1 DEF IsBox, Groups
<1>2. CASE \E etf \in Etfs, group \in Groups : box = Category(run, etf, group)
  <2>1. PICK etf \in Etfs, group \in Groups : box = Category(run, etf, group)
    BY <1>2
  <2>2. PICK row : row = Measured[run][etf]
    OBVIOUS
  <2>3. box = <<group, PageCategory(row, group)>>
    BY <2>1, <2>2 DEF Category
  <2>4. group = "frequency" => PageCategory(row, group) # "none" /\ PageCategory(row, group) # "unknown"
    BY DEF PageCategory
  <2> QED BY <2>3, <2>4 DEF IsBox
<1> QED BY <1>1, <1>2 DEF Boxes

LEMMA FilterDraws == ASSUME FilterInv, NEW t \in FilterTabs, Draw(t) PROVE FilterInv'
<1>1. PICK drawn : drawn = Rendered(newest, tab[t].filter, stored.members)
  OBVIOUS
<1>2. PICK restored : restored = Restored(newest, drawn)
  OBVIOUS
<1>3. PICK checked : checked = (drawn \ restored) \cup {box \in restored : edits[box].to}
  OBVIOUS
<1>4. \A box \in checked : IsBox(box)
  <2>1. drawn \subseteq Boxes(newest) /\ restored \subseteq Boxes(newest)
    BY <1>1, <1>2 DEF Rendered, Restored
  <2> QED BY <1>3, <2>1, BoxesAreBoxes
<1>5. /\ tab' = [tab EXCEPT ![t].pc = "shown", ![t].drawn = newest, ![t].checked = checked]
      /\ UNCHANGED <<newest, asks, toggles>>
  BY <1>1, <1>2, <1>3 DEF Draw
<1>6. PICK one : one = [tab EXCEPT ![t].pc = "shown"]
  OBVIOUS
<1>7. PICK two : two = [one EXCEPT ![t].drawn = newest]
  OBVIOUS
<1>8. tab' = [two EXCEPT ![t].checked = checked]
  BY <1>5, <1>6, <1>7
<1>9. DOMAIN tab = FilterTabs /\ \A u \in FilterTabs : DOMAIN tab[u] = TabFields
  BY DEF FilterInv
<1>10. /\ DOMAIN one = FilterTabs
       /\ \A u \in FilterTabs : DOMAIN one[u] = TabFields /\ one[u].run = tab[u].run
                                /\ one[u].checked = tab[u].checked
  BY <1>6, <1>9 DEF TabFields
<1>11. /\ DOMAIN two = FilterTabs
       /\ \A u \in FilterTabs : DOMAIN two[u] = TabFields /\ two[u].run = tab[u].run
                                /\ two[u].checked = tab[u].checked
  BY <1>7, <1>10 DEF TabFields
<1>12. /\ DOMAIN tab' = FilterTabs
       /\ \A u \in FilterTabs :
             DOMAIN tab'[u] = TabFields /\ tab'[u].run = tab[u].run
               /\ tab'[u].checked = IF u = t THEN checked ELSE tab[u].checked
  BY <1>8, <1>11 DEF TabFields
<1> QED BY <1>4, <1>5, <1>12 DEF FilterInv

LEMMA FilterToggles ==
    ASSUME FilterInv, NEW t \in FilterTabs, NEW box \in Boxes(tab[t].drawn), Toggle(t, box)
    PROVE  FilterInv'
<1>1. PICK checked :
        checked = IF box \notin tab[t].checked THEN tab[t].checked \cup {box} ELSE tab[t].checked \ {box}
  OBVIOUS
<1>2. PICK ask : ask = [tab |-> t, click |-> toggles + 1, boxes |-> checked, run |-> tab[t].run, pc |-> "select"]
  OBVIOUS
<1>3. /\ toggles' = toggles + 1 /\ newest' = newest
      /\ tab' = [tab EXCEPT ![t].checked = checked, ![t].asked = toggles + 1]
      /\ asks' = asks \cup {ask}
  BY <1>1, <1>2 DEF Toggle
<1>4. \A b \in checked : IsBox(b)
  <2>1. IsBox(box) /\ \A b \in tab[t].checked : IsBox(b)
    BY BoxesAreBoxes DEF FilterInv
  <2> QED BY <1>1, <2>1
<1>5. PICK one : one = [tab EXCEPT ![t].checked = checked]
  OBVIOUS
<1>6. tab' = [one EXCEPT ![t].asked = toggles + 1]
  BY <1>3, <1>5
<1>7. DOMAIN tab = FilterTabs /\ \A u \in FilterTabs : DOMAIN tab[u] = TabFields
  BY DEF FilterInv
<1>8. /\ DOMAIN one = FilterTabs
      /\ \A u \in FilterTabs : DOMAIN one[u] = TabFields /\ one[u].run = tab[u].run
                               /\ one[u].checked = IF u = t THEN checked ELSE tab[u].checked
  BY <1>5, <1>7 DEF TabFields
<1>9. /\ DOMAIN tab' = FilterTabs
      /\ \A u \in FilterTabs : DOMAIN tab'[u] = TabFields /\ tab'[u].run = tab[u].run
                               /\ tab'[u].checked = IF u = t THEN checked ELSE tab[u].checked
  BY <1>6, <1>8 DEF TabFields
<1>10. /\ DOMAIN ask = {"tab", "click", "boxes", "run", "pc"}
       /\ ask = [field \in DOMAIN ask |-> ask[field]]
       /\ ask.click = toggles + 1 /\ ask.run = tab[t].run /\ ask.boxes = checked
  BY <1>2
<1>11. toggles \in Nat /\ toggles' \in Nat /\ toggles + 1 \in 1..toggles' /\ 1..toggles \subseteq 1..toggles'
  BY <1>3 DEF FilterInv
<1>12. \A c \in asks : c.click # toggles + 1
  BY <1>11 DEF FilterInv
<1>13. tab[t].run \in DOMAIN Measured
  BY DEF FilterInv
<1>14. \A c \in asks' : c \in asks \/ c = ask
  BY <1>3
<1>15. \A c, d \in asks' : c.click = d.click => c = d
  BY <1>10, <1>12, <1>14 DEF FilterInv
<1>16. \A c \in asks' :
          /\ DOMAIN c = {"tab", "click", "boxes", "run", "pc"}
          /\ c = [field \in DOMAIN c |-> c[field]]
          /\ c.click \in 1..toggles' /\ c.run \in DOMAIN Measured
          /\ \A b \in c.boxes : IsBox(b)
  BY <1>3, <1>4, <1>10, <1>11, <1>13, <1>14 DEF FilterInv
<1> QED BY <1>3, <1>4, <1>9, <1>11, <1>15, <1>16 DEF FilterInv

\* The tab that takes an answer has the newest run and keeps its boxes until it draws.
LEMMA FilterAnswers ==
    ASSUME FilterInv, NEW c \in asks, NEW filter, Answer(c, filter), asks' = asks \ {c},
           UNCHANGED <<newest, toggles>>
    PROVE  FilterInv'
<1>1. PICK t : t = c.tab
  OBVIOUS
<1>2. DOMAIN tab = FilterTabs /\ \A u \in FilterTabs : DOMAIN tab[u] = TabFields
  BY DEF FilterInv
<1>3. /\ DOMAIN tab' = FilterTabs
      /\ \A u \in FilterTabs : DOMAIN tab'[u] = TabFields /\ tab'[u].checked = tab[u].checked
                               /\ (tab'[u].run = tab[u].run \/ tab'[u].run = newest)
  <2>1. CASE tab[t].asked # c.click
    BY <1>1, <1>2, <2>1 DEF Answer
  <2>2. CASE tab[t].asked = c.click
    <3>1. tab' = [tab EXCEPT ![t].filter = filter, ![t].run = newest, ![t].pc = "draw"]
      BY <1>1, <2>2 DEF Answer
    <3>2. PICK one : one = [tab EXCEPT ![t].filter = filter]
      OBVIOUS
    <3>3. PICK two : two = [one EXCEPT ![t].run = newest]
      OBVIOUS
    <3>4. tab' = [two EXCEPT ![t].pc = "draw"]
      BY <3>1, <3>2, <3>3
    <3>5. /\ DOMAIN one = FilterTabs
          /\ \A u \in FilterTabs : DOMAIN one[u] = TabFields /\ one[u].run = tab[u].run
                                   /\ one[u].checked = tab[u].checked
      BY <1>2, <3>2 DEF TabFields
    <3>6. /\ DOMAIN two = FilterTabs
          /\ \A u \in FilterTabs : DOMAIN two[u] = TabFields /\ two[u].checked = tab[u].checked
                                   /\ (two[u].run = tab[u].run \/ two[u].run = newest)
      BY <3>3, <3>5 DEF TabFields
    <3> QED BY <3>4, <3>6 DEF TabFields
  <2> QED BY <2>1, <2>2
<1> QED BY <1>3 DEF FilterInv

LEMMA FilterStepInv == FilterInv /\ [FilterNext]_filterVars => FilterInv'
<1> SUFFICES ASSUME FilterInv, [FilterNext]_filterVars PROVE FilterInv'
  OBVIOUS
<1>1. ASSUME NEW c \in asks, Select(c) PROVE FilterInv'
  <2>1. PICK next : next = [c EXCEPT !.pc = "save"]
    OBVIOUS
  <2>2. asks' = (asks \ {c}) \cup {next} /\ UNCHANGED <<newest, tab, toggles>>
    BY <1>1, <2>1 DEF Select
  <2>3. DOMAIN c = {"tab", "click", "boxes", "run", "pc"}
    BY DEF FilterInv
  <2>4. /\ DOMAIN next = DOMAIN c /\ next = [field \in DOMAIN next |-> next[field]]
        /\ next.click = c.click /\ next.run = c.run /\ next.boxes = c.boxes
    BY <2>1, <2>3
  <2>5. \A d \in asks' : (d \in asks /\ d # c) \/ d = next
    BY <2>2
  <2>6. \A d, e \in asks' : d.click = e.click => d = e
    BY <2>4, <2>5 DEF FilterInv
  <2>7. \A d \in asks' :
          /\ DOMAIN d = {"tab", "click", "boxes", "run", "pc"}
          /\ d = [field \in DOMAIN d |-> d[field]]
          /\ d.click \in 1..toggles /\ d.run \in DOMAIN Measured
          /\ \A b \in d.boxes : IsBox(b)
    BY <2>3, <2>4, <2>5 DEF FilterInv
  <2> QED BY <2>2, <2>6, <2>7 DEF FilterInv
<1>2. ASSUME NEW c \in asks, RefuseSelection(c) \/ SaveFilter(c) PROVE FilterInv'
  <2>1. /\ Answer(c, preference) \/ Answer(c, PredicatesOf(c.boxes))
        /\ asks' = asks \ {c} /\ UNCHANGED <<newest, toggles>>
    BY <1>2 DEF RefuseSelection, SaveFilter
  <2> QED BY <2>1, FilterAnswers
<1>3. ASSUME NEW t \in FilterTabs, Reload(t) PROVE FilterInv'
  <2>1. PICK filter : filter = IF tab[t].filter # {} THEN tab[t].filter ELSE preference
    OBVIOUS
  <2>2. DOMAIN tab = FilterTabs /\ \A u \in FilterTabs : DOMAIN tab[u] = TabFields
    BY DEF FilterInv
  <2>3. PICK one : one = [tab EXCEPT ![t].run = newest]
    OBVIOUS
  <2>4. PICK two : two = [one EXCEPT ![t].pc = "draw"]
    OBVIOUS
  <2>5. /\ DOMAIN one = FilterTabs
        /\ \A u \in FilterTabs : DOMAIN one[u] = TabFields /\ one[u].checked = tab[u].checked
                                 /\ (one[u].run = tab[u].run \/ one[u].run = newest)
    BY <2>2, <2>3 DEF TabFields
  <2>6. /\ DOMAIN two = FilterTabs
        /\ \A u \in FilterTabs : DOMAIN two[u] = TabFields /\ two[u].checked = tab[u].checked
                                 /\ (two[u].run = tab[u].run \/ two[u].run = newest)
    BY <2>4, <2>5 DEF TabFields
  <2>7. tab' = [two EXCEPT ![t].filter = IF @ # {} THEN @ ELSE preference]
    BY <1>3, <2>3, <2>4 DEF Reload
  <2>8. /\ DOMAIN tab' = FilterTabs
        /\ \A u \in FilterTabs : DOMAIN tab'[u] = TabFields /\ tab'[u].checked = tab[u].checked
                                 /\ (tab'[u].run = tab[u].run \/ tab'[u].run = newest)
    BY <2>6, <2>7 DEF TabFields
  <2>9. UNCHANGED <<newest, asks, toggles>>
    BY <1>3 DEF Reload
  <2> QED BY <2>8, <2>9 DEF FilterInv
<1>4. CASE NightComputes \/ NightSelects \/ UNCHANGED filterVars
  <2>1. newest' \in DOMAIN Measured /\ UNCHANGED <<tab, asks, toggles>>
    BY <1>4 DEF NightComputes, NightSelects, filterVars, FilterInv
  <2> QED BY <2>1 DEF FilterInv
<1> QED BY <1>1, <1>2, <1>3, <1>4, FilterDraws, FilterToggles DEF FilterNext

\* However the page was drawn, clicked, answered and recomputed in between: what a click
\* stores are the listings counted beside the boxes it was asked with, in the run its tab
\* knew, and all of them can be analysed.
THEOREM ClicksStoreTheirBoxes == FilterSpec => ClicksStoreWhatIsChecked
<1> DEFINE A == \A c \in asks : (stored' # stored /\ stored'.from = <<c.tab, c.click>>) =>
                   /\ stored'.members = {etf \in Etfs : c.boxes # {} /\ Checked(c, etf)}
                   /\ \A etf \in stored'.members : Measured[c.run][etf].usable
<1>1. FilterInit => FilterInv
  <2> SUFFICES ASSUME FilterInit PROVE FilterInv
    OBVIOUS
  <2>1. DOMAIN tab = FilterTabs
    BY DEF FilterInit
  <2>2. ASSUME NEW t \in FilterTabs
        PROVE  DOMAIN tab[t] = TabFields /\ tab[t].run = 1 /\ tab[t].checked = {}
    BY DEF FilterInit, TabFields
  <2>3. newest = 1 /\ toggles = 0 /\ asks = {}
    BY DEF FilterInit
  <2> QED BY <2>1, <2>2, <2>3, FilterAssumption DEF FilterInv
<1>2. FilterInv /\ [FilterNext]_filterVars => [A]_filterVars
  <2> SUFFICES ASSUME FilterInv, FilterNext, NEW c \in asks,
                      stored' # stored, stored'.from = <<c.tab, c.click>>
               PROVE  /\ stored'.members = {etf \in Etfs : c.boxes # {} /\ Checked(c, etf)}
                      /\ \A etf \in stored'.members : Measured[c.run][etf].usable
    OBVIOUS
  <2>1. c.click \in 1..toggles /\ toggles \in Nat
    BY DEF FilterInv
  <2>2. ~NightSelects
    <3>1. NightSelects => stored'.from = <<"nobody", 0>>
      BY DEF NightSelects, Nobody
    <3> QED BY <2>1, <3>1
  <2>3. PICK d \in asks : Select(d)
    BY <2>2 DEF FilterNext, Draw, Reload, Toggle, RefuseSelection, SaveFilter, NightComputes
  <2>4. stored'.from = <<d.tab, d.click>> /\ stored'.members = Filtered(d.run, PredicatesOf(d.boxes))
    BY <2>3 DEF Select
  <2>5. d = c
    BY <2>4 DEF FilterInv
  <2> QED BY <2>3, <2>4, <2>5, FilterSelectsChecked DEF Select
<1> QED BY <1>1, <1>2, FilterStepInv, PTL DEF FilterSpec, ClicksStoreWhatIsChecked
=============================================================================
