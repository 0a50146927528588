------------------------------- MODULE Workspace -------------------------------
(***************************************************************************)
(* The workspace of the analysis service and the browser tabs that show    *)
(* it: metadata universes, the runs of the three stages, the activations   *)
(* of univariate selections, and the way a tab puts its workflow state     *)
(* together from several reads.                                            *)
(*                                                                         *)
(* Identities are content hashes in the code, so here they are the content *)
(* itself: a universe is the chosen filter over one listing lineage, a run *)
(* is its stage, input and market snapshot, and a selection is its source  *)
(* run and filter, with a nonce when the same filter is activated again.   *)
(*                                                                         *)
(* Every repository call is one step, its transaction taken as its own     *)
(* (SharedConnection is about the rest).  One process runs one job at a    *)
(* time; retries, crashes and several processes are in AnalysisJobs.       *)
(***************************************************************************)
EXTENDS Naturals, Sequences, FiniteSets, FiniteSetsExt

CONSTANTS
    MetadataFilters,
    Everything,     \* the metadata filter in force before one is saved
    Predicates,     \* univariate checkbox selections
    Tabs,
    NoRow,
    MaxClicks,      \* bound: actions of users, reads not counted
    MaxReads,       \* bound: workflow reads on opening a page
    MaxRefreshes,   \* bound: market publications after the first
    MaxFailures,    \* bound: computations that raise
    MaxDeletes      \* bound: project deletions

ASSUME WorkspaceAssumption ==
    /\ Everything \in MetadataFilters
    /\ {MaxClicks, MaxReads, MaxRefreshes, MaxFailures, MaxDeletes} \subseteq Nat

VARIABLES
    market,         \* the published quotes, listing lineage and listed members
    universes,      \* metadata_universes
    runs,           \* analysis_runs, numbered in the order of created_at
    selections,     \* univariate_selections
    jobs,           \* analysis_jobs in the order of submission
    task,           \* what the executor is doing
    wanted,         \* the saved metadata filter
    tabs,           \* each tab: its request in progress and the state it shows
    spent           \* the bounds used up

vars == <<market, universes, runs, selections, jobs, task, wanted, tabs, spent>>
tables == <<universes, runs, selections, jobs>>

StageSet == {"univariate", "bivariate", "multivariate"}

EmptyView == [universes |-> {}, selection |-> NoRow, wanted |-> NoRow,
              univariate |-> <<>>, bivariate |-> <<>>, multivariate |-> <<>>]
EmptyState == [universe |-> NoRow, selection |-> NoRow, univariate |-> NoRow,
               bivariate |-> NoRow, multivariate |-> NoRow, ready |-> {}]
Idle == [step |-> "idle", content |-> NoRow, row |-> NoRow,
         version |-> 0, floor |-> 0, click |-> 0, optimize |-> FALSE]
NoTask == [step |-> "none"]

Init ==
    /\ market = [quotes |-> 1, lineage |-> 1, members |-> 1]
    /\ universes = {} /\ selections = {} /\ runs = <<>> /\ jobs = <<>>
    /\ task = NoTask
    /\ wanted = Everything
    /\ tabs = [t \in Tabs |-> [call |-> Idle, view |-> EmptyView, state |-> EmptyState]]
    /\ spent = [clicks |-> 0, reads |-> 0, failures |-> 0, deletes |-> 0]

-----------------------------------------------------------------------------
Versions(rows) == {row.version : row \in rows}
NextVersion(rows) == Max(Versions(rows) \union {0}) + 1

\* order by version desc limit 1
Newest(rows) ==
    IF rows = {} THEN NoRow
    ELSE CHOOSE row \in rows : \A other \in rows : other.version <= row.version

RunsNamed(id) == {i \in DOMAIN runs : runs[i].id = id}
RunSucceeded(id) == \E i \in RunsNamed(id) : runs[i].status = "succeeded"
StageRuns(stage) == [i \in {j \in DOMAIN runs : runs[j].id.stage = stage} |-> runs[i]]
NextRun == Max(DOMAIN runs \union {0}) + 1
WithStatus(id, status) ==
    [i \in DOMAIN runs |-> IF runs[i].id = id THEN [runs[i] EXCEPT !.status = status] ELSE runs[i]]

Spend(what) == spent' = [spent EXCEPT ![what] = @ + 1]
Click == spent.clicks < MaxClicks /\ Spend("clicks")

At(t, step) == tabs[t].call.step = step
IdleTab(t) == tabs[t].call.step = "idle"
Goto(t, step) == tabs' = [tabs EXCEPT ![t].call.step = step]

\* persisted_browser_state and the pages read the workflow part by part.
Reading(call) == [call EXCEPT !.step = "universes"]
Reread(t) == tabs' = [tabs EXCEPT ![t].call = Reading(Idle)]

-----------------------------------------------------------------------------
(* Jobs *)

ActiveJobs(stage, input) ==
    {j \in DOMAIN jobs : /\ jobs[j].stage = stage /\ jobs[j].input = input
                         /\ jobs[j].status \in {"queued", "running"}}
SucceededJobs(stage, input) ==
    {j \in DOMAIN jobs : /\ jobs[j].stage = stage /\ jobs[j].input = input
                         /\ jobs[j].status = "succeeded"}

SubmitJob(stage, input) ==
    jobs' = IF ActiveJobs(stage, input) # {} THEN jobs
            ELSE Append(jobs, [stage |-> stage, input |-> input, status |-> "queued"])

\* A downstream stage is not computed again for an input it succeeded for.
SubmitJobOnce(stage, input) ==
    IF SucceededJobs(stage, input) # {} THEN UNCHANGED jobs ELSE SubmitJob(stage, input)

JobStatus(j, status) == [jobs EXCEPT ![j].status = status]

InputExists(stage, input) ==
    CASE stage = "univariate" -> input \in {u.id : u \in universes}
      [] stage = "bivariate" -> /\ input \in {s.id : s \in selections}
                                /\ RunSucceeded(input.source)
      [] stage = "multivariate" -> RunSucceeded(input)

\* claim_job, then the input is read; without it the job fails.
BeginJob ==
    \E j \in DOMAIN jobs :
        /\ task = NoTask
        /\ jobs[j].status = "queued"
        /\ \A k \in 1 .. j - 1 : jobs[k].status # "queued"
        /\ IF InputExists(jobs[j].stage, jobs[j].input)
           THEN /\ jobs' = JobStatus(j, "running")
                /\ task' = [step |-> "read", job |-> j, run |-> NoRow]
           ELSE jobs' = JobStatus(j, "failed") /\ UNCHANGED task
        /\ UNCHANGED <<market, universes, runs, selections, wanted, tabs, spent>>

RunId(stage, input, snap, nonce) ==
    [stage |-> stage, input |-> input, snap |-> snap, nonce |-> nonce]

\* The market is read and progress announced, which only a running job accepts.
\* The multivariate stage keeps the snapshot of its bivariate run.
ReadInputs ==
    /\ task.step = "read"
    /\ LET job == jobs[task.job]
           snap == IF job.stage = "multivariate" THEN job.input.snap ELSE market.quotes
       IN IF job.status = "running"
          THEN task' = [task EXCEPT !.step = "create",
                                    !.run = RunId(job.stage, job.input, snap, 0)]
          ELSE task' = NoTask
    /\ UNCHANGED <<market, tables, wanted, tabs, spent>>

\* A failed multivariate run is tried again under a fresh identity.
Attempts(id) == {i \in DOMAIN runs : [runs[i].id EXCEPT !.nonce = 0] = id}

Retried(id) ==
    IF id.stage = "multivariate" /\ \E i \in RunsNamed(id) : runs[i].status = "failed"
    THEN [id EXCEPT !.nonce = Cardinality(Attempts(id))]
    ELSE id

\* The end of a job: it succeeds with a succeeded run only.
EndJob(run, rows) ==
    /\ task' = NoTask
    /\ jobs' = IF jobs[task.job].status # "running" THEN jobs
               ELSE JobStatus(task.job, IF \E i \in DOMAIN rows : /\ rows[i].id = run
                                                                 /\ rows[i].status = "succeeded"
                                        THEN "succeeded" ELSE "failed")

CreateRun ==
    /\ task.step = "create"
    /\ LET id == Retried(task.run) IN
        /\ RunsNamed(id) = {}
        /\ runs' = [i \in DOMAIN runs \union {NextRun} |->
                       IF i = NextRun THEN [id |-> id, status |-> "running", artifacts |-> FALSE]
                       ELSE runs[i]]
        /\ task' = [task EXCEPT !.step = "compute", !.run = id]
    /\ UNCHANGED <<market, universes, selections, jobs, wanted, tabs, spent>>

\* A run that exists is not computed again: the job takes its status.
ReuseRun ==
    /\ task.step = "create"
    /\ \E i \in RunsNamed(Retried(task.run)) : runs[i].status # "running"
    /\ EndJob(task.run, runs)
    /\ UNCHANGED <<market, universes, runs, selections, wanted, tabs, spent>>

\* Artifacts refer to their run: they cannot be stored when it is gone.
PublishArtifacts ==
    /\ task.step = "compute" /\ RunsNamed(task.run) # {}
    /\ runs' = [i \in DOMAIN runs |-> IF runs[i].id = task.run
                                      THEN [runs[i] EXCEPT !.artifacts = TRUE] ELSE runs[i]]
    /\ task' = [task EXCEPT !.step = "settle"]
    /\ UNCHANGED <<market, universes, selections, jobs, wanted, tabs, spent>>

LoseRun ==
    /\ task.step = "compute" /\ RunsNamed(task.run) = {}
    /\ EndJob(task.run, runs)
    /\ UNCHANGED <<market, universes, runs, selections, wanted, tabs, spent>>

\* Fault: the run succeeds although its job no longer accepts progress.
Fault_SettleWithoutJob(job) == TRUE

AcceptsProgress(job) == jobs[job].status = "running"

\* The last progress update comes before the run succeeds.
SettleRun ==
    /\ task.step = "settle"
    /\ runs' = WithStatus(task.run, IF AcceptsProgress(task.job) THEN "succeeded" ELSE "failed")
    /\ EndJob(task.run, runs')
    /\ UNCHANGED <<market, universes, selections, wanted, tabs, spent>>

FailRun ==
    /\ task.step \in {"read", "compute", "settle"}
    /\ spent.failures < MaxFailures /\ Spend("failures")
    /\ runs' = IF task.step = "read" THEN runs ELSE WithStatus(task.run, "failed")
    /\ EndJob(task.run, runs')
    /\ UNCHANGED <<market, universes, selections, wanted, tabs>>

Execute ==
    \/ BeginJob \/ ReadInputs \/ CreateRun \/ ReuseRun
    \/ PublishArtifacts \/ LoseRun \/ SettleRun \/ FailRun

-----------------------------------------------------------------------------
(* Metadata universes *)

\* _update_metadata_filters: the filter is saved, then the universe it gives
\* under the present listings is looked up or created.
ChooseFilter(t, c) ==
    /\ IdleTab(t) /\ Click
    /\ wanted' = c
    /\ tabs' = [tabs EXCEPT ![t].call = [Idle EXCEPT
                    !.step = "existing universe",
                    !.content = [id |-> [choice |-> c, lineage |-> market.lineage],
                                 members |-> <<c, market.members>>]]]
    /\ UNCHANGED <<market, tables, task>>

HasUniverse(content) == content.id \in {u.id : u \in universes}

UniverseExisting(t) ==
    /\ At(t, "existing universe")
    /\ Goto(t, IF HasUniverse(tabs[t].call.content) THEN "submit universe" ELSE "history universe")
    /\ UNCHANGED <<market, tables, task, wanted, spent>>

UniverseHistory(t) ==
    /\ At(t, "history universe")
    /\ tabs' = [tabs EXCEPT ![t].call.step = "insert universe",
                            ![t].call.version = NextVersion(universes)]
    /\ UNCHANGED <<market, tables, task, wanted, spent>>

UniverseInsert(t) ==
    /\ At(t, "insert universe")
    /\ LET call == tabs[t].call IN
        /\ ~HasUniverse(call.content) /\ call.version \notin Versions(universes)
        /\ universes' = universes \union {[id |-> call.content.id, members |-> call.content.members,
                                            version |-> call.version]}
    /\ Goto(t, "submit universe")
    /\ UNCHANGED <<market, runs, selections, jobs, task, wanted, spent>>

\* The same content was stored meanwhile: its row is returned.
UniverseStored(t) ==
    /\ At(t, "insert universe") /\ HasUniverse(tabs[t].call.content)
    /\ Goto(t, "submit universe")
    /\ UNCHANGED <<market, tables, task, wanted, spent>>

\* A version in use raises, and the callback keeps the state it has.
UniverseConflict(t) ==
    /\ At(t, "insert universe") /\ ~HasUniverse(tabs[t].call.content)
    /\ tabs[t].call.version \in Versions(universes)
    /\ tabs' = [tabs EXCEPT ![t].call = Idle]
    /\ UNCHANGED <<market, tables, task, wanted, spent>>

\* start_univariate_job, whose errors are suppressed; only the universe of
\* the shown state is replaced.
SubmitUnivariate(t) ==
    /\ At(t, "submit universe")
    /\ LET content == tabs[t].call.content IN
        /\ IF HasUniverse(content) THEN SubmitJob("univariate", content.id) ELSE UNCHANGED jobs
        /\ tabs' = [tabs EXCEPT ![t].call = Idle, ![t].state.universe = content.id]
    /\ UNCHANGED <<market, universes, runs, selections, task, wanted, spent>>

(* Deletion of a project: nothing calls it but execute_action *)

Closure(uid) ==
    LET rows == {runs[i] : i \in DOMAIN runs}
        first == {run \in rows : run.id.input = uid}
        chosen == {s \in selections : s.id.source \in {run.id : run \in first}}
        second == {run \in rows : run.id.input \in {s.id : s \in chosen}}
        third == {run \in rows : run.id.input \in {r.id : r \in first \union second}}
    IN [runs |-> first \union second \union third, selections |-> chosen]

\* The triggers of artifacts and selections refuse to delete a row.
Immutable(closure) ==
    closure.selections # {} \/ \E run \in closure.runs : run.artifacts

DeleteProject(t) ==
    /\ IdleTab(t) /\ spent.deletes < MaxDeletes /\ Spend("deletes")
    /\ tabs[t].state.universe # NoRow
    /\ LET uid == tabs[t].state.universe
           closure == Closure(uid)
       IN IF Immutable(closure)
          THEN UNCHANGED tables
          ELSE /\ universes' = {u \in universes : u.id # uid}
               /\ runs' = [i \in {j \in DOMAIN runs : runs[j] \notin closure.runs} |-> runs[i]]
               /\ jobs' = [j \in DOMAIN jobs |-> IF jobs[j].input = uid
                              THEN [jobs[j] EXCEPT !.status = "deleted"] ELSE jobs[j]]
               /\ UNCHANGED selections
    /\ Reread(t)
    /\ UNCHANGED <<market, task, wanted>>

-----------------------------------------------------------------------------
(* Univariate selections *)

SelectionId(source, predicate, nonce) ==
    [source |-> source, predicate |-> predicate, nonce |-> nonce]

HasSelection(id) == id \in {s.id : s \in selections}
NewestVersion == IF selections = {} THEN 0 ELSE Newest(selections).version

\* A checkbox is clicked: the selection is made from the shown univariate run.
SaveSelection(t, p) ==
    /\ IdleTab(t) /\ tabs[t].state.univariate # NoRow /\ Click
    /\ LET source == tabs[t].state.univariate IN
        IF RunSucceeded(source)
        THEN tabs' = [tabs EXCEPT ![t].call = [Idle EXCEPT
                          !.step = "existing selection",
                          !.content = SelectionId(source, p, 0),
                          !.floor = NewestVersion, !.click = spent'.clicks]]
        ELSE Reread(t)
    /\ UNCHANGED <<market, tables, task, wanted>>

SelectionExisting(t) ==
    /\ At(t, "existing selection")
    /\ Goto(t, IF HasSelection(tabs[t].call.content) THEN "latest selection" ELSE "history selection")
    /\ UNCHANGED <<market, tables, task, wanted, spent>>

Acknowledge(t, row) ==
    tabs' = [tabs EXCEPT ![t].call = Reading([@ EXCEPT !.row = row])]

\* Fault: any record of the same content is reused, active or not.
Fault_ReuseInactive(content) == TRUE

Active(content) == Newest(selections).id = content

\* The record is reused only when it is the newest; otherwise the activation
\* gets an identity of its own.
SelectionLatest(t) ==
    /\ At(t, "latest selection")
    /\ LET content == tabs[t].call.content IN
        IF Active(content)
        THEN Acknowledge(t, CHOOSE s \in selections : s.id = content)
        ELSE tabs' = [tabs EXCEPT ![t].call.step = "history selection",
                                  ![t].call.content.nonce = tabs[t].call.click]
    /\ UNCHANGED <<market, tables, task, wanted, spent>>

SelectionHistory(t) ==
    /\ At(t, "history selection")
    /\ tabs' = [tabs EXCEPT ![t].call.step = "insert selection",
                            ![t].call.version = NextVersion(selections)]
    /\ UNCHANGED <<market, tables, task, wanted, spent>>

\* Fault: two activations may take the same version.
Fault_VersionsNotUnique(version) == FALSE

VersionTaken(version) == version \in Versions(selections)

SelectionInsert(t) ==
    /\ At(t, "insert selection")
    /\ LET call == tabs[t].call
           row == [id |-> call.content, version |-> call.version]
       IN /\ ~HasSelection(call.content) /\ ~VersionTaken(call.version)
          /\ selections' = selections \union {row}
          /\ Acknowledge(t, row)
    /\ UNCHANGED <<market, universes, runs, jobs, task, wanted, spent>>

SelectionStored(t) ==
    /\ At(t, "insert selection")
    /\ \E row \in selections : row.id = tabs[t].call.content /\ Acknowledge(t, row)
    /\ UNCHANGED <<market, tables, task, wanted, spent>>

\* A version in use raises; the tab shows what is stored.
SelectionConflict(t) ==
    /\ At(t, "insert selection") /\ ~HasSelection(tabs[t].call.content)
    /\ VersionTaken(tabs[t].call.version)
    /\ Reread(t)
    /\ UNCHANGED <<market, tables, task, wanted, spent>>

-----------------------------------------------------------------------------
(* Downstream stages *)

ComputeBivariate(t) ==
    /\ IdleTab(t) /\ tabs[t].state.selection # NoRow /\ Click
    /\ SubmitJobOnce("bivariate", tabs[t].state.selection)
    /\ Reread(t)
    /\ UNCHANGED <<market, universes, runs, selections, task, wanted>>

DependencyMatches(state) == state.bivariate.input = state.selection
Complete(state) == state.selection # NoRow /\ state.bivariate # NoRow

\* Refused while a downstream job is active, or when the dependency does not
\* match.
Optimize(state) ==
    IF /\ \A j \in DOMAIN jobs : jobs[j].stage = "univariate"
                                \/ jobs[j].status \notin {"queued", "running"}
       /\ DependencyMatches(state)
    THEN SubmitJobOnce("multivariate", state.bivariate)
    ELSE UNCHANGED jobs

\* With an identifier missing, the state is first read like a page's.
OptimizeMultivariate(t) ==
    /\ IdleTab(t) /\ Click
    /\ IF Complete(tabs[t].state)
       THEN Optimize(tabs[t].state) /\ Reread(t)
       ELSE /\ tabs' = [tabs EXCEPT ![t].call = Reading([Idle EXCEPT !.optimize = TRUE])]
            /\ UNCHANGED jobs
    /\ UNCHANGED <<market, universes, runs, selections, task, wanted>>

-----------------------------------------------------------------------------
(* workflow_state: what a tab sees *)

\* A page is opened, or a tracked job ended.  A blank store is left alone; the
\* store is the browser's, filled by any of its tabs.
RefreshState(t) ==
    /\ IdleTab(t) /\ \E other \in Tabs : tabs[other].state # EmptyState
    /\ spent.reads < MaxReads /\ Spend("reads")
    /\ tabs' = [tabs EXCEPT ![t].call = Reading(Idle)]
    /\ UNCHANGED <<market, tables, task, wanted>>

Stored(part) ==
    CASE part = "universes" -> universes
      [] part = "selection" -> Newest(selections)
      [] part = "wanted" -> wanted
      [] OTHER -> StageRuns(part)

After == [universes |-> "selection", selection |-> "univariate",
          univariate |-> "bivariate", bivariate |-> "multivariate",
          multivariate |-> "wanted", wanted |-> "listings"]

ReadPart(t) ==
    /\ tabs[t].call.step \in DOMAIN After
    /\ LET part == tabs[t].call.step IN
        tabs' = [tabs EXCEPT ![t].view[part] = Stored(part), ![t].call.step = After[part]]
    /\ UNCHANGED <<market, tables, task, wanted, spent>>

Latest(rows) == IF DOMAIN rows = {} THEN NoRow ELSE rows[Max(DOMAIN rows)]

\* The newest universe with the members the saved filter has now, or else the
\* newest of all.
ShownUniverse(view) ==
    LET matching == {u \in view.universes : u.members = <<view.wanted, market.members>>}
    IN IF matching # {} THEN Newest(matching) ELSE Newest(view.universes)

IdOf(row) == IF row = NoRow THEN NoRow ELSE row.id
Succeeded(run, input) == run # NoRow /\ run.status = "succeeded" /\ run.id.input = input

\* Fault: a stage is ready when its own run succeeded.
Fault_ReadyAlone(universe, selection, uni, bi, multi) ==
    {s \in StageSet : \E run \in {uni, bi, multi} \ {NoRow} :
                          run.id.stage = s /\ run.status = "succeeded"}

ReadyStages(universe, selection, uni, bi, multi) ==
    LET first == /\ universe # NoRow /\ selection # NoRow
                 /\ Succeeded(uni, IdOf(universe)) /\ selection.id.source = uni.id
        second == first /\ Succeeded(bi, IdOf(selection))
        third == second /\ Succeeded(multi, IdOf(bi))
    IN {s \in StageSet : CASE s = "univariate" -> first
                           [] s = "bivariate" -> second
                           [] s = "multivariate" -> third}

\* browser_state_from_workflow
Projected(view) ==
    LET universe == ShownUniverse(view)
        uni == Latest(view.univariate)
        bi == Latest(view.bivariate)
        multi == Latest(view.multivariate)
        selection == IF /\ view.selection # NoRow /\ uni # NoRow
                        /\ view.selection.id.source # uni.id
                     THEN NoRow ELSE view.selection
    IN [universe |-> IdOf(universe), selection |-> IdOf(selection),
        univariate |-> IdOf(uni), bivariate |-> IdOf(bi), multivariate |-> IdOf(multi),
        ready |-> ReadyStages(universe, selection, uni, bi, multi)]

ReadDone(t) == At(t, "listings")
OptimizeAfterRead(t) == tabs[t].call.optimize /\ Complete(Projected(tabs[t].view))

FinishRead(t) ==
    /\ ReadDone(t) /\ ~OptimizeAfterRead(t)
    /\ tabs' = [tabs EXCEPT ![t] = [call |-> Idle, view |-> EmptyView,
                                    state |-> Projected(tabs[t].view)]]
    /\ UNCHANGED <<market, tables, task, wanted, spent>>

\* The optimization that waited for the read.
ResumeOptimize(t) ==
    /\ ReadDone(t) /\ OptimizeAfterRead(t)
    /\ Optimize(Projected(tabs[t].view))
    /\ tabs' = [tabs EXCEPT ![t].call = Reading(Idle), ![t].view = EmptyView]
    /\ UNCHANGED <<market, universes, runs, selections, task, wanted, spent>>

\* bivariate_page_data starts from the same reads: the counts of the newest
\* selection beside the pairs of the newest run, if that succeeded.
BivariatePage(view) ==
    LET bi == Latest(view.bivariate) IN
    [selection |-> IdOf(view.selection),
     run |-> IF bi # NoRow /\ bi.status = "succeeded" THEN bi.id ELSE NoRow]

\* A publication has new quotes and perhaps other listings or members.
PublishMarket ==
    /\ market.quotes <= MaxRefreshes
    /\ \E lineage \in {market.lineage, market.lineage + 1} :
       \E members \in {market.members, lineage} :
        market' = [quotes |-> market.quotes + 1, lineage |-> lineage,
                   members |-> IF lineage = market.lineage THEN market.members ELSE members]
    /\ UNCHANGED <<tables, task, wanted, tabs, spent>>

-----------------------------------------------------------------------------
TabStep(t) ==
    \/ \E c \in MetadataFilters : ChooseFilter(t, c)
    \/ UniverseExisting(t) \/ UniverseHistory(t) \/ UniverseInsert(t)
    \/ UniverseStored(t) \/ UniverseConflict(t) \/ SubmitUnivariate(t)
    \/ DeleteProject(t)
    \/ \E p \in Predicates : SaveSelection(t, p)
    \/ SelectionExisting(t) \/ SelectionLatest(t) \/ SelectionHistory(t)
    \/ SelectionInsert(t) \/ SelectionStored(t) \/ SelectionConflict(t)
    \/ ComputeBivariate(t) \/ OptimizeMultivariate(t)
    \/ RefreshState(t) \/ ReadPart(t) \/ FinishRead(t) \/ ResumeOptimize(t)

Next == Execute \/ PublishMarket \/ \E t \in Tabs : TabStep(t)

Spec == Init /\ [][Next]_vars

-----------------------------------------------------------------------------
\* create_univariate_selection: what a save returns is the filter asked for,
\* and no older than the activation that was newest when the call began, with
\* other tabs saving, and creating the same record, between its reads.
SavesActivate ==
    \A t \in Tabs : tabs[t].call.row # NoRow =>
        LET call == tabs[t].call IN
        /\ call.row.id.source = call.content.source
        /\ call.row.id.predicate = call.content.predicate
        /\ call.row.version >= call.floor

\* list_univariate_selections(limit=1) is the last activation: a version is
\* computed from an earlier read, yet no record is stored below another.
VersionsOrderActivations ==
    [][\A new \in selections' \ selections : \A old \in selections : old.version < new.version]_vars

\* Project deletion against the executor and saves in progress: a selection
\* keeps its run, and a succeeded run keeps its universe, selection or run.
LineageResolves ==
    /\ \A s \in selections : RunSucceeded(s.id.source)
    /\ \A i \in DOMAIN runs :
        runs[i].status = "succeeded" => InputExists(runs[i].id.stage, runs[i].id.input)

\* browser_state_from_workflow: the parts are read one after the other, yet
\* what a tab calls ready is one stored chain of evidence.
ReadyIsOneRevision ==
    \A t \in Tabs : LET state == tabs[t].state IN
        /\ "multivariate" \in state.ready =>
              state.multivariate.input = state.bivariate /\ RunSucceeded(state.multivariate)
        /\ state.ready \intersect {"bivariate", "multivariate"} # {} =>
              state.bivariate.input = state.selection /\ RunSucceeded(state.bivariate)
        /\ state.ready # {} =>
              HasSelection(state.selection) /\ state.selection.source = state.univariate

-----------------------------------------------------------------------------
(* What docs and comments say and the code does not keep *)

\* staged-analysis-read-plane-v1.md: old and current values are never combined
\* in one KPI, chart or table.
PageIsOneRevision ==
    [][\A t \in Tabs : FinishRead(t) =>
        LET shown == BivariatePage(tabs[t].view) IN
        shown.run # NoRow /\ shown.selection # NoRow => shown.run.input = shown.selection]_vars

\* state.py: runs are selected by the exact dependency, never by being latest.
EvidenceIsFound ==
    [][\A t \in Tabs :
        FinishRead(t) =>
            LET state == tabs'[t].state IN
            (\E i \in DOMAIN tabs[t].view.univariate :
                 Succeeded(tabs[t].view.univariate[i], state.universe))
            => state.univariate.input = state.universe]_vars
=============================================================================
