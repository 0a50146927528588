----------------------------- MODULE PortfolioRun -----------------------------
(***************************************************************************)
(* A multivariate run over the lake (write_multivariate_statistics) and    *)
(* the files of its evaluation: the return matrix, then portfolio after    *)
(* portfolio the tables the writers of portfolio.py and evaluation.py keep *)
(* by portfolio_id or write anew, then the frontier, the backtest and the  *)
(* manifest by which a later run with the same identity is answered. Runs  *)
(* with other configurations use the same evaluation; a run may die or be  *)
(* refused between any two files.                                          *)
(*                                                                         *)
(* A row stands for the rows of one portfolio in one table and names what  *)
(* they were computed from. GoldCache has the statistics that are prepared *)
(* first; here they are the revision of the covariances on disk.           *)
(***************************************************************************)
EXTENDS Integers, Sequences, SequencesExt

CONSTANTS
    Configs,       \* [name, prefix, objectives, cached, schedule]
    Unaligned,     \* revisions of the quotes without a common date
    Incomplete,    \* revisions in which a selected listing has no returns
    Removable,     \* files someone may remove
    MaxQuotes, MaxLakeRuns, MaxMishaps

ASSUME LakeAssumption == \A c \in Configs : c.objectives \in Seq(STRING)

VARIABLES
    quotes,        \* revision of the quotes of the selection
    covariances,   \* revision of the Gold covariances; 0 when they are missing
    files,         \* the rows on disk
    manifests,     \* portfolio cache manifests: run identity and artifact_paths
    portfolioRun,  \* the run in progress
    report,        \* what the last run returned
    started, mishaps

lakeVars == <<quotes, covariances, files, manifests, portfolioRun, report, started, mishaps>>

NoRun == [step |-> "idle"]
NoReport == [kind |-> "none"]
EveryPortfolio == <<"", "all">>
RiskParity == {"risk_parity", "equal_risk_contribution"}

-----------------------------------------------------------------------------
\* Who replaces the rows of its portfolio and who writes the table anew.
Table(name) == <<name, "", "">>
TableOf(name, qualifier) == <<name, qualifier, "">>
DrawdownsOf(id) == <<"drawdowns", id[1], id[2]>>
Keep(file, portfolio) == [file |-> file, portfolio |-> portfolio, anew |-> FALSE]
Anew(file, portfolio) == [file |-> file, portfolio |-> portfolio, anew |-> TRUE]

\* write_optimized_weights; risk parity adds its contributions.
OptimizedWrites(objective, id) ==
    <<Keep(TableOf("weights", objective), id)>>
        \o (IF objective \in RiskParity THEN <<Keep(TableOf("risk_contributions", objective), id)>>
            ELSE <<>>)

HierarchicalWrites(objective, id) ==
    <<Keep(TableOf("weights", objective), id), Keep(Table("hrp_clusters"), id),
      Keep(Table("hrp_linkage"), id)>>

DiversificationWrites(objective, id) ==
    <<Keep(TableOf("weights", objective), id), Keep(Table("diversification_metrics"), id)>>

\* Equal weights are not written.
WeightWrites(objective, id) ==
    CASE objective = "equal_weight" -> <<>>
      [] objective = "hierarchical_risk_parity" -> HierarchicalWrites(objective, id)
      [] objective = "maximum_diversification" -> DiversificationWrites(objective, id)
      [] OTHER -> OptimizedWrites(objective, id)

\* _write_portfolio_bundle. The run ids of tail risk and rebalancing do not
\* name the portfolio, so each portfolio writes over the one before.
EvaluationWrites(id) ==
    <<Keep(Table("portfolio_returns"), id), Keep(DrawdownsOf(id), id),
      Keep(Table("portfolio_metrics"), id)>>
TailRiskWrites(id) == <<Anew(Table("tail_risk"), id)>>
RebalanceWrites(schedule, id) ==
    <<Anew(TableOf("rebalance_events", schedule), id), Anew(TableOf("rebalance_weights", schedule), id)>>
BundleWrites(c, id) ==
    EvaluationWrites(id) \o TailRiskWrites(id) \o RebalanceWrites(c.schedule, id)

PortfolioId(c, objective) == <<c.prefix, objective>>

ObjectivesOf(c) ==
    <<"equal_weight">>
        \o FlattenSeq([k \in DOMAIN c.objectives |->
               IF c.objectives[k] = "equal_weight" THEN <<>> ELSE <<c.objectives[k]>>])
        \o <<"hierarchical_risk_parity", "maximum_diversification">>

\* The files of a run in the order they are written.
MatrixWrites == <<Anew(Table("return_matrix"), EveryPortfolio), Anew(Table("asset_metrics"), EveryPortfolio)>>

PortfolioWrites(c) ==
    FlattenSeq([k \in DOMAIN ObjectivesOf(c) |->
        WeightWrites(ObjectivesOf(c)[k], PortfolioId(c, ObjectivesOf(c)[k]))
            \o BundleWrites(c, PortfolioId(c, ObjectivesOf(c)[k]))])

FrontierWrites == <<Anew(Table("frontier_points"), EveryPortfolio), Anew(Table("frontier_weights"), EveryPortfolio)>>
BacktestWrites == <<Anew(Table("backtests"), EveryPortfolio), Anew(Table("backtest_weights"), EveryPortfolio)>>
ClosingWrites == FrontierWrites \o BacktestWrites

NeedsCovariances(write) ==
    /\ write.portfolio # EveryPortfolio
    /\ write.portfolio[2] # "equal_weight"

LakeRow(write, c, revision_, covariance) ==
    [file |-> write.file, portfolio |-> write.portfolio, config |-> c.name,
     revision |-> revision_, covariance |-> IF NeedsCovariances(write) THEN covariance ELSE 0]

\* Fault: the rows of the portfolio that are there are kept.
Fault_Written(disk, write, row) ==
    (IF write.anew THEN {r \in disk : r.file # write.file} ELSE disk) \cup {row}

\* _replace_portfolio_rows, and write_rows of the whole table.
Written(disk, write, row) ==
    {r \in disk : r.file # write.file \/ (~write.anew /\ r.portfolio # write.portfolio)} \cup {row}

-----------------------------------------------------------------------------
\* _read_reusable_portfolio_summary: the identity of a run is its configuration
\* and selection, the quotes are not part of it. Only the existence of the files
\* is asked for.
Exists(file) == \E row \in files : row.file = file
Reusable(c) == \E entry \in manifests : entry.run = c /\ \A file \in entry.paths : Exists(file)

\* The run pins the quotes it reads. With cached inputs the statistics are
\* brought up to date before anything else is decided.
StartRun(c) ==
    /\ portfolioRun = NoRun
    /\ started < MaxLakeRuns
    /\ started' = started + 1
    /\ covariances' = IF c.cached THEN quotes ELSE covariances
    /\ IF c.cached /\ Reusable(c)
       THEN /\ report' = [kind |-> "reused", config |-> c]
            /\ UNCHANGED portfolioRun
       ELSE /\ report' = NoReport
            /\ portfolioRun' = [step |-> "write", config |-> c, revision |-> quotes,
                                todo |-> MatrixWrites, after |-> "period"]
    /\ UNCHANGED <<quotes, files, manifests, mishaps>>

Refuse ==
    /\ portfolioRun' = NoRun
    /\ UNCHANGED <<quotes, covariances, files, manifests, report, started, mishaps>>

\* One file. Weights need the covariances of the listings and are refused
\* without them, before their first table is touched.
WriteFile ==
    LET run == portfolioRun
        write == Head(run.todo)
    IN  /\ run.step = "write" /\ run.todo # <<>>
        /\ NeedsCovariances(write) => covariances > 0
        /\ files' = Written(files, write, LakeRow(write, run.config, run.revision, covariances))
        /\ portfolioRun' = [run EXCEPT !.todo = Tail(@)]
        /\ UNCHANGED <<quotes, covariances, manifests, report, started, mishaps>>

CovariancesMissing ==
    /\ portfolioRun.step = "write" /\ portfolioRun.todo # <<>>
    /\ NeedsCovariances(Head(portfolioRun.todo)) /\ covariances = 0
    /\ Refuse

\* _matrix_period, after the matrix is written: a matrix that omits a listing is
\* refused; without common dates the run ends with the matrix.
CheckPeriod ==
    LET run == portfolioRun
    IN  /\ run.step = "write" /\ run.todo = <<>> /\ run.after = "period"
        /\ IF run.revision \in Incomplete \ Unaligned THEN Refuse
           ELSE /\ portfolioRun' = [run EXCEPT !.after = "finish",
                       !.todo = IF run.revision \in Unaligned THEN <<>>
                                ELSE PortfolioWrites(run.config) \o ClosingWrites]
                /\ UNCHANGED <<quotes, covariances, files, manifests, report, started, mishaps>>

\* _write_portfolio_cache_manifest: the paths that exist, whoever wrote them.
\* Drawdowns and risk contributions are not among them.
Recorded(c) ==
    {file \in {row.file : row \in files} :
        /\ file \in {w.file : w \in Range(MatrixWrites \o PortfolioWrites(c) \o ClosingWrites)}
        /\ file \notin {DrawdownsOf(PortfolioId(c, o)) : o \in Range(ObjectivesOf(c))}
        /\ file \notin {TableOf("risk_contributions", o) : o \in RiskParity}}

Finish ==
    LET run == portfolioRun
    IN  /\ run.step = "write" /\ run.todo = <<>> /\ run.after = "finish"
        /\ manifests' = IF run.config.cached
                        THEN {entry \in manifests : entry.run # run.config}
                                 \cup {[run |-> run.config, paths |-> Recorded(run.config)]}
                        ELSE manifests
        /\ report' = [kind |-> "computed", config |-> run.config, revision |-> run.revision]
        /\ portfolioRun' = NoRun
        /\ UNCHANGED <<quotes, covariances, files, started, mishaps>>

Die ==
    /\ portfolioRun # NoRun
    /\ mishaps < MaxMishaps
    /\ mishaps' = mishaps + 1
    /\ portfolioRun' = NoRun
    /\ UNCHANGED <<quotes, covariances, files, manifests, report, started>>

\* Between two runs quotes are downloaded, or someone removes a file.
NewQuotes ==
    /\ portfolioRun = NoRun
    /\ quotes < MaxQuotes
    /\ quotes' = quotes + 1
    /\ report' = NoReport
    /\ UNCHANGED <<covariances, files, manifests, portfolioRun, started, mishaps>>

RemoveFile ==
    /\ portfolioRun = NoRun
    /\ mishaps < MaxMishaps
    /\ \E file \in {row.file : row \in files} \cap Removable : files' = {row \in files : row.file # file}
    /\ mishaps' = mishaps + 1
    /\ report' = NoReport
    /\ UNCHANGED <<quotes, covariances, manifests, portfolioRun, started>>

LakeInit ==
    /\ quotes = 1 /\ covariances = 0
    /\ files = {} /\ manifests = {}
    /\ portfolioRun = NoRun /\ report = NoReport
    /\ started = 0 /\ mishaps = 0

LakeNext ==
    \/ \E c \in Configs : StartRun(c)
    \/ WriteFile \/ CovariancesMissing \/ CheckPeriod \/ Finish \/ Die
    \/ NewQuotes \/ RemoveFile

LakeSpec == LakeInit /\ [][LakeNext]_lakeVars

-----------------------------------------------------------------------------
(* What must hold.                                                         *)

\* Everything a run writes, and the rows that are left of its first writes when it
\* starts from nothing: those that none of the later ones replaces.
WritesOf(c, revision_) ==
    MatrixWrites \o (IF revision_ \in Unaligned THEN <<>> ELSE PortfolioWrites(c) \o ClosingWrites)

Replaces(write, earlier) ==
    write.file = earlier.file /\ (write.anew \/ write.portfolio = earlier.portfolio)

RowsAfter(n, c, revision_, covariance) ==
    LET writes == WritesOf(c, revision_)
    IN  {LakeRow(writes[k], c, revision_, covariance) :
           k \in {k \in 1 .. n : \A l \in (k + 1) .. n : ~Replaces(writes[l], writes[k])}}

RowsOf(c, revision_, covariance) ==
    RowsAfter(Len(WritesOf(c, revision_)), c, revision_, covariance)

\* After a run that computed, its files hold, for its portfolios, the rows it
\* computed and no others, whatever runs with other quotes or configurations
\* left or began there: all from the one revision of the quotes it read, the
\* weights from covariances of that revision too when it prepared them. A run
\* that is answered from a manifest finds all files the manifest names
\* (write_multivariate_statistics and the writers it calls).
PortfolioFilesBelongTogether ==
    /\ report.kind = "computed" =>
          LET c == report.config
              covariance == IF c.cached THEN report.revision ELSE covariances
              rows == RowsOf(c, report.revision, covariance)
          IN  /\ rows \subseteq files
              /\ \A row \in files :
                    (\E own \in rows : own.file = row.file /\ own.portfolio = row.portfolio) => row \in rows
              /\ report.revision \notin Incomplete \ Unaligned
              /\ c.cached => \E entry \in manifests :
                    entry.run = c /\ \A file \in entry.paths : Exists(file)
    /\ report.kind = "reused" =>
          \E entry \in manifests :
              /\ entry.run = report.config
              /\ {Table("return_matrix"), Table("asset_metrics")} \subseteq entry.paths
              /\ \A file \in entry.paths : Exists(file)
=============================================================================
