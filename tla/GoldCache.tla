------------------------------ MODULE GoldCache ------------------------------
(***************************************************************************)
(* The Gold statistics of a selection (_prepare_selection_cached_inputs of *)
(* multivariate_statistics.py, with the writers of univariate_statistics,  *)
(* bivariate_statistics and statistics_views): files shared by all         *)
(* selections, brought up to date for one of them and read back. A call    *)
(* may die between any two files.                                          *)
(*                                                                         *)
(* A listing is its position in the order of <<isin, exchange, code>>. A   *)
(* revision stands for the adjusted closes of its quotes. What is computed *)
(* is named by what it was computed from, as the *_input_id of a row does. *)
(***************************************************************************)
EXTENDS Integers, FiniteSets, Sequences

CONSTANTS
    Listings,       \* sequence of <<isin, exchange, code>>, sorted
    DatesOf,        \* the return dates of each listing
    Selections,     \* sets of positions that may be selected
    BucketCounts,   \* values of bivariate_bucket_count
    FirstRevision,  \* of the quotes at the start
    MaxPairCount, MaxDownloads, MaxCalls

Positions == DOMAIN Listings
Isin(i) == Listings[i][1]
Path(i) == <<Listings[i][1], Listings[i][2]>>    \* gold_*(exchange, isin): not the code
Paths == {Path(i) : i \in Positions}
Buckets == UNION {0 .. n - 1 : n \in BucketCounts}

ASSUME GoldAssumption ==
    /\ IsFiniteSet(Positions) /\ Positions \subseteq Nat \ {0}
    /\ \A s \in Selections : s \subseteq Positions
    /\ BucketCounts \subseteq Nat \ {0}
    /\ FirstRevision \in [Positions -> Nat]

VARIABLES
    revision,      \* of the quotes of each listing; 0 when there are none
    returnsFile, univariateFile, covarianceFile,   \* by path
    bucketFile,    \* rows of each bucket of pairs
    goldCall,      \* the call in progress
    answer,        \* the statistics the last call was answered with
    calls, downloads

goldBounds == <<calls, downloads>>
goldVars == <<revision, returnsFile, univariateFile, covarianceFile, bucketFile, goldCall, answer, goldBounds>>

NoFile == [listing |-> 0, revision |-> 0]
NoCall == [step |-> "idle"]
NoAnswer == [selection |-> {}]

-----------------------------------------------------------------------------
\* index_returns, common_return_dates and iter_pair_observations: one calendar
\* for the universe, all pairs of different ISINs on it.
Calendar(universe) == {d \in UNION {DatesOf[i] : i \in Positions} : \A i \in universe : d \in DatesOf[i]}

PairsOf(universe) ==
    {p \in universe \X universe : p[1] < p[2] /\ Isin(p[1]) # Isin(p[2])}

\* left_id: the position of the left listing in the universe.
LeftId(universe, p) == Cardinality({i \in universe : i < p[1]})

\* _build_bivariate_pair_statistics with its version's bucket. The row stands
\* for its numbers: it holds what they are computed from.
PairRow(universe, pinned, count, p) ==
    [pair |-> p, dates |-> Calendar(universe), values |-> <<pinned[p[1]], pinned[p[2]]>>,
     left_id |-> LeftId(universe, p), bucket |-> LeftId(universe, p) % count]

\* build_pair_plan.
PlanAccepted(universe) ==
    (Cardinality(universe) * (Cardinality(universe) - 1)) \div 2 <= MaxPairCount

\* _read_existing_buckets: a bucket that holds a row of another bucket is void.
ExistingBuckets(count) ==
    [b \in 0 .. count - 1 |->
        IF \E row \in bucketFile[b] : row.bucket # b THEN {} ELSE bucketFile[b]]

\* cache_index: of two rows for a pair the one in the later bucket.
CachedRows(count, p) ==
    LET rows == UNION {{row \in ExistingBuckets(count)[b] : row.pair = p} : b \in 0 .. count - 1}
    IN  {row \in rows : \A other \in rows : other.bucket <= row.bucket}

\* Fault: rows are matched by bucket, dates and number of observations.
Fault_CacheRowMatches(row, fresh) == row.bucket = fresh.bucket /\ row.dates = fresh.dates

\* _cache_row_matches: the left_id of the row is not looked at.
CacheRowMatches(row, fresh) ==
    row.bucket = fresh.bucket /\ row.dates = fresh.dates /\ row.values = fresh.values

\* The rows write_bivariate_statistics ends with: cached ones that match, fresh
\* ones for the rest. Without common dates there are no pairs.
FinalRow(universe, pinned, count, p) ==
    LET fresh == PairRow(universe, pinned, count, p)
        hits == {row \in CachedRows(count, p) : CacheRowMatches(row, fresh)}
    IN  IF hits # {} THEN CHOOSE row \in hits : TRUE ELSE fresh

FinalRows(universe, pinned, count) ==
    IF Calendar(universe) = {} THEN {}
    ELSE {FinalRow(universe, pinned, count, p) : p \in PairsOf(universe)}

\* _write_dirty_buckets: those with a fresh row, and those whose pairs change.
DirtyBuckets(count, final) ==
    {b \in 0 .. count - 1 :
        LET rows == {row \in final : row.bucket = b}
        IN  \/ rows \ ExistingBuckets(count)[b] # {}
            \/ {row.pair : row \in rows} # {row.pair : row \in ExistingBuckets(count)[b]}}

-----------------------------------------------------------------------------
\* A call pins the quotes it read. It writes one file after the other.
StartCall(selection, count) ==
    LET quoted == {i \in selection : revision[i] > 0}
    IN  /\ goldCall = NoCall
        /\ calls < MaxCalls
        /\ calls' = calls + 1
        /\ answer' = NoAnswer
        /\ goldCall' = [step |-> "returns", selection |-> selection, pinned |-> revision,
                        count |-> count, todo |-> quoted]
        /\ UNCHANGED <<revision, returnsFile, univariateFile, covarianceFile, bucketFile, downloads>>

\* The files of a step are written in the order of the keys.
IsNext(i) == i \in goldCall.todo /\ \A j \in goldCall.todo : i <= j
Done(i) == goldCall' = [goldCall EXCEPT !.todo = @ \ {i}]
CurrentRow(i) == [listing |-> i, revision |-> goldCall.pinned[i]]

\* _write_selected_returns_cache.
WriteReturns ==
    /\ goldCall.step = "returns"
    /\ \E i \in goldCall.todo :
        /\ IsNext(i) /\ Done(i)
        /\ returnsFile' = [returnsFile EXCEPT ![Path(i)] = CurrentRow(i)]
    /\ UNCHANGED <<revision, univariateFile, covarianceFile, bucketFile, answer, goldBounds>>

\* write_univariate_statistics decides for all listings which rows are stale
\* before it writes one: _cached_univariate_row compares key and inputs.
StaleUnivariate ==
    {i \in goldCall.selection : goldCall.pinned[i] > 0 /\ univariateFile[Path(i)] # CurrentRow(i)}

FindStale ==
    /\ goldCall.step = "returns" /\ goldCall.todo = {}
    /\ goldCall' = [goldCall EXCEPT !.step = "univariate", !.todo = StaleUnivariate]
    /\ UNCHANGED <<revision, returnsFile, univariateFile, covarianceFile, bucketFile, answer, goldBounds>>

WriteUnivariate ==
    /\ goldCall.step = "univariate"
    /\ \E i \in goldCall.todo :
        /\ IsNext(i) /\ Done(i)
        /\ univariateFile' = [univariateFile EXCEPT ![Path(i)] = CurrentRow(i)]
    /\ UNCHANGED <<revision, returnsFile, covarianceFile, bucketFile, answer, goldBounds>>

\* _read_selected_returns: what the files hold of the selected listings, of
\* two that share a file only the one written last.
Universe == {i \in goldCall.selection : returnsFile[Path(i)].listing = i}
ReadReturns == [i \in Positions |-> returnsFile[Path(i)].revision]

\* write_bivariate_statistics up to its first bucket. An oversized universe is
\* refused.
FindDirty ==
    LET final == FinalRows(Universe, ReadReturns, goldCall.count)
    IN  /\ goldCall.step = "univariate" /\ goldCall.todo = {}
        /\ goldCall' = IF PlanAccepted(Universe)
                       THEN [step |-> "buckets", selection |-> goldCall.selection,
                             pinned |-> goldCall.pinned, count |-> goldCall.count, final |-> final,
                             todo |-> DirtyBuckets(goldCall.count, final)]
                       ELSE NoCall
        /\ UNCHANGED <<revision, returnsFile, univariateFile, covarianceFile, bucketFile, answer, goldBounds>>

WriteBucket ==
    /\ goldCall.step = "buckets"
    /\ \E b \in goldCall.todo :
        /\ IsNext(b) /\ Done(b)
        /\ bucketFile' = [bucketFile EXCEPT ![b] = {row \in goldCall.final : row.bucket = b}]
    /\ UNCHANGED <<revision, returnsFile, univariateFile, covarianceFile, answer, goldBounds>>

\* build_selection_statistics_view trusts the rows: it only asks whether there
\* is one for each listing and each pair of different ISINs. A row of a later
\* bucket hides one of an earlier.
IndexedRows == UNION {bucketFile[b] : b \in 0 .. goldCall.count - 1}
IndexedRow(p) ==
    CHOOSE row \in IndexedRows :
        row.pair = p /\ \A other \in IndexedRows : other.pair = p => other.bucket <= row.bucket

ViewComplete ==
    /\ \A i \in goldCall.selection : univariateFile[Path(i)].listing = i
    /\ PairsOf(goldCall.selection) \subseteq {row.pair : row \in IndexedRows}

\* read_selection_statistics refuses what is incomplete.
ReadStatistics ==
    /\ goldCall.step = "buckets" /\ goldCall.todo = {}
    /\ goldCall' = IF ViewComplete
                   THEN [step |-> "pairs", selection |-> goldCall.selection,
                         pinned |-> goldCall.pinned, count |-> goldCall.count,
                         univariate |-> {univariateFile[Path(i)] : i \in goldCall.selection},
                         rows |-> {IndexedRow(p) : p \in PairsOf(goldCall.selection)},
                         todo |-> goldCall.selection]
                   ELSE NoCall
    /\ UNCHANGED <<revision, returnsFile, univariateFile, covarianceFile, bucketFile, answer, goldBounds>>

\* _write_selected_pair_inputs: both directions, by the ISIN of the left one.
WritePairInputs ==
    /\ goldCall.step = "pairs"
    /\ \E i \in goldCall.todo :
        /\ IsNext(i) /\ Done(i)
        /\ covarianceFile' = [covarianceFile EXCEPT
               ![Path(i)] = {row \in goldCall.rows : Isin(i) \in {Isin(row.pair[1]), Isin(row.pair[2])}}]
    /\ UNCHANGED <<revision, returnsFile, univariateFile, bucketFile, answer, goldBounds>>

AnswerCall ==
    /\ goldCall.step = "pairs" /\ goldCall.todo = {}
    /\ answer' = [selection |-> goldCall.selection, pinned |-> goldCall.pinned,
                  count |-> goldCall.count, univariate |-> goldCall.univariate, rows |-> goldCall.rows]
    /\ goldCall' = NoCall
    /\ UNCHANGED <<revision, returnsFile, univariateFile, covarianceFile, bucketFile, goldBounds>>

GoldCrash ==
    /\ goldCall # NoCall
    /\ goldCall' = NoCall
    /\ UNCHANGED <<revision, returnsFile, univariateFile, covarianceFile, bucketFile, answer, goldBounds>>

\* Quotes are downloaded between two calls; whatever was answered is history.
Download(i) ==
    /\ goldCall = NoCall
    /\ downloads < MaxDownloads
    /\ downloads' = downloads + 1
    /\ revision' = [revision EXCEPT ![i] = @ + 1]
    /\ answer' = NoAnswer
    /\ UNCHANGED <<returnsFile, univariateFile, covarianceFile, bucketFile, goldCall, calls>>

GoldInit ==
    /\ revision = FirstRevision
    /\ returnsFile = [p \in Paths |-> NoFile]
    /\ univariateFile = [p \in Paths |-> NoFile]
    /\ covarianceFile = [p \in Paths |-> {}]
    /\ bucketFile = [b \in Buckets |-> {}]
    /\ goldCall = NoCall /\ answer = NoAnswer
    /\ calls = 0 /\ downloads = 0

GoldNext ==
    \/ \E s \in Selections, n \in BucketCounts : StartCall(s, n)
    \/ WriteReturns \/ FindStale \/ WriteUnivariate \/ FindDirty \/ WriteBucket
    \/ ReadStatistics \/ WritePairInputs \/ AnswerCall \/ GoldCrash
    \/ \E i \in Positions : Download(i)

GoldSpec == GoldInit /\ [][GoldNext]_goldVars

-----------------------------------------------------------------------------
(* What must hold.                                                         *)

\* Whatever calls for other selections, with other bucket counts, older quotes
\* or a crash in the middle left behind, a call that answers has one row for
\* each listing and each pair of different ISINs of its selection, computed
\* from the quotes it read; the buckets it is responsible for and the
\* covariances of its listings say the same. Two listings that share a file are
\* therefore never answered (write_univariate_statistics,
\* write_bivariate_statistics, read_selection_statistics).
SelectionStatisticsAreCurrent ==
    answer.selection # {} =>
        LET selected == answer.selection
            IsCurrent(row) == /\ row.dates = Calendar(selected)
                              /\ row.values = <<answer.pinned[row.pair[1]], answer.pinned[row.pair[2]]>>
            buckets == UNION {bucketFile[b] : b \in 0 .. answer.count - 1}
        IN  /\ answer.univariate = {[listing |-> i, revision |-> answer.pinned[i]] : i \in selected}
            /\ \A i \in selected : answer.pinned[i] > 0
            /\ {row.pair : row \in answer.rows} = PairsOf(selected)
            /\ buckets = answer.rows /\ \A r, s \in buckets : r.pair = s.pair => r = s
            /\ \A row \in answer.rows :
                  /\ IsCurrent(row)
                  /\ row \in covarianceFile[Path(row.pair[1])] \cap covarianceFile[Path(row.pair[2])]
=============================================================================
