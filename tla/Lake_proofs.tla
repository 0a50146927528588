------------------------------ MODULE Lake_proofs ------------------------------
(***************************************************************************)
(* The files of the lake that runs share. What a selection is answered     *)
(* with is current, for any listings, any numbers of buckets and any       *)
(* sequence of calls for overlapping selections, downloads between them    *)
(* and crashes inside them. And the files of a portfolio run belong        *)
(* together, for any configurations and quotes. The files are shared, so   *)
(* each argument is what a phase may assume of what earlier runs left.     *)
(***************************************************************************)
EXTENDS GoldCache, PortfolioRun, FiniteSetTheorems, WellFoundedInduction, TLAPS

HasFields(record, fields) == DOMAIN record = fields /\ record = [f \in fields |-> record[f]]

-----------------------------------------------------------------------------
(***************************************************************************)
(* The Gold statistics.                                                    *)
(***************************************************************************)
CallFields == {"step", "selection", "pinned", "count", "todo"}

\* No file holds a row of a listing without quotes.
RowsOfQuoted(file) ==
    /\ DOMAIN file = Paths
    /\ \A p \in Paths : file[p].listing = 0 \/
           (file[p].listing \in Positions /\ revision[file[p].listing] > 0)

\* A bucket holds its own rows only, and one for a pair.
BucketsOK ==
    /\ DOMAIN bucketFile = Buckets
    /\ \A b \in Buckets :
          /\ \A row \in bucketFile[b] : row.bucket = b
          /\ \A r, s \in bucketFile[b] : r.pair = s.pair => r = s

FilesOK ==
    /\ revision \in [Positions -> Nat]
    /\ RowsOfQuoted(returnsFile) /\ RowsOfQuoted(univariateFile)
    /\ BucketsOK /\ DOMAIN covarianceFile = Paths

Quoted(i) == i \in Positions /\ revision[i] > 0
Row(i) == [listing |-> i, revision |-> revision[i]]

\* The file of a quoted listing is still to be written, or holds the current
\* row of a selected listing, perhaps not of the listing itself.
CurrentExcept(file, selection, todo) ==
    \A i \in selection : Quoted(i) =>
        i \in todo \/ \E j \in selection : Path(j) = Path(i) /\ file[Path(i)] = Row(j)

\* Rows computed for a universe from the quotes of the call, one for a pair.
RowsFor(universe, count, rows) ==
    /\ \A row \in rows :
          /\ row.pair \in PairsOf(universe) /\ row.dates = Calendar(universe)
          /\ row.values = <<revision[row.pair[1]], revision[row.pair[2]]>>
          /\ row.bucket \in 0 .. count - 1
    /\ \A r, s \in rows : r.pair = s.pair => r = s

BucketRows(count) == UNION {bucketFile[b] : b \in 0 .. count - 1}

\* What the statistics of a selection are once they were read.
Complete(selection, count, univariate, rows) ==
    /\ \A i \in selection : Quoted(i)
    /\ univariate = {Row(i) : i \in selection}
    /\ BucketRows(count) = rows
    /\ RowsFor(selection, count, rows)
    /\ PairsOf(selection) = {row.pair : row \in rows}

\* The covariances of the listings not still to be written.
PairsWritten(selection, rows, todo) ==
    \A i \in selection \ todo :
        \A row \in rows : i = row.pair[1] \/ i = row.pair[2] => row \in covarianceFile[Path(i)]

InReturns ==
    /\ goldCall.step = "returns" /\ HasFields(goldCall, CallFields)
    /\ goldCall.todo \subseteq goldCall.selection /\ \A i \in goldCall.todo : Quoted(i)
    /\ CurrentExcept(returnsFile, goldCall.selection, goldCall.todo)

InUnivariate ==
    /\ goldCall.step = "univariate" /\ HasFields(goldCall, CallFields)
    /\ goldCall.todo \subseteq goldCall.selection /\ \A i \in goldCall.todo : Quoted(i)
    /\ CurrentExcept(returnsFile, goldCall.selection, {})
    /\ CurrentExcept(univariateFile, goldCall.selection, goldCall.todo)

InBuckets ==
    /\ goldCall.step = "buckets" /\ HasFields(goldCall, CallFields \union {"final"})
    /\ goldCall.todo \subseteq 0 .. goldCall.count - 1
    /\ CurrentExcept(returnsFile, goldCall.selection, {})
    /\ CurrentExcept(univariateFile, goldCall.selection, {})
    /\ RowsFor(Universe, goldCall.count, goldCall.final)
    /\ \A b \in (0 .. goldCall.count - 1) \ goldCall.todo :
          bucketFile[b] = {row \in goldCall.final : row.bucket = b}

InPairs ==
    /\ goldCall.step = "pairs" /\ HasFields(goldCall, CallFields \union {"univariate", "rows"})
    /\ goldCall.todo \subseteq goldCall.selection
    /\ Complete(goldCall.selection, goldCall.count, goldCall.univariate, goldCall.rows)
    /\ PairsWritten(goldCall.selection, goldCall.rows, goldCall.todo)

CallOK ==
    \/ goldCall = NoCall
    \/ /\ goldCall.pinned = revision /\ goldCall.selection \subseteq Positions
       /\ goldCall.count \in BucketCounts
       /\ answer = NoAnswer
       /\ InReturns \/ InUnivariate \/ InBuckets \/ InPairs

GoldInv == FilesOK /\ CallOK /\ SelectionStatisticsAreCurrent

-----------------------------------------------------------------------------
(* Calls and files *)

\* A call that goes on with its next file.
LEMMA GoesOn ==
    ASSUME NEW fields, HasFields(goldCall, fields), "todo" \in fields, NEW i, Done(i)
    PROVE  /\ HasFields(goldCall, fields)'
           /\ goldCall'.todo = goldCall.todo \ {i}
           /\ \A f \in fields : f # "todo" => goldCall'[f] = goldCall[f]
BY DEF Done, HasFields

LEMMA PathOf == ASSUME NEW i \in Positions PROVE Path(i) \in Paths
BY DEF Paths

\* A file that is written holds the row of a quoted listing.
LEMMA WrittenFile ==
    ASSUME NEW file, RowsOfQuoted(file), NEW i \in Positions, revision[i] > 0,
           NEW new, new = [file EXCEPT ![Path(i)] = Row(i)]
    PROVE  RowsOfQuoted(new)
BY PathOf DEF RowsOfQuoted, Row

\* And serves every selected listing of its path.
LEMMA WrittenNext ==
    ASSUME NEW file, DOMAIN file = Paths, NEW selection \in SUBSET Positions, NEW todo,
           CurrentExcept(file, selection, todo), NEW i \in selection,
           NEW new, new = [file EXCEPT ![Path(i)] = Row(i)]
    PROVE  CurrentExcept(new, selection, todo \ {i})
<1>1. new[Path(i)] = Row(i) /\ \A p \in Paths : p # Path(i) => new[p] = file[p]
  BY PathOf
<1>2. \A k \in selection : Path(k) \in Paths
  BY PathOf
<1> HIDE DEF Path, Row
<1> QED
  BY <1>1, <1>2 DEF CurrentExcept

LEMMA OneReturn == ASSUME GoldInv, WriteReturns PROVE GoldInv'
<1>1. PICK i \in goldCall.todo :
          Done(i) /\ returnsFile' = [returnsFile EXCEPT ![Path(i)] = CurrentRow(i)]
  BY DEF WriteReturns
<1>2. /\ goldCall # NoCall /\ InReturns /\ goldCall.pinned = revision /\ answer = NoAnswer
      /\ goldCall.selection \subseteq Positions /\ goldCall.count \in BucketCounts
  BY DEF WriteReturns, GoldInv, CallOK, NoCall, InUnivariate, InBuckets, InPairs
<1>3. i \in goldCall.selection /\ Quoted(i) /\ CurrentRow(i) = Row(i)
  BY <1>2 DEF InReturns, CurrentRow, Row
<1>4. /\ HasFields(goldCall, CallFields)' /\ goldCall'.todo = goldCall.todo \ {i}
      /\ goldCall'.step = "returns" /\ goldCall'.selection = goldCall.selection
      /\ goldCall'.pinned = goldCall.pinned /\ goldCall'.count = goldCall.count
  BY <1>1, <1>2, GoesOn DEF InReturns, CallFields
<1>5. /\ revision' = revision /\ univariateFile' = univariateFile /\ bucketFile' = bucketFile
      /\ covarianceFile' = covarianceFile /\ answer' = answer
  BY DEF WriteReturns
<1>6. RowsOfQuoted(returnsFile) /\ RowsOfQuoted(returnsFile')
  BY <1>1, <1>3, WrittenFile DEF GoldInv, FilesOK, Quoted
<1>7. CurrentExcept(returnsFile', goldCall.selection, goldCall.todo \ {i})
  BY <1>1, <1>2, <1>3, <1>6, WrittenNext DEF InReturns, RowsOfQuoted
<1>8. FilesOK'
  BY <1>5, <1>6 DEF GoldInv, FilesOK, RowsOfQuoted, BucketsOK
<1>9. InReturns'
  BY <1>2, <1>4, <1>5, <1>7 DEF InReturns, CurrentExcept, Quoted, Row
<1>10. SelectionStatisticsAreCurrent'
  BY <1>2, <1>5 DEF SelectionStatisticsAreCurrent, NoAnswer
<1> QED
  BY <1>2, <1>4, <1>5, <1>8, <1>9, <1>10 DEF GoldInv, CallOK

LEMMA OneUnivariate == ASSUME GoldInv, WriteUnivariate PROVE GoldInv'
<1>1. PICK i \in goldCall.todo :
          Done(i) /\ univariateFile' = [univariateFile EXCEPT ![Path(i)] = CurrentRow(i)]
  BY DEF WriteUnivariate
<1>2. /\ goldCall # NoCall /\ InUnivariate /\ goldCall.pinned = revision /\ answer = NoAnswer
      /\ goldCall.selection \subseteq Positions /\ goldCall.count \in BucketCounts
  BY DEF WriteUnivariate, GoldInv, CallOK, NoCall, InReturns, InBuckets, InPairs
<1>3. i \in goldCall.selection /\ Quoted(i) /\ CurrentRow(i) = Row(i)
  BY <1>2 DEF InUnivariate, CurrentRow, Row
<1>4. /\ HasFields(goldCall, CallFields)' /\ goldCall'.todo = goldCall.todo \ {i}
      /\ goldCall'.step = "univariate" /\ goldCall'.selection = goldCall.selection
      /\ goldCall'.pinned = goldCall.pinned /\ goldCall'.count = goldCall.count
  BY <1>1, <1>2, GoesOn DEF InUnivariate, CallFields
<1>5. /\ revision' = revision /\ returnsFile' = returnsFile /\ bucketFile' = bucketFile
      /\ covarianceFile' = covarianceFile /\ answer' = answer
  BY DEF WriteUnivariate
<1>6. RowsOfQuoted(univariateFile) /\ RowsOfQuoted(univariateFile')
  BY <1>1, <1>3, WrittenFile DEF GoldInv, FilesOK, Quoted
<1>7. CurrentExcept(univariateFile', goldCall.selection, goldCall.todo \ {i})
  BY <1>1, <1>2, <1>3, <1>6, WrittenNext DEF InUnivariate, RowsOfQuoted
<1>8. FilesOK'
  BY <1>5, <1>6 DEF GoldInv, FilesOK, RowsOfQuoted, BucketsOK
<1>9. InUnivariate'
  BY <1>2, <1>4, <1>5, <1>7 DEF InUnivariate, CurrentExcept, Quoted, Row
<1>10. SelectionStatisticsAreCurrent'
  BY <1>2, <1>5 DEF SelectionStatisticsAreCurrent, NoAnswer
<1> QED
  BY <1>2, <1>4, <1>5, <1>8, <1>9, <1>10 DEF GoldInv, CallOK

-----------------------------------------------------------------------------
(* Pairs and buckets *)

LEMMA BucketsOfCount ==
    ASSUME BucketsOK, NEW count \in BucketCounts, NEW b \in 0 .. count - 1
    PROVE  b \in Buckets /\ ExistingBuckets(count)[b] = bucketFile[b]
<1>1. b \in Buckets
  BY DEF Buckets
<1> QED
  BY <1>1 DEF BucketsOK, ExistingBuckets

LEMMA BucketNumber ==
    ASSUME NEW universe \in SUBSET Positions, NEW p, NEW count \in BucketCounts
    PROVE  LeftId(universe, p) % count \in 0 .. count - 1
<1>1. IsFiniteSet({i \in universe : i < p[1]})
  BY FS_Subset, GoldAssumption
<1>2. LeftId(universe, p) \in Nat
  BY <1>1, FS_CardinalityType DEF LeftId
<1>3. count \in Nat \ {0}
  BY GoldAssumption
<1> HIDE DEF LeftId
<1> QED
  BY <1>2, <1>3

\* Cached or fresh, a row says what a fresh one says.
LEMMA FinalRowFresh ==
    ASSUME BucketsOK, NEW universe \in SUBSET Positions, NEW pinned, NEW count \in BucketCounts,
           NEW p \in PairsOf(universe)
    PROVE  LET row == FinalRow(universe, pinned, count, p) IN
           /\ row.pair = p /\ row.dates = Calendar(universe)
           /\ row.values = <<pinned[p[1]], pinned[p[2]]>>
           /\ row.bucket = LeftId(universe, p) % count
<1> DEFINE fresh == PairRow(universe, pinned, count, p)
           hits == {row \in CachedRows(count, p) : CacheRowMatches(row, fresh)}
<1>1. /\ fresh.pair = p /\ fresh.dates = Calendar(universe)
      /\ fresh.values = <<pinned[p[1]], pinned[p[2]]>>
      /\ fresh.bucket = LeftId(universe, p) % count
  BY DEF PairRow
<1>2. FinalRow(universe, pinned, count, p) = IF hits # {} THEN CHOOSE row \in hits : TRUE ELSE fresh
  BY DEF FinalRow
<1> HIDE DEF fresh
<1>3. \A row \in hits : row.pair = p /\ row.dates = fresh.dates
                        /\ row.values = fresh.values /\ row.bucket = fresh.bucket
  BY DEF CachedRows, CacheRowMatches
<1> HIDE DEF hits
<1>4. FinalRow(universe, pinned, count, p) = fresh \/ FinalRow(universe, pinned, count, p) \in hits
  BY <1>2
<1> QED
  BY <1>1, <1>3, <1>4

LEMMA FinalRowsFor ==
    ASSUME BucketsOK, NEW universe \in SUBSET Positions, NEW pinned, NEW count \in BucketCounts,
           \A i \in universe : pinned[i] = revision[i]
    PROVE  RowsFor(universe, count, FinalRows(universe, pinned, count))
<1> DEFINE final == FinalRows(universe, pinned, count)
<1>1. \A row \in final : \E p \in PairsOf(universe) : row = FinalRow(universe, pinned, count, p)
  BY DEF FinalRows
<1>2. \A p \in PairsOf(universe) : p[1] \in universe /\ p[2] \in universe
  BY DEF PairsOf
<1>3. ASSUME NEW p \in PairsOf(universe)
      PROVE  LET row == FinalRow(universe, pinned, count, p) IN
             /\ row.pair = p /\ row.dates = Calendar(universe)
             /\ row.values = <<revision[p[1]], revision[p[2]]>>
             /\ row.bucket \in 0 .. count - 1
  BY <1>2, FinalRowFresh, BucketNumber
<1> HIDE DEF final
<1> QED
  BY <1>1, <1>3 DEF RowsFor, final

\* A bucket that is not dirty holds its final rows.
LEMMA CleanBucket ==
    ASSUME BucketsOK, NEW count \in BucketCounts, NEW final,
           NEW b \in (0 .. count - 1) \ DirtyBuckets(count, final)
    PROVE  bucketFile[b] = {row \in final : row.bucket = b}
<1> DEFINE rows == {row \in final : row.bucket = b}
<1>1. b \in Buckets /\ ExistingBuckets(count)[b] = bucketFile[b]
  BY BucketsOfCount
<1>2. rows \subseteq bucketFile[b] /\ {row.pair : row \in rows} = {row.pair : row \in bucketFile[b]}
  BY <1>1 DEF DirtyBuckets
<1>3. \A r, s \in bucketFile[b] : r.pair = s.pair => r = s
  BY <1>1 DEF BucketsOK
<1> HIDE DEF rows
<1>4. ASSUME NEW r \in bucketFile[b] PROVE r \in rows
  <2>1. PICK s \in rows : s.pair = r.pair
    BY <1>2
  <2> QED
    BY <1>2, <1>3, <2>1
<1>5. bucketFile[b] = rows
  BY <1>2, <1>4
<1> QED
  BY <1>5 DEF rows

\* What a call reads of the returns was written by it.
LEMMA UniverseQuoted ==
    ASSUME RowsOfQuoted(returnsFile), goldCall.selection \subseteq Positions,
           CurrentExcept(returnsFile, goldCall.selection, {})
    PROVE  Universe \subseteq Positions /\ \A i \in Universe : Quoted(i) /\ ReadReturns[i] = revision[i]
<1> SUFFICES ASSUME NEW i \in Universe PROVE i \in Positions /\ Quoted(i) /\ ReadReturns[i] = revision[i]
  OBVIOUS
<1>1. i \in goldCall.selection /\ i \in Positions /\ returnsFile[Path(i)].listing = i
  BY DEF Universe
<1>2. Quoted(i)
  <2>1. Path(i) \in Paths /\ i # 0
    BY <1>1, PathOf, GoldAssumption
  <2> QED
    BY <1>1, <2>1 DEF RowsOfQuoted, Quoted
<1>3. PICK j \in goldCall.selection : returnsFile[Path(i)] = Row(j)
  BY <1>1, <1>2 DEF CurrentExcept
<1>4. returnsFile[Path(i)].revision = revision[i]
  BY <1>1, <1>3 DEF Row
<1> QED
  BY <1>1, <1>2, <1>4 DEF ReadReturns

LEMMA DirtyFound == ASSUME GoldInv, FindDirty PROVE GoldInv'
<1> DEFINE final == FinalRows(Universe, ReadReturns, goldCall.count)
           call == [step |-> "buckets", selection |-> goldCall.selection,
                    pinned |-> goldCall.pinned, count |-> goldCall.count, final |-> final,
                    todo |-> DirtyBuckets(goldCall.count, final)]
<1>1. /\ goldCall # NoCall /\ InUnivariate /\ goldCall.pinned = revision /\ answer = NoAnswer
      /\ goldCall.selection \subseteq Positions /\ goldCall.count \in BucketCounts
  BY DEF FindDirty, GoldInv, CallOK, NoCall, InReturns, InBuckets, InPairs
<1>2. goldCall.todo = {} /\ (goldCall' = call \/ goldCall' = NoCall)
  BY DEF FindDirty
<1>3. /\ revision' = revision /\ returnsFile' = returnsFile /\ univariateFile' = univariateFile
      /\ bucketFile' = bucketFile /\ covarianceFile' = covarianceFile /\ answer' = answer
  BY DEF FindDirty
<1>4. FilesOK'
  BY <1>3 DEF GoldInv, FilesOK, RowsOfQuoted, BucketsOK
<1>5. SelectionStatisticsAreCurrent'
  BY <1>1, <1>3 DEF SelectionStatisticsAreCurrent, NoAnswer
<1>6. CASE goldCall' = NoCall
  BY <1>4, <1>5, <1>6 DEF GoldInv, CallOK
<1>7. CASE goldCall' = call
  <2>1. RowsFor(Universe, goldCall.count, final)
    BY <1>1, <1>2, UniverseQuoted, FinalRowsFor DEF GoldInv, FilesOK, InUnivariate
  <2>2. \A b \in (0 .. goldCall.count - 1) \ DirtyBuckets(goldCall.count, final) :
            bucketFile[b] = {row \in final : row.bucket = b}
    BY <1>1, CleanBucket DEF GoldInv, FilesOK
  <2>3. DirtyBuckets(goldCall.count, final) \subseteq 0 .. goldCall.count - 1
    BY DEF DirtyBuckets
  <2> HIDE DEF final
  <2>4. /\ HasFields(call, CallFields \union {"final"}) /\ call.step = "buckets"
        /\ call.selection = goldCall.selection /\ call.pinned = goldCall.pinned
        /\ call.count = goldCall.count /\ call.final = final
        /\ call.todo = DirtyBuckets(goldCall.count, final)
    BY DEF HasFields, CallFields
  <2> HIDE DEF call
  <2>5. Universe' = Universe
    BY <1>3, <1>7, <2>4 DEF Universe
  <2>6. InBuckets'
    <3>1. RowsFor(Universe, goldCall.count, goldCall.final)'
      BY <1>3, <1>7, <2>1, <2>4, <2>5 DEF RowsFor
    <3>2. CurrentExcept(returnsFile, goldCall.selection, {})' /\ CurrentExcept(univariateFile, goldCall.selection, {})'
      BY <1>1, <1>2, <1>3, <1>7, <2>4 DEF InUnivariate, CurrentExcept, Quoted, Row
    <3> QED
      BY <1>3, <1>7, <2>2, <2>3, <2>4, <3>1, <3>2 DEF InBuckets
  <2> QED
    BY <1>1, <1>3, <1>4, <1>5, <1>7, <2>4, <2>6 DEF GoldInv, CallOK
<1> QED
  BY <1>2, <1>6, <1>7

LEMMA OneBucket == ASSUME GoldInv, WriteBucket PROVE GoldInv'
<1>1. PICK b \in goldCall.todo :
          Done(b) /\ bucketFile' = [bucketFile EXCEPT ![b] = {row \in goldCall.final : row.bucket = b}]
  BY DEF WriteBucket
<1>2. /\ goldCall # NoCall /\ InBuckets /\ goldCall.pinned = revision /\ answer = NoAnswer
      /\ goldCall.selection \subseteq Positions /\ goldCall.count \in BucketCounts
  BY DEF WriteBucket, GoldInv, CallOK, NoCall, InReturns, InUnivariate, InPairs
<1>3. b \in Buckets /\ b \in 0 .. goldCall.count - 1
  BY <1>2, BucketsOfCount DEF InBuckets, GoldInv, FilesOK
<1>4. /\ HasFields(goldCall, CallFields \union {"final"})' /\ goldCall'.todo = goldCall.todo \ {b}
      /\ goldCall'.step = "buckets" /\ goldCall'.selection = goldCall.selection
      /\ goldCall'.pinned = goldCall.pinned /\ goldCall'.count = goldCall.count
      /\ goldCall'.final = goldCall.final
  BY <1>1, <1>2, GoesOn DEF InBuckets, CallFields
<1>5. /\ revision' = revision /\ returnsFile' = returnsFile /\ univariateFile' = univariateFile
      /\ covarianceFile' = covarianceFile /\ answer' = answer
  BY DEF WriteBucket
<1>6. /\ DOMAIN bucketFile' = Buckets /\ bucketFile'[b] = {row \in goldCall.final : row.bucket = b}
      /\ \A c \in Buckets : c # b => bucketFile'[c] = bucketFile[c]
  BY <1>1, <1>3 DEF GoldInv, FilesOK, BucketsOK
<1>7. BucketsOK'
  <2>1. \A r, s \in goldCall.final : r.pair = s.pair => r = s
    BY <1>2 DEF InBuckets, RowsFor
  <2> QED
    BY <1>6, <2>1 DEF GoldInv, FilesOK, BucketsOK
<1>8. FilesOK'
  BY <1>5, <1>7 DEF GoldInv, FilesOK, RowsOfQuoted
<1>9. InBuckets'
  <2>1. RowsFor(Universe, goldCall.count, goldCall.final)'
    <3>1. Universe' = Universe
      BY <1>4, <1>5 DEF Universe
    <3> QED
      BY <1>2, <1>4, <1>5, <3>1 DEF InBuckets, RowsFor
  <2>2. CurrentExcept(returnsFile, goldCall.selection, {})' /\ CurrentExcept(univariateFile, goldCall.selection, {})'
    BY <1>2, <1>4, <1>5 DEF InBuckets, CurrentExcept, Quoted, Row
  <2>3. \A c \in (0 .. goldCall.count - 1) \ (goldCall.todo \ {b}) :
            bucketFile'[c] = {row \in goldCall.final : row.bucket = c}
    BY <1>2, <1>6, BucketsOfCount DEF InBuckets, GoldInv, FilesOK
  <2> QED
    BY <1>2, <1>4, <2>1, <2>2, <2>3 DEF InBuckets
<1>10. SelectionStatisticsAreCurrent'
  BY <1>2, <1>5 DEF SelectionStatisticsAreCurrent, NoAnswer
<1> QED
  BY <1>2, <1>4, <1>5, <1>8, <1>9, <1>10 DEF GoldInv, CallOK

-----------------------------------------------------------------------------
(* Reading back and answering *)

\* A complete view has the row of each listing in its own file, so the files
\* of the selected listings are distinct and current.
LEMMA ViewIsCurrent ==
    ASSUME GoldInv, InBuckets, goldCall.selection \subseteq Positions, ViewComplete
    PROVE  /\ \A i \in goldCall.selection : Quoted(i) /\ univariateFile[Path(i)] = Row(i)
           /\ Universe = goldCall.selection
<1>1. ASSUME NEW i \in goldCall.selection
      PROVE  Quoted(i) /\ univariateFile[Path(i)] = Row(i)
  <2>1. univariateFile[Path(i)].listing = i /\ i # 0 /\ Path(i) \in Paths
    BY PathOf, GoldAssumption DEF ViewComplete
  <2>2. Quoted(i)
    BY <2>1 DEF GoldInv, FilesOK, RowsOfQuoted, Quoted
  <2>3. PICK j \in goldCall.selection : univariateFile[Path(i)] = Row(j)
    BY <2>2 DEF InBuckets, CurrentExcept
  <2>4. i = j
    BY <2>1, <2>3 DEF Row
  <2> QED
    BY <2>2, <2>3, <2>4
<1>2. ASSUME NEW i \in goldCall.selection, NEW j \in goldCall.selection, Path(i) = Path(j)
      PROVE  i = j
  <2>1. Row(i) = Row(j)
    BY <1>1, <1>2
  <2> QED
    BY <2>1 DEF Row
<1>3. ASSUME NEW i \in goldCall.selection PROVE returnsFile[Path(i)].listing = i
  <2>1. PICK j \in goldCall.selection : Path(j) = Path(i) /\ returnsFile[Path(i)] = Row(j)
    BY <1>1 DEF InBuckets, CurrentExcept
  <2>2. j = i
    BY <1>2, <2>1
  <2> QED
    BY <2>1, <2>2 DEF Row
<1> QED
  BY <1>1, <1>3 DEF Universe

LEMMA StatisticsRead == ASSUME GoldInv, ReadStatistics PROVE GoldInv'
<1> DEFINE univariate == {univariateFile[Path(i)] : i \in goldCall.selection}
           rows == {IndexedRow(p) : p \in PairsOf(goldCall.selection)}
           call == [step |-> "pairs", selection |-> goldCall.selection,
                    pinned |-> goldCall.pinned, count |-> goldCall.count,
                    univariate |-> univariate, rows |-> rows, todo |-> goldCall.selection]
<1>1. /\ goldCall # NoCall /\ InBuckets /\ goldCall.pinned = revision /\ answer = NoAnswer
      /\ goldCall.selection \subseteq Positions /\ goldCall.count \in BucketCounts
  BY DEF ReadStatistics, GoldInv, CallOK, NoCall, InReturns, InUnivariate, InPairs
<1>2. goldCall.todo = {} /\ goldCall' = IF ViewComplete THEN call ELSE NoCall
  BY DEF ReadStatistics
<1>3. /\ revision' = revision /\ returnsFile' = returnsFile /\ univariateFile' = univariateFile
      /\ bucketFile' = bucketFile /\ covarianceFile' = covarianceFile /\ answer' = answer
  BY DEF ReadStatistics
<1>4. FilesOK'
  BY <1>3 DEF GoldInv, FilesOK, RowsOfQuoted, BucketsOK
<1>5. SelectionStatisticsAreCurrent'
  BY <1>1, <1>3 DEF SelectionStatisticsAreCurrent, NoAnswer
<1>6. CASE ~ViewComplete
  BY <1>2, <1>4, <1>5, <1>6 DEF GoldInv, CallOK
<1>7. CASE ViewComplete
  <2> DEFINE final == goldCall.final
  <2>1. /\ \A i \in goldCall.selection : Quoted(i) /\ univariateFile[Path(i)] = Row(i)
        /\ Universe = goldCall.selection
    BY <1>1, <1>7, ViewIsCurrent
  <2>2. /\ \A b \in 0 .. goldCall.count - 1 : bucketFile[b] = {row \in final : row.bucket = b}
        /\ RowsFor(goldCall.selection, goldCall.count, final)
    BY <1>1, <1>2, <2>1 DEF InBuckets
  <2>3. IndexedRows = final
    BY <2>2 DEF IndexedRows, RowsFor
  <2>4. \A r, s \in final : r.pair = s.pair => r = s
    BY <2>2 DEF RowsFor
  <2>5. ASSUME NEW row \in final PROVE IndexedRow(row.pair) = row
    <3>1. \A other \in IndexedRows : other.pair = row.pair => other = row
      BY <2>3, <2>4
    <3>2. row.bucket \in 0 .. goldCall.count - 1
      BY <2>2 DEF RowsFor
    <3>3. row.bucket <= row.bucket
      BY <3>2
    <3> QED
      BY <2>3, <3>1, <3>3 DEF IndexedRow
  <2>6. PairsOf(goldCall.selection) = {row.pair : row \in final}
    BY <1>7, <2>2, <2>3 DEF ViewComplete, RowsFor
  <2>7. rows = final
    BY <2>5, <2>6
  <2>8. univariate = {Row(i) : i \in goldCall.selection}
    BY <2>1
  <2> HIDE DEF rows, univariate, final
  <2>9. /\ HasFields(call, CallFields \union {"univariate", "rows"}) /\ call.step = "pairs"
        /\ call.selection = goldCall.selection /\ call.pinned = goldCall.pinned
        /\ call.count = goldCall.count /\ call.univariate = univariate /\ call.rows = rows
        /\ call.todo = goldCall.selection
    BY DEF HasFields, CallFields
  <2> HIDE DEF call
  <2>10. Complete(goldCall.selection, goldCall.count, univariate, rows)
    BY <2>1, <2>2, <2>3, <2>6, <2>7, <2>8 DEF Complete, BucketRows, IndexedRows
  <2>11. goldCall' = call
    BY <1>2, <1>7
  <2>12. Complete(goldCall.selection, goldCall.count, goldCall.univariate, goldCall.rows)'
    BY <1>3, <2>9, <2>10, <2>11 DEF Complete, BucketRows, RowsFor, Quoted, Row
  <2>13. InPairs'
    BY <2>9, <2>11, <2>12 DEF InPairs, PairsWritten
  <2> QED
    BY <1>1, <1>3, <1>4, <1>5, <2>9, <2>11, <2>13 DEF GoldInv, CallOK
<1> QED
  BY <1>6, <1>7

LEMMA OnePairFile == ASSUME GoldInv, WritePairInputs PROVE GoldInv'
<1>1. PICK i \in goldCall.todo :
          /\ Done(i)
          /\ covarianceFile' = [covarianceFile EXCEPT
                 ![Path(i)] = {row \in goldCall.rows : Isin(i) \in {Isin(row.pair[1]), Isin(row.pair[2])}}]
  BY DEF WritePairInputs
<1>2. /\ goldCall # NoCall /\ InPairs /\ goldCall.pinned = revision /\ answer = NoAnswer
      /\ goldCall.selection \subseteq Positions /\ goldCall.count \in BucketCounts
  BY DEF WritePairInputs, GoldInv, CallOK, NoCall, InReturns, InUnivariate, InBuckets
<1>3. i \in goldCall.selection /\ Path(i) \in Paths
  BY <1>2, PathOf DEF InPairs
<1>4. /\ HasFields(goldCall, CallFields \union {"univariate", "rows"})'
      /\ goldCall'.todo = goldCall.todo \ {i}
      /\ goldCall'.step = "pairs" /\ goldCall'.selection = goldCall.selection
      /\ goldCall'.pinned = goldCall.pinned /\ goldCall'.count = goldCall.count
      /\ goldCall'.univariate = goldCall.univariate /\ goldCall'.rows = goldCall.rows
  BY <1>1, <1>2, GoesOn DEF InPairs, CallFields
<1>5. /\ revision' = revision /\ returnsFile' = returnsFile /\ univariateFile' = univariateFile
      /\ bucketFile' = bucketFile /\ answer' = answer
  BY DEF WritePairInputs
<1>6. /\ DOMAIN covarianceFile' = Paths
      /\ covarianceFile'[Path(i)] =
             {row \in goldCall.rows : Isin(i) \in {Isin(row.pair[1]), Isin(row.pair[2])}}
      /\ \A p \in Paths : p # Path(i) => covarianceFile'[p] = covarianceFile[p]
  BY <1>1, <1>3 DEF GoldInv, FilesOK
<1>7. FilesOK'
  BY <1>5, <1>6 DEF GoldInv, FilesOK, RowsOfQuoted, BucketsOK
<1>8. PairsWritten(goldCall.selection, goldCall.rows, goldCall.todo)'
  <2> SUFFICES ASSUME NEW k \in goldCall.selection, k \notin goldCall.todo \ {i},
                      NEW row \in goldCall.rows, k = row.pair[1] \/ k = row.pair[2]
               PROVE  row \in covarianceFile'[Path(k)]
    BY <1>4 DEF PairsWritten
  <2>1. CASE Path(k) = Path(i)
    <3>1. Isin(k) = Isin(i)
      BY <2>1 DEF Path, Isin
    <3>2. Isin(i) \in {Isin(row.pair[1]), Isin(row.pair[2])}
      BY <3>1
    <3> QED
      BY <1>6, <2>1, <3>2
  <2>2. CASE Path(k) # Path(i)
    <3>1. k \notin goldCall.todo /\ Path(k) \in Paths
      BY <1>2, <2>2, PathOf
    <3>2. row \in covarianceFile[Path(k)]
      BY <1>2, <3>1 DEF InPairs, PairsWritten
    <3> QED
      BY <1>6, <2>2, <3>1, <3>2
  <2> QED
    BY <2>1, <2>2
<1>9. Complete(goldCall.selection, goldCall.count, goldCall.univariate, goldCall.rows)'
  BY <1>2, <1>4, <1>5 DEF InPairs, Complete, BucketRows, RowsFor, Quoted, Row
<1>10. InPairs'
  BY <1>2, <1>4, <1>8, <1>9 DEF InPairs
<1>11. SelectionStatisticsAreCurrent'
  BY <1>2, <1>5 DEF SelectionStatisticsAreCurrent, NoAnswer
<1> QED
  BY <1>2, <1>4, <1>5, <1>7, <1>10, <1>11 DEF GoldInv, CallOK

LEMMA Answered == ASSUME GoldInv, AnswerCall PROVE GoldInv'
<1> DEFINE selected == goldCall.selection
           rows == goldCall.rows
<1>1. /\ goldCall # NoCall /\ InPairs /\ goldCall.pinned = revision
      /\ selected \subseteq Positions /\ goldCall.count \in BucketCounts
  BY DEF AnswerCall, GoldInv, CallOK, NoCall, InReturns, InUnivariate, InBuckets
<1>2. /\ goldCall' = NoCall
      /\ answer' = [selection |-> selected, pinned |-> goldCall.pinned, count |-> goldCall.count,
                    univariate |-> goldCall.univariate, rows |-> rows]
      /\ revision' = revision /\ returnsFile' = returnsFile /\ univariateFile' = univariateFile
      /\ bucketFile' = bucketFile /\ covarianceFile' = covarianceFile
  BY DEF AnswerCall
<1>3. FilesOK' /\ CallOK'
  BY <1>2 DEF GoldInv, FilesOK, RowsOfQuoted, BucketsOK, CallOK
<1>4. Complete(selected, goldCall.count, goldCall.univariate, rows) /\ PairsWritten(selected, rows, {})
  BY <1>1 DEF InPairs, AnswerCall
<1>5. \A p \in PairsOf(selected) : p[1] \in selected /\ p[2] \in selected
  BY DEF PairsOf
<1>6. ASSUME NEW row \in rows
      PROVE  /\ row.dates = Calendar(selected)
             /\ row.values = <<revision[row.pair[1]], revision[row.pair[2]]>>
             /\ row \in covarianceFile[Path(row.pair[1])] \cap covarianceFile[Path(row.pair[2])]
  <2>1. row.pair \in PairsOf(selected)
    BY <1>4 DEF Complete, RowsFor
  <2>2. row.pair[1] \in selected /\ row.pair[2] \in selected
    BY <1>5, <2>1
  <2> QED
    BY <1>4, <2>2 DEF Complete, RowsFor, PairsWritten
<1>7. /\ answer'.selection = selected /\ answer'.pinned = revision /\ answer'.count = goldCall.count
      /\ answer'.univariate = {Row(i) : i \in selected} /\ answer'.rows = rows
  BY <1>1, <1>2, <1>4 DEF Complete
<1>8. /\ \A i \in selected : revision[i] > 0
      /\ {row.pair : row \in rows} = PairsOf(selected)
      /\ BucketRows(goldCall.count) = rows
      /\ \A r, s \in rows : r.pair = s.pair => r = s
  BY <1>4 DEF Complete, RowsFor, Quoted
<1> HIDE DEF selected, rows
<1>9. UNION {bucketFile'[b] : b \in 0 .. answer'.count - 1} = rows
  BY <1>2, <1>7, <1>8 DEF BucketRows
<1>10. SelectionStatisticsAreCurrent'
  BY <1>2, <1>6, <1>7, <1>8, <1>9 DEF SelectionStatisticsAreCurrent, Row
<1> QED
  BY <1>3, <1>10 DEF GoldInv

-----------------------------------------------------------------------------
(* Calls begin and die, and quotes arrive between them *)

LEMMA Started == ASSUME GoldInv, NEW s \in Selections, NEW n \in BucketCounts, StartCall(s, n) PROVE GoldInv'
<1> DEFINE quoted == {i \in s : revision[i] > 0}
           call == [step |-> "returns", selection |-> s, pinned |-> revision, count |-> n, todo |-> quoted]
<1>1. /\ goldCall' = call /\ answer' = NoAnswer
      /\ revision' = revision /\ returnsFile' = returnsFile /\ univariateFile' = univariateFile
      /\ bucketFile' = bucketFile /\ covarianceFile' = covarianceFile
  BY DEF StartCall
<1>2. FilesOK' /\ SelectionStatisticsAreCurrent'
  BY <1>1 DEF GoldInv, FilesOK, RowsOfQuoted, BucketsOK, SelectionStatisticsAreCurrent, NoAnswer
<1>3. /\ HasFields(call, CallFields) /\ call.step = "returns" /\ call.selection = s
      /\ call.pinned = revision /\ call.count = n /\ call.todo = quoted
  BY DEF HasFields, CallFields
<1> HIDE DEF call
<1>4. s \subseteq Positions
  BY GoldAssumption
<1>5. InReturns'
  BY <1>1, <1>3, <1>4 DEF InReturns, CurrentExcept, Quoted
<1> QED
  BY <1>1, <1>2, <1>3, <1>4, <1>5 DEF GoldInv, CallOK

LEMMA StaleFound == ASSUME GoldInv, FindStale PROVE GoldInv'
<1>1. /\ goldCall # NoCall /\ InReturns /\ goldCall.pinned = revision /\ answer = NoAnswer
      /\ goldCall.selection \subseteq Positions /\ goldCall.count \in BucketCounts
  BY DEF FindStale, GoldInv, CallOK, NoCall, InUnivariate, InBuckets, InPairs
<1>2. /\ goldCall.todo = {}
      /\ goldCall' = [goldCall EXCEPT !.step = "univariate", !.todo = StaleUnivariate]
      /\ revision' = revision /\ returnsFile' = returnsFile /\ univariateFile' = univariateFile
      /\ bucketFile' = bucketFile /\ covarianceFile' = covarianceFile /\ answer' = answer
  BY DEF FindStale
<1>3. FilesOK'
  BY <1>2 DEF GoldInv, FilesOK, RowsOfQuoted, BucketsOK
<1>4. SelectionStatisticsAreCurrent'
  BY <1>1, <1>2 DEF SelectionStatisticsAreCurrent, NoAnswer
<1>5. /\ HasFields(goldCall, CallFields)' /\ goldCall'.todo = StaleUnivariate
      /\ goldCall'.step = "univariate" /\ goldCall'.selection = goldCall.selection
      /\ goldCall'.pinned = goldCall.pinned /\ goldCall'.count = goldCall.count
  BY <1>1, <1>2 DEF InReturns, HasFields, CallFields
<1>6. StaleUnivariate \subseteq goldCall.selection /\ \A i \in StaleUnivariate : Quoted(i)
  BY <1>1 DEF StaleUnivariate, Quoted
<1>7. CurrentExcept(univariateFile, goldCall.selection, StaleUnivariate)
  BY <1>1 DEF CurrentExcept, StaleUnivariate, Quoted, CurrentRow, Row
<1>8. InUnivariate'
  <2>1. CurrentExcept(returnsFile, goldCall.selection, {})' /\ CurrentExcept(univariateFile, goldCall.selection, goldCall.todo)'
    BY <1>1, <1>2, <1>5, <1>7 DEF InReturns, CurrentExcept, Quoted, Row
  <2> QED
    BY <1>2, <1>5, <1>6, <2>1 DEF InUnivariate, Quoted
<1> QED
  BY <1>1, <1>2, <1>3, <1>4, <1>5, <1>8 DEF GoldInv, CallOK

LEMMA Died == ASSUME GoldInv, GoldCrash PROVE GoldInv'
BY DEF GoldInv, GoldCrash, CallOK, FilesOK, RowsOfQuoted, BucketsOK, SelectionStatisticsAreCurrent, NoAnswer

LEMMA Downloaded == ASSUME GoldInv, NEW i \in Positions, Download(i) PROVE GoldInv'
<1>1. /\ revision' = [revision EXCEPT ![i] = @ + 1] /\ answer' = NoAnswer /\ goldCall' = goldCall
      /\ goldCall = NoCall /\ returnsFile' = returnsFile /\ univariateFile' = univariateFile
      /\ bucketFile' = bucketFile /\ covarianceFile' = covarianceFile
  BY DEF Download
<1>2. /\ revision' \in [Positions -> Nat]
      /\ \A j \in Positions : revision[j] > 0 => revision'[j] > 0
  BY <1>1 DEF GoldInv, FilesOK
<1>3. FilesOK'
  BY <1>1, <1>2 DEF GoldInv, FilesOK, RowsOfQuoted, BucketsOK
<1> QED
  BY <1>1, <1>3 DEF GoldInv, CallOK, SelectionStatisticsAreCurrent, NoAnswer

LEMMA GoldFirst == GoldInit => GoldInv
BY GoldAssumption
DEF GoldInit, GoldInv, FilesOK, RowsOfQuoted, BucketsOK, CallOK, SelectionStatisticsAreCurrent, NoFile, NoAnswer

LEMMA GoldStep == GoldInv /\ [GoldNext]_goldVars => GoldInv'
<1> SUFFICES ASSUME GoldInv, [GoldNext]_goldVars PROVE GoldInv'
  OBVIOUS
<1>1. CASE GoldNext
  BY <1>1, Started, OneReturn, StaleFound, OneUnivariate, DirtyFound, OneBucket, StatisticsRead,
     OnePairFile, Answered, Died, Downloaded
  DEF GoldNext
<1>2. CASE UNCHANGED goldVars
  <2>1. /\ goldCall' = goldCall /\ answer' = answer /\ revision' = revision
        /\ returnsFile' = returnsFile /\ univariateFile' = univariateFile
        /\ bucketFile' = bucketFile /\ covarianceFile' = covarianceFile
    BY <1>2 DEF goldVars
  <2>2. FilesOK'
    BY <2>1 DEF GoldInv, FilesOK, RowsOfQuoted, BucketsOK
  <2>3. SelectionStatisticsAreCurrent'
    BY <2>1 DEF GoldInv, SelectionStatisticsAreCurrent
  <2>4. InReturns => InReturns'
    BY <2>1 DEF InReturns, CurrentExcept, Quoted, Row
  <2>5. InUnivariate => InUnivariate'
    BY <2>1 DEF InUnivariate, CurrentExcept, Quoted, Row
  <2>6. InBuckets => InBuckets'
    <3>1. Universe' = Universe
      BY <2>1 DEF Universe
    <3>2. InBuckets => RowsFor(Universe, goldCall.count, goldCall.final)'
      BY <2>1, <3>1 DEF InBuckets, RowsFor
    <3> QED
      BY <2>1, <3>2 DEF InBuckets, CurrentExcept, Quoted, Row
  <2>7. InPairs => InPairs'
    BY <2>1 DEF InPairs, Complete, PairsWritten, RowsFor, BucketRows, Quoted, Row
  <2>8. CallOK'
    BY <2>1, <2>4, <2>5, <2>6, <2>7 DEF GoldInv, CallOK
  <2> QED
    BY <2>2, <2>3, <2>8 DEF GoldInv
<1> QED
  BY <1>1, <1>2

\* _prepare_selection_cached_inputs: whatever earlier calls for other
\* selections and bucket counts, older quotes and crashes left in the shared
\* files, a call that answers has exactly the rows of its selection, computed
\* from the quotes it read.
THEOREM AnswersAreCurrent == GoldSpec => []SelectionStatisticsAreCurrent
<1>1. GoldInv => SelectionStatisticsAreCurrent
  BY DEF GoldInv
<1> QED
  BY <1>1, GoldFirst, GoldStep, PTL DEF GoldSpec

-----------------------------------------------------------------------------
(***************************************************************************)
(* Sequences put together from sequences.                                  *)
(***************************************************************************)
\* A set of natural numbers has a least one.
LEMMA LeastNatural ==
    ASSUME NEW S, S \subseteq Nat, S # {}
    PROVE  \E n \in S : \A m \in S : n <= m
<1> DEFINE R == {p \in Nat \X Nat : p[1] < p[2]}
<1>1. R = OpToRel(<, Nat)
  BY DEF OpToRel
<1>2. IsWellFoundedOn(R, Nat)
  BY <1>1, NatLessThanWellFounded
<1>3. \A m, n \in Nat : <<m, n>> \in R <=> m < n
  OBVIOUS
<1> HIDE DEF R
<1>4. PICK n \in S : \A m \in S : ~(<<m, n>> \in R)
  BY <1>2, WFMin
<1>5. ASSUME NEW m \in S PROVE n <= m
  <2>1. n \in Nat /\ m \in Nat
    OBVIOUS
  <2>2. ~(m < n)
    BY <1>3, <1>4, <2>1
  <2> QED
    BY <2>1, <2>2
<1> QED
  BY <1>5

\* A set that holds the first number and with each number the next holds them all up to n.
LEMMA UpTo ==
    ASSUME NEW n \in Nat, NEW S, 0 \in S, \A k \in 0..n : k \in S /\ k < n => k + 1 \in S
    PROVE  0..n \subseteq S
<1> SUFFICES ASSUME NEW x \in 0..n, x \notin S PROVE FALSE
  OBVIOUS
<1>1. PICK k \in {y \in 0..n : y \notin S} : \A m \in {y \in 0..n : y \notin S} : k <= m
  <2>1. {y \in 0..n : y \notin S} \subseteq Nat /\ {y \in 0..n : y \notin S} # {}
    OBVIOUS
  <2> QED BY <2>1, LeastNatural
<1>2. k - 1 \in 0..n /\ k - 1 \in S /\ k - 1 < n
  BY <1>1
<1> QED BY <1>1, <1>2

\* A sequence put together from sequences over a set is one over that set.
LEMMA FlattenType ==
    ASSUME NEW T, NEW seqs \in Seq(Seq(T))
    PROVE  FlattenSeq(seqs) \in Seq(T)
<1> DEFINE n == Len(seqs)
           Sol(f, m) == f = [i \in 1..m |-> IF i = 1 THEN seqs[i] ELSE f[i - 1] \o seqs[i]]
           S == {m \in 0..n : \E f : Sol(f, m) /\ \A i \in 1..m : f[i] \in Seq(T)}
<1>1. n \in Nat /\ \A i \in 1..n : seqs[i] \in Seq(T)
  OBVIOUS
<1>2. 0 \in S
  <2>1. PICK f : f = [i \in 1..0 |-> <<>>]
    OBVIOUS
  <2>2. Sol(f, 0)
    BY <2>1
  <2>3. \A i \in 1..0 : f[i] \in Seq(T)
    OBVIOUS
  <2> HIDE DEF Sol
  <2> QED BY <1>1, <2>2, <2>3
<1>3. ASSUME NEW m \in 0..n, m \in S, m < n PROVE m + 1 \in S
  <2>1. PICK f : Sol(f, m) /\ \A i \in 1..m : f[i] \in Seq(T)
    BY <1>3
  <2>2. PICK g : g = [i \in 1..(m + 1) |-> IF i <= m THEN f[i] ELSE
                                           IF m = 0 THEN seqs[1] ELSE f[m] \o seqs[m + 1]]
    OBVIOUS
  <2>3. m \in Nat /\ m + 1 \in 1..n /\ m + 1 \in 0..n
    BY <1>1, <1>3
  <2>4. ASSUME NEW i \in 1..(m + 1)
        PROVE  /\ g[i] = IF i = 1 THEN seqs[i] ELSE g[i - 1] \o seqs[i]
               /\ g[i] \in Seq(T)
    <3>1. CASE i = m + 1
      <4>1. ~(i <= m) /\ i \in 1..(m + 1) /\ i - 1 = m /\ (i = 1 <=> m = 0)
        BY <2>3, <3>1
      <4>2. g[i] = IF m = 0 THEN seqs[1] ELSE f[m] \o seqs[m + 1]
        BY <2>2, <4>1
      <4>3. m # 0 => m \in 1..m /\ g[m] = f[m] /\ f[m] \in Seq(T)
        BY <2>1, <2>2, <2>3
      <4>4. seqs[i] \in Seq(T)
        BY <1>1, <2>3, <3>1
      <4>5. CASE m = 0
        BY <4>1, <4>2, <4>4, <4>5
      <4>6. CASE m # 0
        <5>1. g[i] = f[m] \o seqs[m + 1]
          BY <4>2, <4>6
        <5>2. g[i - 1] = f[m] /\ f[m] \in Seq(T) /\ seqs[m + 1] = seqs[i] /\ i # 1
          BY <3>1, <4>1, <4>3, <4>6
        <5>3. g[i] = g[i - 1] \o seqs[i]
          BY <5>1, <5>2
        <5>4. f[m] \o seqs[m + 1] \in Seq(T)
          BY <4>4, <5>2
        <5> QED BY <5>1, <5>2, <5>3, <5>4
      <4> QED BY <4>5, <4>6, Zenon
    <3>2. CASE i <= m
      <4>1. i \in 1..m /\ g[i] = f[i] /\ f[i] \in Seq(T)
        <5>1. i \in 1..m
          BY <2>3, <3>2
        <5>2. g[i] = f[i]
          BY <2>2, <3>2
        <5> QED BY <2>1, <5>1, <5>2
      <4>2. f[i] = IF i = 1 THEN seqs[i] ELSE f[i - 1] \o seqs[i]
        <5>1. f = [j \in 1..m |-> IF j = 1 THEN seqs[j] ELSE f[j - 1] \o seqs[j]]
          BY <2>1
        <5> QED BY <4>1, <5>1
      <4>3. i # 1 => i - 1 \in 1..(m + 1) /\ i - 1 <= m
        BY <2>3, <4>1
      <4>4. i # 1 => g[i - 1] = f[i - 1]
        BY <2>2, <4>3
      <4> QED BY <4>1, <4>2, <4>4
    <3> QED BY <2>3, <3>1, <3>2
  <2>5. Sol(g, m + 1)
    <3>1. g = [i \in 1..(m + 1) |-> g[i]]
      BY <2>2
    <3> QED BY <2>4, <3>1
  <2> HIDE DEF Sol
  <2> QED BY <2>3, <2>4, <2>5
<1>4. n \in S
  <2> HIDE DEF S
  <2>1. 0..n \subseteq S
    BY <1>1, <1>2, <1>3, UpTo
  <2> QED BY <1>1, <2>1
<1>5. CASE n = 0
  BY <1>5 DEF FlattenSeq
<1>6. CASE n # 0
  <2>1. PICK g : Sol(g, n) /\ \A i \in 1..n : g[i] \in Seq(T)
    BY <1>4
  <2>2. PICK f : f = CHOOSE h : Sol(h, n)
    OBVIOUS
  <2>3. Sol(f, n)
    BY <2>1, <2>2
  <2>4. FlattenSeq(seqs) = f[n]
    BY <1>6, <2>2 DEF FlattenSeq
  <2>5. \A i \in 1..n : f[i] \in Seq(T)
    <3> DEFINE Q == {m \in 0..n : m # 0 => f[m] \in Seq(T)}
    <3>1. 0 \in Q
      BY <1>1
    <3>2. ASSUME NEW m \in 0..n, m \in Q, m < n PROVE m + 1 \in Q
      <4>1. m + 1 \in 1..n /\ (m + 1) - 1 = m /\ m + 1 \in 0..n /\ seqs[m + 1] \in Seq(T)
        BY <1>1, <3>2
      <4>2. f[m + 1] = IF m + 1 = 1 THEN seqs[m + 1] ELSE f[m] \o seqs[m + 1]
        BY <2>3, <4>1
      <4>3. m = 0 => f[m + 1] \in Seq(T)
        BY <4>1, <4>2
      <4>4. m # 0 => f[m + 1] \in Seq(T)
        <5> SUFFICES ASSUME m # 0 PROVE f[m + 1] \in Seq(T)
          OBVIOUS
        <5>1. f[m] \in Seq(T) /\ m + 1 # 1
          BY <1>1, <3>2
        <5>2. f[m + 1] = f[m] \o seqs[m + 1]
          BY <4>2, <5>1
        <5> QED BY <4>1, <5>1, <5>2
      <4> QED BY <4>1, <4>3, <4>4
    <3> HIDE DEF Q
    <3>3. 0..n \subseteq Q
      BY <1>1, <3>1, <3>2, UpTo
    <3>4. \A i \in 1..n : i \in 0..n /\ i # 0
      BY <1>1
    <3> QED BY <3>3, <3>4 DEF Q
  <2> QED BY <1>1, <1>6, <2>4, <2>5
<1> QED BY <1>5, <1>6

-----------------------------------------------------------------------------
(***************************************************************************)
(* What a run writes, and the files at each of its writes.                 *)
(***************************************************************************)
Names(c) ==
    {"", "all", "return_matrix", "asset_metrics", "weights", "risk_contributions", "hrp_clusters",
     "hrp_linkage", "diversification_metrics", "portfolio_returns", "drawdowns",
     "portfolio_metrics", "tail_risk", "rebalance_events", "rebalance_weights",
     "frontier_points", "frontier_weights", "backtests", "backtest_weights",
     "equal_weight", "hierarchical_risk_parity", "maximum_diversification"}
        \union {c.prefix, c.schedule} \union {c.objectives[k] : k \in DOMAIN c.objectives}
Tables(N) == N \X N \X N
Portfolios(N) == N \X N
WritesOver(N) == [file : Tables(N), portfolio : Portfolios(N), anew : BOOLEAN]
Writes(c) == WritesOver(Names(c))

LEMMA WritesType ==
    ASSUME NEW c \in Configs
    PROVE  /\ MatrixWrites \in Seq(Writes(c)) /\ Len(MatrixWrites) = 2
           /\ ClosingWrites \in Seq(Writes(c))
           /\ PortfolioWrites(c) \in Seq(Writes(c))
<1> DEFINE N == Names(c)
           W == WritesOver(N)
<1>0. {"", "all", "return_matrix", "asset_metrics", "weights", "risk_contributions", "hrp_clusters",
       "hrp_linkage", "diversification_metrics", "portfolio_returns", "drawdowns",
       "portfolio_metrics", "tail_risk", "rebalance_events", "rebalance_weights",
       "frontier_points", "frontier_weights", "backtests", "backtest_weights",
       "equal_weight", "hierarchical_risk_parity", "maximum_diversification"} \subseteq N
  BY DEF Names
<1>1. c.prefix \in N /\ c.schedule \in N /\ c.objectives \in Seq(N)
  <2>1. c.objectives \in Seq(STRING)
    BY LakeAssumption
  <2>2. PICK s \in Seq(STRING) : s = c.objectives
    BY <2>1
  <2>3. \A k \in 1..Len(s) : s[k] \in N
    <3>1. DOMAIN s = 1..Len(s)
      OBVIOUS
    <3> QED BY <2>2, <3>1 DEF Names
  <2>4. s \in Seq(N)
    <3>1. Len(s) \in Nat /\ s = [k \in 1..Len(s) |-> s[k]]
      OBVIOUS
    <3> HIDE DEF N
    <3> QED BY <2>3, <3>1
  <2>5. c.prefix \in N /\ c.schedule \in N
    BY DEF Names
  <2> QED BY <2>2, <2>4, <2>5
<1> HIDE DEF N
<1>2. \A name \in N : Table(name) \in Tables(N)
  BY <1>0 DEF Table, Tables
<1>3. \A name, q \in N : TableOf(name, q) \in Tables(N)
  BY <1>0 DEF TableOf, Tables
<1>4. EveryPortfolio \in Portfolios(N)
  BY <1>0 DEF EveryPortfolio, Portfolios
<1>5. \A file \in Tables(N), id \in Portfolios(N) :
          Keep(file, id) \in W /\ Anew(file, id) \in W
  BY DEF Keep, Anew, WritesOver
<1>6. MatrixWrites \in Seq(W) /\ Len(MatrixWrites) = 2
  <2>1. PICK v, w \in W : MatrixWrites = <<v, w>>
    BY <1>0, <1>2, <1>4, <1>5 DEF MatrixWrites
  <2> QED BY <2>1
<1>7. ClosingWrites \in Seq(W)
  <2>1. PICK u, v, w, x \in W : FrontierWrites = <<u, v>> /\ BacktestWrites = <<w, x>>
    BY <1>0, <1>2, <1>4, <1>5 DEF FrontierWrites, BacktestWrites
  <2> QED BY <2>1 DEF ClosingWrites
<1>8. ObjectivesOf(c) \in Seq(N)
  <2>1. PICK s \in Seq(N) : s = c.objectives
    BY <1>1
  <2>2. PICK kept : kept = [k \in DOMAIN s |-> IF s[k] = "equal_weight" THEN <<>> ELSE <<s[k]>>]
    OBVIOUS
  <2>3. kept \in Seq(Seq(N))
    <3>1. DOMAIN s = 1..Len(s) /\ Len(s) \in Nat
      OBVIOUS
    <3>2. \A k \in 1..Len(s) : (IF s[k] = "equal_weight" THEN <<>> ELSE <<s[k]>>) \in Seq(N)
      <4> TAKE k \in 1..Len(s)
      <4>1. s[k] \in N
        OBVIOUS
      <4> QED BY <4>1
    <3> QED BY <2>2, <3>1, <3>2
  <2>4. PICK middle \in Seq(N) : middle = FlattenSeq(kept)
    BY <2>3, FlattenType
  <2>5. ObjectivesOf(c) = <<"equal_weight">> \o middle
                            \o <<"hierarchical_risk_parity", "maximum_diversification">>
    BY <2>1, <2>2, <2>4 DEF ObjectivesOf
  <2>6. "equal_weight" \in N /\ "hierarchical_risk_parity" \in N /\ "maximum_diversification" \in N
    BY <1>0
  <2>a. \A x, y \in N : <<x>> \in Seq(N) /\ <<x, y>> \in Seq(N)
    OBVIOUS
  <2>b. PICK first \in Seq(N) : first = <<"equal_weight">>
    BY <2>6, <2>a
  <2>7. PICK last \in Seq(N) : last = <<"hierarchical_risk_parity", "maximum_diversification">>
    BY <2>6, <2>a
  <2>8. first \o middle \in Seq(N)
    OBVIOUS
  <2>9. (first \o middle) \o last \in Seq(N)
    BY <2>8
  <2> QED BY <2>5, <2>b, <2>7, <2>9
<1>9. ASSUME NEW o \in N
      PROVE  WeightWrites(o, PortfolioId(c, o)) \o BundleWrites(c, PortfolioId(c, o)) \in Seq(W)
  <2>1. PICK id \in Portfolios(N) : id = PortfolioId(c, o)
    BY <1>1 DEF PortfolioId, Portfolios
  <2>2. id[1] \in N /\ id[2] \in N
    BY DEF Portfolios
  <2>3. \A file \in Tables(N) : Keep(file, id) \in W /\ Anew(file, id) \in W
    BY <1>5
  <2>4. WeightWrites(o, id) \in Seq(W)
    <3>1. PICK w \in W : w = Keep(TableOf("weights", o), id)
      BY <1>0, <1>3, <2>3
    <3>2. PICK rc \in W : rc = Keep(TableOf("risk_contributions", o), id)
      BY <1>0, <1>3, <2>3
    <3>3. PICK cl, li, dm \in W : /\ cl = Keep(Table("hrp_clusters"), id)
                                       /\ li = Keep(Table("hrp_linkage"), id)
                                       /\ dm = Keep(Table("diversification_metrics"), id)
      BY <1>0, <1>2, <2>3
    <3>4. OptimizedWrites(o, id) \in Seq(W)
      <4>1. <<w>> \o <<rc>> \in Seq(W) /\ <<w>> \o <<>> \in Seq(W)
        OBVIOUS
      <4> QED BY <3>1, <3>2, <4>1 DEF OptimizedWrites
    <3>5. HierarchicalWrites(o, id) \in Seq(W)
      BY <3>1, <3>3 DEF HierarchicalWrites
    <3>6. DiversificationWrites(o, id) \in Seq(W)
      BY <3>1, <3>3 DEF DiversificationWrites
    <3>7. <<>> \in Seq(W)
      OBVIOUS
    <3> QED BY <3>4, <3>5, <3>6, <3>7 DEF WeightWrites
  <2>5. BundleWrites(c, id) \in Seq(W)
    <3>1. DrawdownsOf(id) \in Tables(N)
      BY <1>0, <2>2 DEF DrawdownsOf, Tables
    <3>2. PICK u, v, w \in W : EvaluationWrites(id) = <<u, v, w>>
      BY <1>0, <1>2, <2>3, <3>1 DEF EvaluationWrites
    <3>3. PICK t \in W : TailRiskWrites(id) = <<t>>
      BY <1>0, <1>2, <2>3 DEF TailRiskWrites
    <3>4. PICK x, y \in W : RebalanceWrites(c.schedule, id) = <<x, y>>
      BY <1>0, <1>1, <1>3, <2>3 DEF RebalanceWrites
    <3> QED BY <3>2, <3>3, <3>4 DEF BundleWrites
  <2> QED BY <2>1, <2>4, <2>5
<1>10. PortfolioWrites(c) \in Seq(W)
  <2>1. PICK os \in Seq(N) : os = ObjectivesOf(c)
    BY <1>8
  <2>2. PICK parts : parts = [k \in DOMAIN os |-> WeightWrites(os[k], PortfolioId(c, os[k]))
                                                     \o BundleWrites(c, PortfolioId(c, os[k]))]
    OBVIOUS
  <2>3. \A k \in DOMAIN os : parts[k] \in Seq(W)
    <3>1. \A k \in DOMAIN os : os[k] \in N
      OBVIOUS
    <3> QED BY <1>9, <2>2, <3>1
  <2>4. parts \in Seq(Seq(W))
    <3>1. DOMAIN os = 1..Len(os) /\ Len(os) \in Nat
      OBVIOUS
    <3>2. parts = [k \in 1..Len(os) |-> parts[k]]
      BY <2>2, <3>1
    <3> QED BY <2>3, <3>1, <3>2
  <2>5. PortfolioWrites(c) = FlattenSeq(parts)
    BY <2>1, <2>2 DEF PortfolioWrites
  <2> QED BY <2>4, <2>5, FlattenType
<1> QED BY <1>6, <1>7, <1>10 DEF Writes, N

LEMMA AllWritesType ==
    ASSUME NEW c \in Configs, NEW p
    PROVE  /\ WritesOf(c, p) \in Seq(Writes(c))
           /\ WritesOf(c, p)[1] = MatrixWrites[1] /\ WritesOf(c, p)[2] = MatrixWrites[2]
           /\ Len(WritesOf(c, p)) >= 2
<1>1. PICK m \in Seq(Writes(c)) : m = MatrixWrites /\ Len(m) = 2
  BY WritesType
<1>2. PICK rest \in Seq(Writes(c)) : rest = IF p \in Unaligned THEN <<>> ELSE PortfolioWrites(c) \o ClosingWrites
  <2>1. PortfolioWrites(c) \o ClosingWrites \in Seq(Writes(c)) /\ <<>> \in Seq(Writes(c))
    BY WritesType
  <2> QED BY <2>1
<1>3. WritesOf(c, p) = m \o rest
  BY <1>1, <1>2 DEF WritesOf
<1>4. ASSUME NEW W, NEW u \in Seq(W), NEW v \in Seq(W)
      PROVE  /\ u \o v \in Seq(W) /\ Len(u \o v) = Len(u) + Len(v) /\ Len(v) \in Nat
             /\ \A i \in 1..Len(u) : (u \o v)[i] = u[i]
  OBVIOUS
<1>5. 1 \in 1..Len(m) /\ 2 \in 1..Len(m)
  BY <1>1
<1>6. (m \o rest)[1] = m[1] /\ (m \o rest)[2] = m[2] /\ m \o rest \in Seq(Writes(c))
  BY <1>4, <1>5
<1>7. Len(m \o rest) = Len(m) + Len(rest) /\ Len(rest) \in Nat
  BY <1>4
<1>8. Len(m \o rest) >= 2
  BY <1>1, <1>7
<1> QED BY <1>1, <1>3, <1>6, <1>8

\* Of the rows on disk that share table and portfolio with one of these there are only these.
Agree(rows, disk) ==
    /\ rows \subseteq disk
    /\ \A row \in disk :
          (\E own \in rows : own.file = row.file /\ own.portfolio = row.portfolio) => row \in rows

\* One more write does to both what is left of the first ones and what is on disk.
LEMMA RowsStep ==
    ASSUME NEW c \in Configs, NEW p, NEW v, NEW k \in 0..Len(WritesOf(c, p)), k < Len(WritesOf(c, p))
    PROVE  RowsAfter(k + 1, c, p, v) =
             Written(RowsAfter(k, c, p, v), WritesOf(c, p)[k + 1], LakeRow(WritesOf(c, p)[k + 1], c, p, v))
<1> DEFINE ws == WritesOf(c, p)
           row(i) == LakeRow(ws[i], c, p, v)
           left(n) == {i \in 1..n : \A l \in (i + 1)..n : ~Replaces(ws[l], ws[i])}
<1>1. Len(ws) \in Nat
  <2>1. ws \in Seq(Writes(c))
    BY AllWritesType
  <2> QED BY <2>1
<1>2. k \in Nat /\ k + 1 \in 1..(k + 1) /\ k + 1 \in Nat
  BY <1>1
<1>3. \A n : RowsAfter(n, c, p, v) = {row(i) : i \in left(n)}
  BY DEF RowsAfter
<1>4. \A i : row(i).file = ws[i].file /\ row(i).portfolio = ws[i].portfolio
  BY DEF LakeRow
<1>5. \A i : i \in left(k + 1) <=> \/ i = k + 1
                                   \/ i \in left(k) /\ ~Replaces(ws[k + 1], ws[i])
  <2> TAKE i
  <2>1. ASSUME i = k + 1 PROVE i \in left(k + 1)
    BY <1>2, <2>1
  <2>2. ASSUME i \in left(k), ~Replaces(ws[k + 1], ws[i]) PROVE i \in left(k + 1)
    <3>1. i \in 1..(k + 1)
      BY <1>2, <2>2
    <3>2. \A l \in (i + 1)..(k + 1) : l \in (i + 1)..k \/ l = k + 1
      BY <1>2, <3>1
    <3> QED BY <2>2, <3>1, <3>2
  <2>3. ASSUME i \in left(k + 1), i # k + 1
        PROVE  i \in left(k) /\ ~Replaces(ws[k + 1], ws[i])
    <3>1. i \in 1..k /\ k + 1 \in (i + 1)..(k + 1) /\ (i + 1)..k \subseteq (i + 1)..(k + 1)
      BY <1>2, <2>3
    <3> QED BY <2>3, <3>1
  <2> QED BY <2>1, <2>2, <2>3
<1>6. ASSUME NEW i
      PROVE  ~Replaces(ws[k + 1], ws[i]) <=>
               row(i).file # ws[k + 1].file \/
               (~ws[k + 1].anew /\ row(i).portfolio # ws[k + 1].portfolio)
  BY <1>4 DEF Replaces
<1> HIDE DEF ws, row, left
<1>7. {row(i) : i \in left(k + 1)} =
        {r \in {row(i) : i \in left(k)} : r.file # ws[k + 1].file \/
            (~ws[k + 1].anew /\ r.portfolio # ws[k + 1].portfolio)} \cup {row(k + 1)}
  BY <1>5, <1>6
<1> QED BY <1>3, <1>7 DEF Written, ws, row

LEMMA AgreeStep ==
    ASSUME NEW rows, NEW disk, NEW write, NEW row,
           row.file = write.file, row.portfolio = write.portfolio, Agree(rows, disk)
    PROVE  Agree(Written(rows, write, row), Written(disk, write, row))
  BY DEF Agree, Written

-----------------------------------------------------------------------------
RunFields == {"step", "config", "revision", "todo", "after"}

\* What is still to be written after the first of these writes.
Remaining(todo, writes, k, n) ==
    /\ k \in 0..n /\ Len(todo) = n - k
    /\ \A i \in 1..(n - k) : todo[i] = writes[k + i]

\* A run has made its first k writes: they agree with the disk, and none of
\* their files is gone.
Wrote(run, k) ==
    LET writes == WritesOf(run.config, run.revision)
    IN  /\ run.todo \in Seq(Writes(run.config))
        /\ run.after = "period" => Remaining(run.todo, writes, k, 2)
        /\ run.after = "finish" =>
              k >= 2 /\ Remaining(run.todo, writes, k, Len(writes)) /\ run.revision \notin Incomplete \ Unaligned
        /\ Agree(RowsAfter(k, run.config, run.revision, covariances), files)
        /\ \A i \in 1..k : Exists(writes[i].file)

\* The quotes and the covariances stay as the run found them.
RunOK ==
    \/ portfolioRun = NoRun
    \/ /\ HasFields(portfolioRun, RunFields)
       /\ portfolioRun.step = "write" /\ portfolioRun.config \in Configs
       /\ portfolioRun.after \in {"period", "finish"}
       /\ portfolioRun.config.cached => covariances = portfolioRun.revision
       /\ report = NoReport
       /\ \E k \in Nat : Wrote(portfolioRun, k)

\* A manifest names the matrix, which a run writes first.
ManifestsOK ==
    \A entry \in manifests : {Table("return_matrix"), Table("asset_metrics")} \subseteq entry.paths

LakeInv == RunOK /\ ManifestsOK /\ PortfolioFilesBelongTogether

LEMMA Matrix ==
    ASSUME NEW c \in Configs, NEW p
    PROVE  /\ WritesOf(c, p)[1].file = Table("return_matrix")
           /\ WritesOf(c, p)[2].file = Table("asset_metrics")
<1>1. MatrixWrites[1].file = Table("return_matrix") /\ MatrixWrites[2].file = Table("asset_metrics")
  BY DEF MatrixWrites, Anew
<1> QED BY <1>1, AllWritesType

LEMMA LakeStarts ==
    ASSUME LakeInv, NEW c \in Configs, StartRun(c)
    PROVE  LakeInv'
<1>1. files' = files /\ manifests' = manifests /\ portfolioRun = NoRun
  BY DEF StartRun
<1>2. ManifestsOK'
  BY <1>1 DEF LakeInv, ManifestsOK
<1>3. CASE c.cached /\ Reusable(c)
  <2>1. report' = [kind |-> "reused", config |-> c] /\ portfolioRun' = NoRun
    BY <1>1, <1>3 DEF StartRun
  <2>2. PICK entry \in manifests : entry.run = c /\ \A file \in entry.paths : Exists(file)
    BY <1>3 DEF Reusable
  <2>3. entry \in manifests' /\ \A file \in entry.paths : Exists(file)'
    BY <1>1, <2>2 DEF Exists
  <2>4. {Table("return_matrix"), Table("asset_metrics")} \subseteq entry.paths
    BY DEF LakeInv, ManifestsOK
  <2>5. report'.kind = "reused" /\ report'.config = c
    BY <2>1
  <2>6. PortfolioFilesBelongTogether'
    BY <2>2, <2>3, <2>4, <2>5 DEF PortfolioFilesBelongTogether
  <2> QED BY <1>2, <2>1, <2>6 DEF LakeInv, RunOK
<1>4. CASE ~(c.cached /\ Reusable(c))
  <2>1. PICK run : run = [step |-> "write", config |-> c, revision |-> quotes,
                          todo |-> MatrixWrites, after |-> "period"]
    OBVIOUS
  <2>2. report' = NoReport /\ portfolioRun' = run /\ (c.cached => covariances' = quotes)
    BY <1>4, <2>1 DEF StartRun
  <2>3. HasFields(run, RunFields)
    BY <2>1 DEF HasFields, RunFields
  <2>4. /\ run.step = "write" /\ run.config = c /\ run.revision = quotes
        /\ run.todo = MatrixWrites /\ run.after = "period"
    BY <2>1
  <2>5. Remaining(MatrixWrites, WritesOf(c, quotes), 0, 2)
    <3>1. Len(MatrixWrites) = 2 /\ MatrixWrites[1] = WritesOf(c, quotes)[1]
                                /\ MatrixWrites[2] = WritesOf(c, quotes)[2]
      BY WritesType, AllWritesType
    <3>2. \A i \in 1..2 : i = 1 \/ i = 2
      OBVIOUS
    <3> QED BY <3>1, <3>2 DEF Remaining
  <2>6. Agree(RowsAfter(0, c, quotes, covariances'), files')
    <3>1. RowsAfter(0, c, quotes, covariances') = {}
      BY DEF RowsAfter
    <3> QED BY <3>1 DEF Agree
  <2>7. Wrote(run, 0)'
    <3>1. /\ MatrixWrites \in Seq(Writes(c))
          /\ "period" # "finish"
          /\ \A i \in 1..0 : FALSE
      BY WritesType
    <3> QED BY <2>2, <2>4, <2>5, <2>6, <3>1 DEF Wrote
  <2>8. RunOK'
    BY <2>2, <2>3, <2>4, <2>7 DEF RunOK
  <2>9. report'.kind = "none"
    BY <2>2 DEF NoReport
  <2>10. PortfolioFilesBelongTogether'
    BY <2>9 DEF PortfolioFilesBelongTogether
  <2> QED BY <1>2, <2>8, <2>10 DEF LakeInv
<1> QED BY <1>3, <1>4

LEMMA LakeWrites == ASSUME LakeInv, WriteFile PROVE LakeInv'
<1>1. PICK run : run = portfolioRun
  OBVIOUS
<1>2. /\ run # NoRun /\ HasFields(run, RunFields) /\ run.step = "write" /\ run.config \in Configs
      /\ run.after \in {"period", "finish"}
      /\ run.config.cached => covariances = run.revision
      /\ report = NoReport
  BY <1>1 DEF WriteFile, LakeInv, RunOK, NoRun
<1>3. PICK k \in Nat : Wrote(run, k)
  BY <1>1, <1>2 DEF LakeInv, RunOK
<1>4. PICK c, p, todo : c = run.config /\ p = run.revision /\ todo = run.todo
  OBVIOUS
<1>5. PICK writes : writes = WritesOf(c, p)
  OBVIOUS
<1>6. writes \in Seq(Writes(c)) /\ Len(writes) \in Nat /\ Len(writes) >= 2 /\ todo \in Seq(Writes(c))
  BY <1>2, <1>3, <1>4, <1>5, AllWritesType DEF Wrote
<1>7. PICK n \in Nat : /\ Remaining(todo, writes, k, n) /\ n <= Len(writes)
                       /\ run.after = "period" => n = 2
                       /\ run.after = "finish" => n = Len(writes)
  BY <1>2, <1>3, <1>4, <1>5, <1>6 DEF Wrote
<1>8. todo # <<>>
  BY <1>1, <1>4 DEF WriteFile
<1>9. k < n /\ Head(todo) = writes[k + 1]
  <2>1. Len(todo) # 0 /\ Len(todo) = n - k /\ k \in 0..n /\ Head(todo) = todo[1]
    BY <1>6, <1>7, <1>8 DEF Remaining
  <2>2. 1 \in 1..(n - k)
    BY <2>1
  <2> QED BY <1>7, <2>1, <2>2 DEF Remaining
<1>10. Remaining(Tail(todo), writes, k + 1, n) /\ Tail(todo) \in Seq(Writes(c))
  <2>1. Len(Tail(todo)) = n - (k + 1) /\ Tail(todo) \in Seq(Writes(c))
    BY <1>6, <1>7, <1>8 DEF Remaining
  <2>2. ASSUME NEW i \in 1..(n - (k + 1)) PROVE Tail(todo)[i] = writes[(k + 1) + i]
    <3>1. Tail(todo)[i] = todo[i + 1]
      BY <1>6, <1>8, <2>1
    <3>2. i + 1 \in 1..(n - k) /\ k + (i + 1) = (k + 1) + i
      OBVIOUS
    <3>3. todo[i + 1] = writes[k + (i + 1)]
      BY <1>7, <3>2 DEF Remaining
    <3> QED BY <3>1, <3>2, <3>3
  <2> QED BY <1>9, <2>1, <2>2 DEF Remaining
<1>11. PICK write : write = writes[k + 1]
  OBVIOUS
<1>12. PICK row : row = LakeRow(write, c, p, covariances)
  OBVIOUS
<1>13. files' = Written(files, write, row) /\ covariances' = covariances
  BY <1>1, <1>4, <1>9, <1>11, <1>12 DEF WriteFile
<1>14. Agree(RowsAfter(k + 1, c, p, covariances), files')
  <2>1. Agree(RowsAfter(k, c, p, covariances), files)
    BY <1>3, <1>4 DEF Wrote
  <2>2. row.file = write.file /\ row.portfolio = write.portfolio
    BY <1>12 DEF LakeRow
  <2>3. RowsAfter(k + 1, c, p, covariances) = Written(RowsAfter(k, c, p, covariances), write, row)
    BY <1>2, <1>4, <1>5, <1>6, <1>7, <1>9, <1>11, <1>12, RowsStep
  <2> QED BY <1>13, <2>1, <2>2, <2>3, AgreeStep
<1>15. \A i \in 1..(k + 1) : Exists(writes[i].file)'
  <2>1. row.file = write.file
    BY <1>12 DEF LakeRow
  <2>2. \A file : Exists(file) \/ file = write.file => Exists(file)'
    BY <1>13, <2>1 DEF Exists, Written
  <2>3. \A i \in 1..k : Exists(writes[i].file)
    BY <1>3, <1>4, <1>5 DEF Wrote
  <2>4. \A i \in 1..(k + 1) : i \in 1..k \/ i = k + 1
    OBVIOUS
  <2> QED BY <1>11, <2>2, <2>3, <2>4
<1>16. PICK next : next = [run EXCEPT !.todo = Tail(@)]
  OBVIOUS
<1>17. /\ portfolioRun' = next /\ HasFields(next, RunFields) /\ next.step = run.step
       /\ next.config = c /\ next.revision = p /\ next.todo = Tail(todo) /\ next.after = run.after
  <2>1. DOMAIN run = RunFields
    BY <1>2 DEF HasFields
  <2> QED BY <1>1, <1>4, <1>16, <2>1 DEF WriteFile, HasFields, RunFields
<1>18. Wrote(next, k + 1)'
  <2>1. run.after = "finish" => k >= 2 /\ p \notin Incomplete \ Unaligned
    BY <1>3, <1>4 DEF Wrote
  <2> QED BY <1>5, <1>7, <1>10, <1>13, <1>14, <1>15, <1>17, <2>1 DEF Wrote
<1>19. RunOK'
  <2>1. report' = report /\ k + 1 \in Nat
    BY DEF WriteFile
  <2> QED BY <1>2, <1>4, <1>13, <1>17, <1>18, <2>1 DEF RunOK
<1>20. ManifestsOK'
  BY DEF WriteFile, LakeInv, ManifestsOK
<1>21. report'.kind = "none"
  BY <1>2 DEF WriteFile, NoReport
<1>22. PortfolioFilesBelongTogether'
  BY <1>21 DEF PortfolioFilesBelongTogether
<1> QED BY <1>19, <1>20, <1>22 DEF LakeInv

LEMMA LakeChecks == ASSUME LakeInv, CheckPeriod PROVE LakeInv'
<1>1. PICK run : run = portfolioRun
  OBVIOUS
<1>2. /\ run # NoRun /\ HasFields(run, RunFields) /\ run.step = "write" /\ run.config \in Configs
      /\ run.after = "period" /\ run.todo = <<>>
      /\ run.config.cached => covariances = run.revision
      /\ report = NoReport
  BY <1>1 DEF CheckPeriod, LakeInv, RunOK, NoRun
<1>3. UNCHANGED <<quotes, covariances, files, manifests, report>>
  BY DEF CheckPeriod, Refuse
<1>4. ManifestsOK'
  BY <1>3 DEF LakeInv, ManifestsOK
<1>5. report'.kind = "none"
  BY <1>2, <1>3 DEF NoReport
<1>6. PortfolioFilesBelongTogether'
  BY <1>5 DEF PortfolioFilesBelongTogether
<1>7. CASE run.revision \in Incomplete \ Unaligned
  <2>1. RunOK'
    BY <1>1, <1>7 DEF CheckPeriod, Refuse, RunOK
  <2> QED BY <1>4, <1>6, <2>1 DEF LakeInv
<1>8. CASE run.revision \notin Incomplete \ Unaligned
  <2>1. PICK k \in Nat : Wrote(run, k)
    BY <1>1, <1>2 DEF LakeInv, RunOK
  <2>2. PICK c, p : c = run.config /\ p = run.revision
    OBVIOUS
  <2>3. PICK writes : writes = WritesOf(c, p)
    OBVIOUS
  <2>4. PICK rest : rest = IF p \in Unaligned THEN <<>> ELSE PortfolioWrites(c) \o ClosingWrites
    OBVIOUS
  <2>5. rest \in Seq(Writes(c)) /\ Remaining(rest, writes, 2, Len(writes)) /\ Len(writes) >= 2
    <3>1. PICK m \in Seq(Writes(c)) : m = MatrixWrites /\ Len(m) = 2
      BY <1>2, <2>2, WritesType
    <3>2. rest \in Seq(Writes(c))
      <4>1. PortfolioWrites(c) \o ClosingWrites \in Seq(Writes(c)) /\ <<>> \in Seq(Writes(c))
        BY <1>2, <2>2, WritesType
      <4> QED BY <2>4, <4>1
    <3>3. writes = m \o rest
      BY <2>3, <2>4, <3>1 DEF WritesOf
    <3>4. ASSUME NEW W, NEW u \in Seq(W), NEW v \in Seq(W)
          PROVE  /\ Len(u \o v) = Len(u) + Len(v) /\ Len(v) \in Nat
                 /\ \A i \in 1..Len(v) : (u \o v)[Len(u) + i] = v[i]
      OBVIOUS
    <3>5. /\ Len(writes) = Len(m) + Len(rest) /\ Len(rest) \in Nat
          /\ \A i \in 1..Len(rest) : writes[Len(m) + i] = rest[i]
      BY <3>2, <3>3, <3>4
    <3>6. Len(writes) = 2 + Len(rest) /\ \A i \in 1..Len(rest) : writes[2 + i] = rest[i]
      BY <3>1, <3>5
    <3> QED BY <3>2, <3>5, <3>6 DEF Remaining
  <2>6. k = 2
    <3>1. Remaining(run.todo, writes, k, 2)
      BY <1>2, <2>1, <2>2, <2>3 DEF Wrote
    <3> QED BY <1>2, <3>1 DEF Remaining
  <2>7. PICK next : next = [run EXCEPT !.after = "finish", !.todo = rest]
    OBVIOUS
  <2>8. /\ portfolioRun' = next /\ HasFields(next, RunFields) /\ next.step = run.step
        /\ next.config = c /\ next.revision = p /\ next.todo = rest /\ next.after = "finish"
    <3>1. DOMAIN run = RunFields
      BY <1>2 DEF HasFields
    <3>2. portfolioRun' = next
      BY <1>1, <1>8, <2>2, <2>4, <2>7 DEF CheckPeriod
    <3>3. PICK mid : mid = [run EXCEPT !.after = "finish"]
      OBVIOUS
    <3>4. /\ DOMAIN mid = RunFields /\ mid.step = run.step /\ mid.config = run.config
          /\ mid.revision = run.revision /\ mid.after = "finish"
      BY <3>1, <3>3 DEF RunFields
    <3>5. next = [mid EXCEPT !.todo = rest]
      BY <2>7, <3>3
    <3> QED BY <2>2, <3>2, <3>4, <3>5 DEF HasFields, RunFields
  <2>9. Wrote(next, 2)'
    <3>1. /\ Agree(RowsAfter(2, c, p, covariances), files)
          /\ \A i \in 1..2 : Exists(writes[i].file)
      BY <2>1, <2>2, <2>3, <2>6 DEF Wrote
    <3>2. "period" # "finish"
      OBVIOUS
    <3> QED BY <1>3, <1>8, <2>2, <2>3, <2>5, <2>8, <3>1, <3>2 DEF Wrote, Exists
  <2>10. RunOK'
    BY <1>2, <1>3, <2>2, <2>8, <2>9 DEF RunOK
  <2> QED BY <1>4, <1>6, <2>10 DEF LakeInv
<1> QED BY <1>7, <1>8

LEMMA LakeFinishes == ASSUME LakeInv, Finish PROVE LakeInv'
<1>1. PICK run : run = portfolioRun
  OBVIOUS
<1>2. /\ run # NoRun /\ run.config \in Configs /\ run.after = "finish" /\ run.todo = <<>>
      /\ run.config.cached => covariances = run.revision
  BY <1>1 DEF Finish, LakeInv, RunOK, NoRun
<1>3. PICK k \in Nat : Wrote(run, k)
  BY <1>1, <1>2 DEF LakeInv, RunOK
<1>4. PICK c, p : c = run.config /\ p = run.revision
  OBVIOUS
<1>5. PICK writes : writes = WritesOf(c, p)
  OBVIOUS
<1>6. writes \in Seq(Writes(c)) /\ Len(writes) \in Nat /\ Len(writes) >= 2
  BY <1>2, <1>4, <1>5, AllWritesType
<1>7. k = Len(writes) /\ p \notin Incomplete \ Unaligned
  <2>1. Remaining(run.todo, writes, k, Len(writes))
    BY <1>2, <1>3, <1>4, <1>5 DEF Wrote
  <2>2. p \notin Incomplete \ Unaligned
    BY <1>2, <1>3, <1>4 DEF Wrote
  <2> QED BY <1>2, <1>6, <2>1, <2>2 DEF Remaining
<1>8. UNCHANGED <<files, covariances>> /\ portfolioRun' = NoRun
      /\ report' = [kind |-> "computed", config |-> c, revision |-> p]
  BY <1>1, <1>4 DEF Finish
<1>9. {Table("return_matrix"), Table("asset_metrics")} \subseteq Recorded(c)
  <2>1. Exists(Table("return_matrix")) /\ Exists(Table("asset_metrics"))
    <3>1. 1 \in 1..k /\ 2 \in 1..k
      BY <1>6, <1>7
    <3>2. Exists(writes[1].file) /\ Exists(writes[2].file)
      BY <1>3, <1>4, <1>5, <3>1 DEF Wrote
    <3> QED BY <1>2, <1>4, <1>5, <3>2, Matrix
  <2>2. PICK all : all = MatrixWrites \o PortfolioWrites(c) \o ClosingWrites
    OBVIOUS
  <2>3. {Table("return_matrix"), Table("asset_metrics")} \subseteq {w.file : w \in Range(all)}
    <3>1. PICK m, a, z \in Seq(Writes(c)) : m = MatrixWrites /\ Len(m) = 2 /\ a = PortfolioWrites(c)
                                            /\ z = ClosingWrites
      BY <1>2, <1>4, WritesType
    <3>2. ASSUME NEW W, NEW u \in Seq(W), NEW v \in Seq(W)
          PROVE  /\ u \o v \in Seq(W) /\ Len(u \o v) >= Len(u) /\ 1..Len(u) \subseteq DOMAIN (u \o v)
                 /\ \A i \in 1..Len(u) : (u \o v)[i] = u[i]
      OBVIOUS
    <3>3. 1 \in 1..Len(m) /\ 2 \in 1..Len(m)
      BY <3>1
    <3>4. PICK ma : ma = m \o a
      OBVIOUS
    <3>5. /\ ma \in Seq(Writes(c)) /\ ma[1] = m[1] /\ ma[2] = m[2]
          /\ Len(ma) >= Len(m)
      BY <3>2, <3>3, <3>4
    <3>6. 1 \in 1..Len(ma) /\ 2 \in 1..Len(ma)
      <4>1. Len(ma) \in Nat
        BY <3>5
      <4> QED BY <3>1, <3>5, <4>1
    <3>7. all = ma \o z
      BY <2>2, <3>1, <3>4
    <3>8. 1 \in DOMAIN all /\ 2 \in DOMAIN all /\ all[1] = m[1] /\ all[2] = m[2]
      BY <3>2, <3>5, <3>6, <3>7
    <3>9. m[1].file = Table("return_matrix") /\ m[2].file = Table("asset_metrics")
      BY <3>1 DEF MatrixWrites, Anew
    <3> QED BY <3>8, <3>9 DEF Range
  <2>4. \A name \in {"return_matrix", "asset_metrics"} :
           /\ \A id : Table(name) # DrawdownsOf(id)
           /\ \A o : Table(name) # TableOf("risk_contributions", o)
    BY DEF Table, TableOf, DrawdownsOf
  <2> QED BY <2>1, <2>2, <2>3, <2>4 DEF Recorded, Exists
<1>10. ManifestsOK'
  <2>1. \A entry \in manifests' : entry \in manifests \/ entry.paths = Recorded(c)
    BY <1>1, <1>4 DEF Finish
  <2> QED BY <1>9, <2>1 DEF LakeInv, ManifestsOK
<1>11. c.cached => \E entry \in manifests' : entry.run = c /\ \A file \in entry.paths : Exists(file)'
  <2> SUFFICES ASSUME c.cached PROVE \E entry \in manifests' : entry.run = c /\ \A file \in entry.paths : Exists(file)'
    OBVIOUS
  <2>1. PICK entry : entry = [run |-> c, paths |-> Recorded(c)]
    OBVIOUS
  <2>2. entry \in manifests' /\ entry.run = c /\ entry.paths = Recorded(c)
    BY <1>1, <1>4, <2>1 DEF Finish
  <2>3. \A file \in Recorded(c) : Exists(file)'
    BY <1>8 DEF Recorded, Exists
  <2> QED BY <2>2, <2>3
<1>12. Agree(RowsOf(c, p, covariances), files)
  BY <1>3, <1>4, <1>5, <1>7 DEF Wrote, RowsOf
<1>13. PortfolioFilesBelongTogether'
  <2>1. report'.kind = "computed" /\ report'.config = c /\ report'.revision = p
    BY <1>8
  <2>2. (IF c.cached THEN p ELSE covariances') = covariances
    BY <1>2, <1>4, <1>8
  <2>3. Agree(RowsOf(c, p, IF c.cached THEN p ELSE covariances'), files')
    BY <1>8, <1>12, <2>2
  <2>4. "computed" # "reused"
    OBVIOUS
  <2> QED BY <1>7, <1>11, <2>1, <2>3, <2>4 DEF PortfolioFilesBelongTogether, Agree
<1>14. RunOK'
  BY <1>8 DEF RunOK
<1> QED BY <1>10, <1>13, <1>14 DEF LakeInv

LEMMA LakeStops ==
    ASSUME LakeInv, CovariancesMissing \/ Die \/ NewQuotes \/ RemoveFile
    PROVE  LakeInv'
<1>1. portfolioRun' = NoRun /\ manifests' = manifests
  BY DEF CovariancesMissing, Refuse, Die, NewQuotes, RemoveFile
<1>2. portfolioRun # NoRun => report = NoReport
  BY DEF LakeInv, RunOK
<1>3. report' = NoReport
  BY <1>2 DEF CovariancesMissing, Refuse, Die, NewQuotes, RemoveFile, NoRun
<1>4. report'.kind = "none"
  BY <1>3 DEF NoReport
<1> QED BY <1>1, <1>4 DEF LakeInv, RunOK, ManifestsOK, PortfolioFilesBelongTogether

\* Whatever other runs left or began, with whatever configurations, quotes and removals
\* between them: the files of a run that computed hold for its portfolios what it computed
\* and nothing else, and a reused run has all its manifest names, the matrix among them.
THEOREM RunsFilesBelongTogether == LakeSpec => []PortfolioFilesBelongTogether
<1>1. LakeInit => LakeInv
  BY DEF LakeInit, LakeInv, RunOK, ManifestsOK, PortfolioFilesBelongTogether, NoReport
<1>2. LakeInv /\ [LakeNext]_lakeVars => LakeInv'
  <2> SUFFICES ASSUME LakeInv, [LakeNext]_lakeVars PROVE LakeInv'
    OBVIOUS
  <2>1. CASE UNCHANGED lakeVars
    <3>1. \A c, p, v, n : RowsAfter(n, c, p, v)' = RowsAfter(n, c, p, v)
      OBVIOUS
    <3> QED BY <2>1 DEF lakeVars, LakeInv, RunOK, Wrote, Exists, ManifestsOK, PortfolioFilesBelongTogether
  <2>2. CASE LakeNext
    BY <2>2, LakeStarts, LakeWrites, LakeChecks, LakeFinishes, LakeStops DEF LakeNext
  <2> QED BY <2>1, <2>2
<1>3. LakeInv => PortfolioFilesBelongTogether
  BY DEF LakeInv
<1> QED BY <1>1, <1>2, <1>3, PTL DEF LakeSpec
===============================================================================
