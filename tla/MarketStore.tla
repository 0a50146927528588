------------------------------ MODULE MarketStore ------------------------------
(***************************************************************************)
(* The directory of JSON-lines files through which the nightly refresh     *)
(* hands the market data to the API processes.                             *)
(*                                                                         *)
(* Directories are known by the number of the refresh that created them    *)
(* (their inode): `root` and `backup` say which of them the two names      *)
(* refer to, 0 for none, and `dir` which files each holds.  A file, once   *)
(* written, is never changed, so a reader that opened it sees all of it    *)
(* and opening and reading it is one step; the paths are resolved file by  *)
(* file.                                                                   *)
(***************************************************************************)
EXTENDS QuoteRanges

CONSTANTS
    Readers,        \* processes with a gateway
    Contents,       \* per refresh: the listed ISINs and the quote rows
    Wanted,         \* the ISINs of the universe that is read
    BindMounted,    \* the container mounts the directory itself
    MaxReads,       \* bound: reads per reader
    MaxCrashes,     \* bound: refreshes that do not finish
    MaxRestarts     \* bound: restarts of the container

Publications == DOMAIN Contents
QuoteFile(p) == Contents[p].rows

ASSUME MarketStoreAssumption ==
    /\ Len(Contents) \in Nat \ {0} /\ Publications = 1..Len(Contents)
    /\ BindMounted \in BOOLEAN
    /\ MaxReads \in Nat /\ MaxCrashes \in Nat /\ MaxRestarts \in Nat
    /\ \A p \in Publications : Lines(QuoteFile(p))

VARIABLES
    root, backup,   \* the directories at root and at root.previous
    dir,            \* the files of each directory
    refresher,      \* pc of the refresh command and the directory it makes
    mount,          \* the directory a container had at root when it started
    cache,          \* _quote_ranges of each gateway: the publication it is of
    read,           \* the read_snapshot call each reader is in or has finished
    crashes, reads, restarts    \* counters

vars ==
    <<root, backup, dir, refresher, mount, cache, read, crashes, reads, restarts>>

\* In the order in which refresh writes them.
Files == <<"listings", "dividends", "splits", "quotes", "index", "manifest">>
AllFiles == {Files[k] : k \in DOMAIN Files}

\* A read: the publication at root when it began, the one each file came from,
\* the quotes it got, and whether it is a multivariate read of a pinned snapshot.
NoRead == [pc |-> "idle", began |-> 0, files |-> [f \in {} |-> 0], rows |-> {},
           pinned |-> FALSE]

\* Publication 1 is in place when the processes start.
Init ==
    /\ root = 1 /\ backup = 0 /\ mount = 1
    /\ dir = [p \in Publications |-> IF p = 1 THEN AllFiles ELSE {}]
    /\ refresher = [pc |-> "idle", made |-> 1]
    /\ cache = [r \in Readers |-> 0]
    /\ read = [r \in Readers |-> NoRead]
    /\ crashes = 0
    /\ reads = [r \in Readers |-> 0]
    /\ restarts = 0

readerVars == <<mount, cache, read, reads, restarts>>

-----------------------------------------------------------------------------
(* Faults a mutant of the specification may have.                            *)

\* The names are swapped as soon as the quotes are written.
Fault_StageWithoutManifest ==
    /\ refresher.pc = "staging"
    /\ \E k \in DOMAIN Files :
        /\ dir[refresher.made] = {Files[j] : j \in 1..(k - 1)}
        /\ dir' = [dir EXCEPT ![refresher.made] = @ \union {Files[k]}]
        /\ refresher' = [refresher EXCEPT
                           !.pc = IF Files[k] = "quotes" THEN "remove" ELSE @]
    /\ UNCHANGED <<root, backup, crashes, readerVars>>

\* The old publication is deleted rather than kept as the backup.
Fault_MoveRootDeletes ==
    /\ refresher.pc = "move"
    /\ root' = 0
    /\ dir' = IF root # 0 THEN [dir EXCEPT ![root] = {}] ELSE dir
    /\ refresher' = [refresher EXCEPT !.pc = "publish"]
    /\ UNCHANGED <<backup, crashes, readerVars>>

\* The rename of root does not allow for a root that is missing.
Fault_MoveRootNeedsRoot ==
    /\ refresher.pc = "move"
    /\ root # 0
    /\ backup' = root /\ root' = 0
    /\ refresher' = [refresher EXCEPT !.pc = "publish"]
    /\ UNCHANGED <<dir, crashes, readerVars>>

-----------------------------------------------------------------------------
(* refresh: write a staging directory, then swap names.                      *)

\* The listings and the snapshot have been read; a staging directory is made.
BeginRefresh ==
    /\ refresher.pc = "idle"
    /\ refresher.made + 1 \in Publications
    /\ refresher' = [pc |-> "staging", made |-> refresher.made + 1]
    /\ UNCHANGED <<root, backup, dir, crashes, readerVars>>

StageFile ==
    /\ refresher.pc = "staging"
    /\ \E k \in DOMAIN Files :
        /\ dir[refresher.made] = {Files[j] : j \in 1..(k - 1)}
        /\ dir' = [dir EXCEPT ![refresher.made] = @ \union {Files[k]}]
        /\ refresher' = [refresher EXCEPT
                           !.pc = IF k = Len(Files) THEN "remove" ELSE @]
    /\ UNCHANGED <<root, backup, crashes, readerVars>>

\* rmtree(backup) unlinks the files one by one and then the directory.
RemoveBackup ==
    /\ refresher.pc = "remove"
    /\ backup # 0
    /\ IF dir[backup] # {}
         THEN /\ \E f \in dir[backup] : dir' = [dir EXCEPT ![backup] = @ \ {f}]
              /\ UNCHANGED <<backup, refresher>>
         ELSE /\ backup' = 0
              /\ refresher' = [refresher EXCEPT !.pc = "move"]
              /\ UNCHANGED dir
    /\ UNCHANGED <<root, crashes, readerVars>>

NoBackup ==
    /\ refresher.pc = "remove"
    /\ backup = 0
    /\ refresher' = [refresher EXCEPT !.pc = "move"]
    /\ UNCHANGED <<root, backup, dir, crashes, readerVars>>

\* root.rename(backup), if there is a root.
MoveRoot ==
    /\ refresher.pc = "move"
    /\ IF root # 0 THEN backup' = root /\ root' = 0 ELSE UNCHANGED <<root, backup>>
    /\ refresher' = [refresher EXCEPT !.pc = "publish"]
    /\ UNCHANGED <<dir, crashes, readerVars>>

\* staging.rename(root).
Publish ==
    /\ refresher.pc = "publish"
    /\ root' = refresher.made
    /\ refresher' = [refresher EXCEPT !.pc = "idle"]
    /\ UNCHANGED <<backup, dir, crashes, readerVars>>

\* The command raises (the temporary directory is removed on the way out) or is
\* killed (it stays behind under its own name); cron starts it again.
CrashRefresh ==
    /\ refresher.pc # "idle"
    /\ crashes < MaxCrashes
    /\ refresher.made + 1 \in Publications      \* bound: a refresh follows
    /\ crashes' = crashes + 1
    /\ refresher' = [refresher EXCEPT !.pc = "idle"]
    /\ \/ dir' = [dir EXCEPT ![refresher.made] = {}]
       \/ UNCHANGED dir
    /\ UNCHANGED <<root, backup, readerVars>>

-----------------------------------------------------------------------------
(* LocalMarketDataGateway.read_snapshot and AnalyticalMarketData.read.       *)

\* The directory a reader's paths resolve to.  A bind mount refers to the
\* directory that had the name when the container started.
Seen == IF BindMounted THEN mount ELSE root

CanOpen(file) == Seen # 0 /\ file \in dir[Seen]

\* MARKET_SOURCE_UNAVAILABLE or MARKET_SOURCE_CONTRACT_MISMATCH.
Fail(r) == read' = [read EXCEPT ![r].pc = "failed"]

\* The file comes from the directory that is seen now.
Taken(files, file) ==
    [f \in DOMAIN files \union {file} |-> IF f = file THEN Seen ELSE files[f]]

Advance(r, file, next) ==
    read' = [read EXCEPT ![r].pc = next, ![r].files = Taken(@, file)]

refreshVars == <<root, backup, dir, refresher, mount, crashes, restarts>>

\* A read starts with the listings; each wanted one must be there.
ReadListings(r) ==
    /\ read[r].pc \in {"idle", "failed", "served"}
    /\ reads[r] < MaxReads
    /\ reads' = [reads EXCEPT ![r] = @ + 1]
    /\ \E pinned \in BOOLEAN :
         LET found == CanOpen("listings") /\ Wanted \subseteq Contents[Seen].listed
         IN  read' = [read EXCEPT ![r] =
                        [NoRead EXCEPT !.pc = IF found THEN "ranges" ELSE "failed",
                                       !.began = root,
                                       !.files = Taken(@, "listings"),
                                       !.pinned = pinned]]
    /\ UNCHANGED <<refreshVars, cache>>

\* _load_quote_ranges: once per process, from the index or else by a scan.
LoadQuoteRanges(r) ==
    /\ read[r].pc = "ranges"
    /\ IF cache[r] # 0
         THEN /\ read' = [read EXCEPT ![r].pc = "quotes"]
              /\ UNCHANGED cache
         ELSE IF CanOpen("index") \/ CanOpen("quotes")
                THEN /\ cache' = [cache EXCEPT ![r] = Seen]
                     /\ read' = [read EXCEPT ![r].pc = "quotes"]
                ELSE Fail(r) /\ UNCHANGED cache
    /\ UNCHANGED <<refreshVars, reads>>

CachedRanges(r) ==
    UNION {BuildQuoteRanges(QuoteFile(cache[r]), isin) : isin \in Wanted}

\* Every range is read to its end: the rows of wanted ISINs are kept.
ReadQuotes(r) ==
    /\ read[r].pc = "quotes"
    /\ CanOpen("quotes")
    /\ LET file == QuoteFile(Seen)
           hit == UNION {RowsInRange(file, range) : range \in CachedRanges(r)}
       IN  /\ \A range \in CachedRanges(r) :
                 ~StartsInsideRow(file, range) /\ ~OverrunsFile(file, range)
           /\ read' = [read EXCEPT
                         ![r].pc = "dividends",
                         ![r].files = Taken(@, "quotes"),
                         ![r].rows = {file[i] : i \in {j \in hit : file[j].isin \in Wanted}}]
    /\ UNCHANGED <<refreshVars, cache, reads>>

\* No file, or a range that starts inside a line: the read fails.
QuotesUnreadable(r) ==
    /\ read[r].pc = "quotes"
    /\ CanOpen("quotes") =>
          \E range \in CachedRanges(r) : StartsInsideRow(QuoteFile(Seen), range)
    /\ Fail(r)
    /\ UNCHANGED <<refreshVars, cache, reads>>

\* A range that ends beyond the file, met before any that starts inside a
\* line (the order of the wanted ISINs is that of a set): the loop does not end.
QuotesNeverEnd(r) ==
    /\ read[r].pc = "quotes"
    /\ CanOpen("quotes")
    /\ \E range \in CachedRanges(r) :
          ~StartsInsideRow(QuoteFile(Seen), range) /\ OverrunsFile(QuoteFile(Seen), range)
    /\ Advance(r, "quotes", "spinning")
    /\ UNCHANGED <<refreshVars, cache, reads>>

ReadDividends(r) ==
    /\ read[r].pc = "dividends"
    /\ IF CanOpen("dividends") THEN Advance(r, "dividends", "splits") ELSE Fail(r)
    /\ UNCHANGED <<refreshVars, cache, reads>>

\* After the last file a read of the current snapshot is accepted if every
\* wanted ISIN has quotes; a read for a pinned one does not look.
ReadSplits(r) ==
    /\ read[r].pc = "splits"
    /\ IF /\ CanOpen("splits")
          /\ read[r].pinned \/ Wanted \subseteq {row.isin : row \in read[r].rows}
         THEN Advance(r, "splits", "served") ELSE Fail(r)
    /\ UNCHANGED <<refreshVars, cache, reads>>

Reading(r) ==
    \/ LoadQuoteRanges(r) \/ ReadQuotes(r) \/ QuotesUnreadable(r)
    \/ QuotesNeverEnd(r) \/ ReadDividends(r) \/ ReadSplits(r)

\* The container restarts: its mount is made anew and the caches are gone.
Restart ==
    /\ restarts < MaxRestarts
    /\ root # 0
    /\ restarts' = restarts + 1
    /\ mount' = root
    /\ cache' = [r \in Readers |-> 0]
    /\ read' = [r \in Readers |-> NoRead]
    /\ UNCHANGED <<root, backup, dir, refresher, crashes, reads>>

-----------------------------------------------------------------------------
Refreshing ==
    BeginRefresh \/ StageFile \/ RemoveBackup \/ NoBackup \/ MoveRoot \/ Publish

Next ==
    \/ Refreshing
    \/ CrashRefresh
    \/ Restart
    \/ \E r \in Readers : ReadListings(r) \/ Reading(r)

\* cron starts the refresh again and again; a read that began is carried on.
Fairness == WF_vars(Refreshing) /\ \A r \in Readers : WF_vars(Reading(r))

Spec == Init /\ [][Next]_vars /\ Fairness

-----------------------------------------------------------------------------
(* Properties.                                                              *)

\* The directory at root always holds all of its files: the swap of names never
\* exposes a half-written or half-removed publication.
RootIsComplete == root # 0 => dir[root] = AllFiles

\* Whatever refresh fails or is killed at whatever point, one complete copy of
\* the data can be found: at root, at root.previous, or staged by the refresh
\* that is about to publish it.
CompleteCopyExists ==
    \/ root # 0
    \/ backup # 0 /\ dir[backup] = AllFiles
    \/ refresher.pc \in {"remove", "move", "publish"}

WantedRows(p) ==
    {QuoteFile(p)[i] : i \in UNION {Rows(QuoteFile(p), isin) : isin \in Wanted}}

\* A read that finds the quotes file its cached ranges belong to returns exactly
\* the rows of the wanted ISINs, neither fewer nor rows of others.
MatchedReadIsExact ==
    \A r \in Readers :
        read[r].pc = "served" /\ read[r].files["quotes"] = cache[r]
            => read[r].rows = WantedRows(cache[r])

\* Whatever happens to a refresh, there is a publication at root again.
RootReturns == (root = 0) ~> (root # 0)

\* A read whose byte ranges end within the file it reads comes to an end; only a
\* file that is shorter than the one the cached ranges are of keeps it busy.
ReadsEnd ==
    \A r \in Readers : (read[r].pc = "ranges") ~>
        \/ read[r].pc \in {"served", "failed", "idle"}
        \/ /\ read[r].pc = "spinning"
           /\ Size(QuoteFile(read[r].files["quotes"])) < Size(QuoteFile(cache[r]))

(* What docs and comments say and the code does not keep.                   *)

\* A failed run leaves the previous snapshot intact: when no refresh is running
\* a publication is at root.
PreviousSnapshotIntact == refresher.pc = "idle" => root # 0

\* What a read serves is one publication: all files are of it and the quotes
\* are those it has for the wanted ISINs.
ServesOnePublication ==
    \A r \in Readers : read[r].pc = "served" =>
        \E p \in Publications :
            /\ \A f \in DOMAIN read[r].files : read[r].files[f] = p
            /\ read[r].rows = WantedRows(p)

\* Readers use the last complete publication: a read during which no refresh
\* swapped names serves the publication that was at root.
ServesLastPublication ==
    \A r \in Readers :
        read[r].pc = "served" /\ read[r].began = root /\ root # 0 =>
            /\ \A f \in DOMAIN read[r].files : read[r].files[f] = root
            /\ read[r].rows = WantedRows(root)

\* A read of a directory that stayed in place is not refused.
UndisturbedReadSucceeds ==
    \A r \in Readers :
        ~(read[r].pc = "failed" /\ read[r].began = root /\ root # 0)

=============================================================================
