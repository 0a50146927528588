------------------------------ MODULE QuoteIndex -------------------------------
(***************************************************************************)
(* The refresh writing quotes.jsonl and its index row by row, and the two  *)
(* queries the gateway answers with the index: the rows of an ISIN and the *)
(* first and last quote day of a set of listings. A row names its ISIN,    *)
(* its exchange, its day and the length of its line.                       *)
(***************************************************************************)
EXTENDS QuoteRanges

\* The rows come from one query ordered by listing and then by day, and a
\* listing has at most one quote a day.
RowPrecedes(r, s) ==
    \/ r.isin < s.isin
    \/ r.isin = s.isin /\ r.exchange < s.exchange
    \/ r.isin = s.isin /\ r.exchange = s.exchange /\ r.day < s.day

\* Fault: the end of a row is noted before its newline is written.
Fault_EndBeforeNewline(written, row) ==
    [size |-> written.size + row.len,
     ranges |-> [written.ranges EXCEPT
                   ![row.isin] = AddRow(@, written.size, written.size + row.len - 1)]]

\* One row of the refresh: the line and the range of its ISIN.
WriteRow(written, row) ==
    [size |-> written.size + row.len,
     ranges |-> [written.ranges EXCEPT
                   ![row.isin] = AddRow(@, written.size, written.size + row.len)]]

\* quote_ranges after all rows of a file, for each of the ISINs.
WrittenRanges(file, isins) ==
    LET after[i \in 0 .. Len(file)] ==
            IF i = 0 THEN [size |-> 0, ranges |-> [isin \in isins |-> <<>>]]
            ELSE WriteRow(after[i - 1], file[i])
    IN  after[Len(file)].ranges

RangesOf(ranges, isin) == {ranges[isin][k] : k \in DOMAIN ranges[isin]}

-----------------------------------------------------------------------------
OfListing(file, l) == {i \in DOMAIN file : file[i].isin = l[1] /\ file[i].exchange = l[2]}

\* Fault: the last row of a range is not looked at.
Fault_OnlyFirstRows(file, ranges, wanted) ==
    UNION {{file[i].day : i \in {i \in OfListing(file, l) :
                \E range \in RangesOf(ranges, l[1]) : Ends(file)[i - 1] = range[1]}} :
           l \in wanted}

\* read_quote_date_range: of each range of the listing's ISIN only the first
\* and the last row are looked at, and only if they are of the listing itself.
SampledDays(file, ranges, wanted) ==
    UNION {{file[i].day : i \in {i \in OfListing(file, l) :
                \E range \in RangesOf(ranges, l[1]) :
                    \/ Ends(file)[i - 1] = range[1]
                    \/ Ends(file)[i] = range[2]}} : l \in wanted}

QuotedDays(file, wanted) == UNION {{file[i].day : i \in OfListing(file, l)} : l \in wanted}

\* First and last day of a set of days; nothing when there is none.
Span(days) == {d \in days : (\A e \in days : d <= e) \/ (\A e \in days : e <= d)}

-----------------------------------------------------------------------------
(* What must hold of a file and the listings it is asked for.              *)

\* The index the refresh accumulates while it writes is the one a reader
\* without an index file builds by scanning the file. Seeking to the ranges of
\* an ISIN in the file they were built for returns all of its rows and no
\* other, starts at a line and ends within the file.
IndexSelectsExactly(file, ranges) ==
    \A isin \in DOMAIN ranges :
        /\ RangesOf(ranges, isin) = BuildQuoteRanges(file, isin)
        /\ UNION {RowsInRange(file, r) : r \in RangesOf(ranges, isin)} = Rows(file, isin)
        /\ \A r \in RangesOf(ranges, isin) :
              ~StartsInsideRow(file, r) /\ ~OverrunsFile(file, r)

\* For ISINs with a single listing the two rows looked at give the exact span.
DateRangeOfSoleListings(file, ranges, wanted) ==
    (\A l \in wanted : OfListing(file, l) = Rows(file, l[1]))
        => Span(SampledDays(file, ranges, wanted)) = Span(QuotedDays(file, wanted))

\* The date range of a set of listings is that of their quotes, as for the
\* database gateway whose interface the local one shares, also when an ISIN is
\* listed on several exchanges. The code does not keep this.
DateRangeIsExact(file, ranges, wanted) ==
    Span(SampledDays(file, ranges, wanted)) = Span(QuotedDays(file, wanted))

IndexIsSound(file, isins, exchanges) ==
    LET ranges == WrittenRanges(file, isins)
    IN  /\ IndexSelectsExactly(file, ranges)
        /\ \A wanted \in SUBSET (isins \X exchanges) :
              DateRangeOfSoleListings(file, ranges, wanted)
=============================================================================
