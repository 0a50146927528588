------------------------------ MODULE QuoteRanges ------------------------------
(***************************************************************************)
(* The byte index of quotes.jsonl.  A file is a sequence of rows; a row    *)
(* names its listing (an ISIN on an exchange), its day and the bytes its   *)
(* line takes.  The refresh writes the rows ordered by listing and day and *)
(* records where the rows of each ISIN are; the gateway seeks to those     *)
(* ranges instead of scanning the file.                                    *)
(***************************************************************************)
EXTENDS Naturals, Sequences, FiniteSets

\* The rows of a file, each with a line of its own.
Lines(file) ==
    /\ Len(file) \in Nat /\ DOMAIN file = 1..Len(file)
    /\ \A i \in DOMAIN file : file[i].len \in Nat \ {0}

\* Where each line ends: Ends(file)[i] is the offset after row i, and row i
\* starts at Ends(file)[i - 1].
Ends(file) ==
    LET at[i \in 0..Len(file)] == IF i = 0 THEN 0 ELSE at[i - 1] + file[i].len
    IN  at

Size(file) == Ends(file)[Len(file)]

Rows(file, isin) == {i \in DOMAIN file : file[i].isin = isin}

\* Fault: a block that grows keeps the start of its newest row as its end.
Fault_BlockEndsAtRowStart(file, isin) ==
    {<<Ends(file)[block[1] - 1], Ends(file)[block[2] - 1]>> :
        block \in {b \in (DOMAIN file) \X (DOMAIN file) :
                     /\ b[1] < b[2]
                     /\ b[1]..b[2] \subseteq Rows(file, isin)
                     /\ b[1] - 1 \notin Rows(file, isin)
                     /\ b[2] + 1 \notin Rows(file, isin)}}

\* The scan a reader falls back to when there is no index file: the ranges of
\* an ISIN are the maximal blocks of adjacent rows that carry it.
BuildQuoteRanges(file, isin) ==
    {<<Ends(file)[block[1] - 1], Ends(file)[block[2]]>> :
        block \in {b \in (DOMAIN file) \X (DOMAIN file) :
                     /\ b[1] <= b[2]
                     /\ b[1]..b[2] \subseteq Rows(file, isin)
                     /\ b[1] - 1 \notin Rows(file, isin)
                     /\ b[2] + 1 \notin Rows(file, isin)}}

\* Fault: every row gets a range of its own.
Fault_AddRowNeverJoins(ranges, start, end) == Append(ranges, <<start, end>>)

\* What the refresh does to the ranges of an ISIN for a row it writes at start.
AddRow(ranges, start, end) ==
    IF ranges # <<>> /\ ranges[Len(ranges)][2] = start
      THEN [ranges EXCEPT ![Len(ranges)][2] = end]
      ELSE Append(ranges, <<start, end>>)

(***************************************************************************)
(* Reading a range of a file: lines are read from its start until the      *)
(* position passes its end.  The range may come from an older publication. *)
(***************************************************************************)

\* The rows such a read returns when it starts at the beginning of a line.
RowsInRange(file, range) ==
    {i \in DOMAIN file : Ends(file)[i - 1] \in range[1]..(range[2] - 1)}

\* A start inside a line yields a fragment, which is not JSON.
StartsInsideRow(file, range) ==
    /\ range[1] < Size(file)
    /\ \A i \in DOMAIN file : Ends(file)[i - 1] # range[1]

\* Fault: the loop goes on when the position is at the end of the range.
Fault_OverrunsAtEnd(file, range) == range[2] >= Size(file)

\* At the end of the file readline returns nothing and the position no longer
\* moves, so a range that ends beyond the file is never finished.
OverrunsFile(file, range) == range[2] > Size(file)

=============================================================================
