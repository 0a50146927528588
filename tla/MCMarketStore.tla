----------------------------- MODULE MCMarketStore -----------------------------
(***************************************************************************)
(* Two or three publications of two ISINs, of which B is read.            *)
(***************************************************************************)
EXTENDS MarketStore

Row(isin, day, len) == [isin |-> isin, day |-> day, len |-> len]
Publication(rows) == [listed |-> {row.isin : row \in {rows[i] : i \in DOMAIN rows}},
                      rows |-> rows]

First == Publication(<<Row("A", 1, 2), Row("B", 1, 2)>>)

\* A day later every ISIN has one more row; a price may take another byte.
Later == Publication(<<Row("A", 1, 2), Row("A", 2, 2), Row("B", 1, 2), Row("B", 2, 2)>>)
Longer == Publication(<<Row("A", 1, 3), Row("A", 2, 2), Row("B", 1, 2), Row("B", 2, 3)>>)
\* A is no longer listed, and the file is shorter than it was.
Delisted == Publication(<<Row("B", 1, 2)>>)

GrowingContents == <<First, Later>>
ChangingContents == <<First, Longer, Delisted>>

=============================================================================
