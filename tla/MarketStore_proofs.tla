--------------------------- MODULE MarketStore_proofs ---------------------------
(***************************************************************************)
(* The swap of directories never exposes a half-made publication, and one  *)
(* refresh that fails or is killed never costs the only copy of the data.  *)
(* The argument needs which directories the names and the running refresh  *)
(* refer to: they are different ones, numbered no higher than the newest.  *)
(*                                                                         *)
(* The byte ranges of a file select exactly the rows they are made for,    *)
(* so a read that finds the file its ranges are of is exact; and the index *)
(* the refresh accumulates has these ranges.  The recursive functions are  *)
(* followed from line to line: a first line that fails has one before it.  *)
(***************************************************************************)
EXTENDS MarketStore, QuoteIndex, WellFoundedInduction, TLAPS

Swapping == {"remove", "move", "publish"}
Complete(p) == p # 0 /\ dir[p] = AllFiles

\* Types of what the refresh command keeps.
RefreshType ==
    /\ root \in 0..Len(Contents) /\ backup \in 0..Len(Contents)
    /\ dir \in [Publications -> SUBSET AllFiles]
    /\ refresher \in [pc : {"idle", "staging"} \union Swapping, made : Publications]
    /\ crashes \in Nat

\* The directory being made is none of the named ones, the named ones differ,
\* and none is newer than the newest made.
Distinct ==
    /\ root <= refresher.made /\ backup <= refresher.made
    /\ refresher.pc # "idle" => refresher.made \notin {root, backup}
    /\ root # 0 => root # backup

\* What each phase of the swap relies on.
Phases ==
    /\ refresher.pc \in Swapping => dir[refresher.made] = AllFiles
    /\ refresher.pc = "move" => backup = 0
    /\ refresher.pc = "publish" => root = 0

IInv == RefreshType /\ Distinct /\ Phases /\ RootIsComplete

Refresh == <<root, backup, dir, refresher, crashes>>

LEMMA FilesInOrder ==
    /\ Len(Files) = 6 /\ DOMAIN Files = 1..6
    /\ AllFiles = {Files[j] : j \in 1..6}
BY DEF Files, AllFiles

\* What readers and restarts do leaves the refresh's variables alone.
LEMMA ReadersLeaveRefresh ==
    ASSUME \/ Restart
           \/ \E r \in Readers : ReadListings(r) \/ Reading(r)
           \/ UNCHANGED vars
    PROVE  UNCHANGED Refresh
<1>1. CASE Restart
  BY <1>1 DEF Restart, Refresh
<1>2. ASSUME NEW r \in Readers, ReadListings(r) \/ Reading(r)
      PROVE  UNCHANGED Refresh
  BY <1>2 DEF Refresh, refreshVars, ReadListings, Reading, LoadQuoteRanges,
              ReadQuotes, QuotesUnreadable, QuotesNeverEnd, ReadDividends, ReadSplits
<1>3. CASE UNCHANGED vars
  BY <1>3 DEF vars, Refresh
<1> QED
  BY <1>1, <1>2, <1>3

LEMMA InitIInv == Init => IInv
<1> SUFFICES ASSUME Init PROVE IInv
  OBVIOUS
<1> USE MarketStoreAssumption
<1>1. RefreshType
  BY DEF Init, RefreshType, Swapping
<1>2. Distinct /\ Phases /\ RootIsComplete
  BY DEF Init, Distinct, Phases, RootIsComplete, Swapping
<1> QED
  BY <1>1, <1>2 DEF IInv

LEMMA StepIInv == IInv /\ [Next]_vars => IInv'
<1> SUFFICES ASSUME IInv, [Next]_vars PROVE IInv'
  OBVIOUS
<1> USE MarketStoreAssumption
<1> USE DEF IInv
<1>1. CASE BeginRefresh
  <2>1. RefreshType'
    BY <1>1 DEF BeginRefresh, RefreshType, Swapping
  <2>2. Distinct' /\ Phases' /\ RootIsComplete'
    BY <1>1 DEF BeginRefresh, RefreshType, Distinct, Phases, RootIsComplete, Swapping
  <2> QED
    BY <2>1, <2>2
<1>2. CASE StageFile
  <2>1. PICK k \in 1..6 :
           /\ dir[refresher.made] = {Files[j] : j \in 1..(k - 1)}
           /\ dir' = [dir EXCEPT ![refresher.made] = @ \union {Files[k]}]
           /\ refresher' = [refresher EXCEPT !.pc = IF k = 6 THEN "remove" ELSE @]
    BY <1>2, FilesInOrder DEF StageFile
  <2>2. UNCHANGED <<root, backup, crashes>> /\ refresher.pc = "staging"
    BY <1>2 DEF StageFile
  <2>3. Files[k] \in AllFiles
    BY FilesInOrder
  <2>4. RefreshType'
    BY <2>1, <2>2, <2>3 DEF RefreshType, Swapping
  <2>5. Distinct' /\ RootIsComplete'
    BY <2>1, <2>2 DEF RefreshType, Distinct, RootIsComplete
  <2>6. k = 6 => dir'[refresher'.made] = AllFiles
    <3> SUFFICES ASSUME k = 6 PROVE dir'[refresher'.made] = AllFiles
      OBVIOUS
    <3>1. dir'[refresher'.made] = {Files[j] : j \in 1..5} \union {Files[6]}
      BY <2>1 DEF RefreshType
    <3> QED
      BY <3>1, FilesInOrder
  <2>7. Phases'
    BY <2>1, <2>2, <2>6 DEF RefreshType, Phases, Swapping
  <2> QED
    BY <2>4, <2>5, <2>7
<1>3. CASE RemoveBackup
  <2>1. RefreshType'
    BY <1>3 DEF RemoveBackup, RefreshType, Swapping
  <2>2. Distinct' /\ Phases' /\ RootIsComplete'
    BY <1>3 DEF RemoveBackup, RefreshType, Distinct, Phases, RootIsComplete, Swapping
  <2> QED
    BY <2>1, <2>2
<1>4. CASE NoBackup
  BY <1>4 DEF NoBackup, RefreshType, Distinct, Phases, RootIsComplete, Swapping
<1>5. CASE MoveRoot
  BY <1>5 DEF MoveRoot, RefreshType, Distinct, Phases, RootIsComplete, Swapping
<1>6. CASE Publish
  BY <1>6 DEF Publish, RefreshType, Distinct, Phases, RootIsComplete, Swapping
<1>7. CASE CrashRefresh
  <2>1. RefreshType'
    <3>1. \/ dir' = [dir EXCEPT ![refresher.made] = {}]
          \/ dir' = dir
      BY <1>7 DEF CrashRefresh
    <3>2. dir' \in [Publications -> SUBSET AllFiles]
      BY <3>1 DEF RefreshType
    <3> QED
      BY <1>7, <3>2 DEF CrashRefresh, RefreshType, Swapping
  <2>2. Distinct' /\ Phases' /\ RootIsComplete'
    BY <1>7 DEF CrashRefresh, RefreshType, Distinct, Phases, RootIsComplete, Swapping
  <2> QED
    BY <2>1, <2>2
<1>8. CASE UNCHANGED Refresh
  BY <1>8 DEF Refresh, RefreshType, Distinct, Phases, RootIsComplete
<1> QED
  BY <1>1, <1>2, <1>3, <1>4, <1>5, <1>6, <1>7, <1>8, ReadersLeaveRefresh
     DEF Next, Refreshing

LEMMA Inductive == Spec => []IInv
<1>1. Init => IInv
  BY InitIInv
<1>2. IInv /\ [Next]_vars => IInv'
  BY StepIInv
<1> QED
  BY <1>1, <1>2, PTL DEF Spec

\* For any contents, any number of refreshes that fail at any point, and any
\* readers: refresh() never lets root name a directory that lacks a file.
THEOREM RootAlwaysComplete == Spec => []RootIsComplete
<1>1. IInv => RootIsComplete
  BY DEF IInv
<1> QED
  BY <1>1, Inductive, PTL

-----------------------------------------------------------------------------
\* Where the complete copy is: until the first failure only a swap leaves root
\* without a directory, and then root.previous has the old one; after it, a
\* missing root has its copy at root.previous until the next one is staged.
CopyAt ==
    /\ crashes = 0 /\ refresher.pc # "publish" => root # 0
    /\ crashes = 0 /\ refresher.pc = "publish" => Complete(backup)
    /\ root = 0 /\ refresher.pc \in {"idle", "staging"} => Complete(backup)

LEMMA InitCopyAt == Init => CopyAt
BY DEF Init, CopyAt, Complete

LEMMA StepCopyAt ==
    ASSUME MaxCrashes <= 1, IInv, CopyAt, [Next]_vars
    PROVE  CopyAt'
<1> USE MarketStoreAssumption
<1> USE DEF IInv
<1>1. CASE BeginRefresh
  BY <1>1 DEF BeginRefresh, RefreshType, CopyAt, Complete
<1>2. CASE StageFile
  <2>1. dir' = [dir EXCEPT ![refresher.made] = dir'[refresher.made]]
    BY <1>2 DEF StageFile, RefreshType
  <2>2. backup # refresher.made
    BY <1>2 DEF StageFile, Distinct
  <2>3. Complete(backup) => Complete(backup)'
    BY <1>2, <2>1, <2>2 DEF StageFile, Complete, RefreshType
  <2> QED
    BY <1>2, <2>3 DEF StageFile, RefreshType, CopyAt
<1>3. CASE RemoveBackup
  BY <1>3 DEF RemoveBackup, RefreshType, CopyAt
<1>4. CASE NoBackup
  BY <1>4 DEF NoBackup, RefreshType, CopyAt
<1>5. CASE MoveRoot
  BY <1>5 DEF MoveRoot, RefreshType, RootIsComplete, CopyAt, Complete
<1>6. CASE Publish
  BY <1>6 DEF Publish, RefreshType, CopyAt
<1>7. CASE CrashRefresh
  <2>1. crashes = 0 /\ crashes' = 1 /\ refresher'.pc = "idle"
    BY <1>7 DEF CrashRefresh, RefreshType
  <2>2. root = 0 => refresher.pc = "publish" /\ Complete(backup)
    BY <2>1 DEF CopyAt
  <2>3. Complete(backup) => Complete(backup)'
    BY <1>7 DEF CrashRefresh, Distinct, Complete, RefreshType
  <2>4. root' = root
    BY <1>7 DEF CrashRefresh
  <2> QED
    BY <2>1, <2>2, <2>3, <2>4 DEF CopyAt
<1>8. CASE UNCHANGED Refresh
  BY <1>8 DEF Refresh, CopyAt, Complete
<1> QED
  BY <1>1, <1>2, <1>3, <1>4, <1>5, <1>6, <1>7, <1>8, ReadersLeaveRefresh
     DEF Next, Refreshing

\* With at most one refresh that fails or is killed, at whatever point of the
\* swap, a complete copy of the data can be found under root, root.previous or
\* in the staging directory of the refresh that is swapping.
THEOREM OneCrashKeepsACopy ==
    ASSUME MaxCrashes <= 1
    PROVE  Spec => []CompleteCopyExists
<1>1. Init => CopyAt
  BY InitCopyAt
<1>2. IInv /\ CopyAt /\ [Next]_vars => CopyAt'
  BY StepCopyAt
<1>3. CopyAt /\ IInv => CompleteCopyExists
  BY DEF CopyAt, IInv, CompleteCopyExists, Complete, RefreshType, Swapping
<1> QED
  BY <1>1, <1>2, <1>3, Inductive, PTL DEF Spec

-----------------------------------------------------------------------------
(***************************************************************************)
(* Lines and the ranges of bytes they take.                                *)
(***************************************************************************)
\* A set of natural numbers has a least one.
LEMMA LeastNatural ==
    ASSUME NEW S, S \subseteq Nat, S # {}
    PROVE  \E n \in S : \A m \in S : n <= m
<1> DEFINE R == {p \in Nat \X Nat : p[1] < p[2]}
<1>1. R = OpToRel(<, Nat)
  BY DEF OpToRel
<1>2. IsWellFoundedOn(R, Nat)
  BY <1>1, NatLessThanWellFounded
<1>3. \A m, n \in Nat : <<m, n>> \in R <=> m < n
  OBVIOUS
<1> HIDE DEF R
<1>4. PICK n \in S : \A m \in S : ~(<<m, n>> \in R)
  BY <1>2, WFMin
<1>5. ASSUME NEW m \in S PROVE n <= m
  <2>1. n \in Nat /\ m \in Nat
    OBVIOUS
  <2>2. ~(m < n)
    BY <1>3, <1>4, <2>1
  <2> QED
    BY <2>1, <2>2
<1> QED
  BY <1>5

\* A set that holds the first number and with each number the next holds them all up to n.
LEMMA UpTo ==
    ASSUME NEW n \in Nat, NEW S, 0 \in S, \A k \in 0..n : k \in S /\ k < n => k + 1 \in S
    PROVE  0..n \subseteq S
<1> SUFFICES ASSUME NEW x \in 0..n, x \notin S PROVE FALSE
  OBVIOUS
<1>1. PICK k \in {y \in 0..n : y \notin S} : \A m \in {y \in 0..n : y \notin S} : k <= m
  <2>1. {y \in 0..n : y \notin S} \subseteq Nat /\ {y \in 0..n : y \notin S} # {}
    OBVIOUS
  <2> QED BY <2>1, LeastNatural
<1>2. k - 1 \in 0..n /\ k - 1 \in S /\ k - 1 < n
  BY <1>1
<1> QED BY <1>1, <1>2

\* The equation that the ends of the first m lines solve.
Sums(f, file, m) == f = [i \in 0..m |-> IF i = 0 THEN 0 ELSE f[i - 1] + file[i].len]

\* It has a solution, so the ends are one.
LEMMA EndsDef == ASSUME NEW file, Lines(file) PROVE Sums(Ends(file), file, Len(file))
<1> DEFINE S == {m \in 0..Len(file) : \E f : Sums(f, file, m)}
<1>1. 0 \in S
  <2>1. [i \in 0..0 |-> 0] = [i \in 0..0 |-> IF i = 0 THEN 0 ELSE [j \in 0..0 |-> 0][i - 1] + file[i].len]
    OBVIOUS
  <2>2. Sums([i \in 0..0 |-> 0], file, 0)
    BY <2>1 DEF Sums
  <2> QED BY <2>2 DEF Lines
<1>2. ASSUME NEW m \in 0..Len(file), m \in S, m < Len(file) PROVE m + 1 \in S
  <2>1. PICK f : Sums(f, file, m)
    BY <1>2
  <2>2. PICK g : g = [i \in 0..(m + 1) |-> IF i <= m THEN f[i] ELSE f[m] + file[m + 1].len]
    OBVIOUS
  <2>3. ASSUME NEW i \in 0..(m + 1) PROVE g[i] = IF i = 0 THEN 0 ELSE g[i - 1] + file[i].len
    <3>1. CASE i = m + 1
      <4>1. m \in Nat /\ i # 0 /\ ~(i <= m) /\ i - 1 = m /\ m \in 0..(m + 1) /\ i \in 0..(m + 1)
        BY <3>1 DEF Lines
      <4>2. g[i] = f[m] + file[m + 1].len /\ g[m] = f[m]
        BY <2>2, <4>1
      <4> QED BY <3>1, <4>1, <4>2
    <3>2. CASE i <= m
      <4>1. f[i] = IF i = 0 THEN 0 ELSE f[i - 1] + file[i].len
        <5>1. i \in 0..m
          BY <3>2 DEF Lines
        <5>2. f = [j \in 0..m |-> IF j = 0 THEN 0 ELSE f[j - 1] + file[j].len]
          BY <2>1 DEF Sums
        <5> QED BY <5>1, <5>2
      <4>2. i # 0 => i - 1 \in 0..(m + 1) /\ i - 1 <= m
        BY <3>2 DEF Lines
      <4>3. g[i] = f[i] /\ (i # 0 => g[i - 1] = f[i - 1])
        BY <2>2, <3>2, <4>2
      <4> QED BY <4>1, <4>3
    <3> QED BY <3>1, <3>2 DEF Lines
  <2>4. Sums(g, file, m + 1)
    BY <2>2, <2>3 DEF Sums
  <2>5. m + 1 \in 0..Len(file)
    BY <1>2 DEF Lines
  <2> QED BY <2>4, <2>5
<1>3. Len(file) \in S
  <2> HIDE DEF S
  <2>1. 0..Len(file) \subseteq S
    BY <1>1, <1>2, UpTo DEF Lines
  <2> QED BY <2>1 DEF Lines
<1>4. PICK f : Sums(f, file, Len(file))
  BY <1>3
<1>5. Ends(file) = CHOOSE at : Sums(at, file, Len(file))
  BY DEF Ends, Sums
<1> QED BY <1>4, <1>5

\* A line ends its bytes after the one before it.
LEMMA EndsStep ==
    ASSUME NEW file, Lines(file)
    PROVE  /\ Ends(file)[0] = 0
           /\ \A i \in 1..Len(file) : Ends(file)[i] = Ends(file)[i - 1] + file[i].len
<1>1. /\ Len(file) \in Nat
      /\ Ends(file) = [i \in 0..Len(file) |->
                         IF i = 0 THEN 0 ELSE Ends(file)[i - 1] + file[i].len]
  BY EndsDef DEF Lines, Sums
<1>2. PICK e : e = Ends(file)
  OBVIOUS
<1>3. e = [i \in 0..Len(file) |-> IF i = 0 THEN 0 ELSE e[i - 1] + file[i].len]
  BY <1>1, <1>2
<1> QED BY <1>1, <1>2, <1>3

LEMMA EndsType == ASSUME NEW file, Lines(file) PROVE \A i \in 0..Len(file) : Ends(file)[i] \in Nat
<1> DEFINE S == {i \in 0..Len(file) : Ends(file)[i] \in Nat}
<1>1. Len(file) \in Nat /\ 0 \in S
  BY EndsStep DEF Lines
<1>2. ASSUME NEW k \in 0..Len(file), k \in S, k < Len(file) PROVE k + 1 \in S
  <2>1. k + 1 \in 1..Len(file) /\ (k + 1) - 1 = k
    BY <1>1, <1>2
  <2>2. Ends(file)[k + 1] = Ends(file)[k] + file[k + 1].len
    BY <2>1, EndsStep
  <2>3. file[k + 1].len \in Nat
    BY <2>1 DEF Lines
  <2> QED BY <1>1, <1>2, <2>1, <2>2, <2>3
<1> HIDE DEF S
<1>3. 0..Len(file) \subseteq S
  BY <1>1, <1>2, UpTo
<1> QED BY <1>3 DEF S

\* Later lines end later.
LEMMA EndsGrow ==
    ASSUME NEW file, Lines(file), NEW i \in 0..Len(file), NEW j \in 0..Len(file)
    PROVE  /\ i < j => Ends(file)[i] < Ends(file)[j]
           /\ i <= j => Ends(file)[i] <= Ends(file)[j]
<1> DEFINE S == {k \in 0..Len(file) : i < k => Ends(file)[i] < Ends(file)[k]}
<1>1. Len(file) \in Nat /\ 0 \in S
  BY DEF Lines
<1>2. ASSUME NEW k \in 0..Len(file), k \in S, k < Len(file) PROVE k + 1 \in S
  <2>1. k + 1 \in 1..Len(file) /\ (k + 1) - 1 = k /\ k + 1 \in 0..Len(file)
    BY <1>1, <1>2
  <2>2. Ends(file)[k + 1] = Ends(file)[k] + file[k + 1].len
    BY <2>1, EndsStep
  <2>3. file[k + 1].len \in Nat \ {0}
    BY <2>1 DEF Lines
  <2>4. Ends(file)[i] \in Nat /\ Ends(file)[k] \in Nat
    BY EndsType
  <2>5. i < k + 1 => Ends(file)[i] <= Ends(file)[k]
    BY <1>1, <1>2, <2>4
  <2> QED BY <2>1, <2>2, <2>3, <2>4, <2>5
<1>3. j \in S
  <2> HIDE DEF S
  <2> QED BY <1>1, <1>2, UpTo
<1> QED BY <1>3, EndsType

-----------------------------------------------------------------------------
\* Maximal blocks of adjacent rows of an ISIN.
Block(file, isin, a, b) ==
    /\ a \in DOMAIN file /\ b \in DOMAIN file /\ a <= b
    /\ a..b \subseteq Rows(file, isin)
    /\ a - 1 \notin Rows(file, isin) /\ b + 1 \notin Rows(file, isin)

\* They are what the scan for ranges finds.
LEMMA RangesAreBlocks ==
    ASSUME NEW file, NEW isin
    PROVE  /\ \A a, b : Block(file, isin, a, b) =>
                <<Ends(file)[a - 1], Ends(file)[b]>> \in BuildQuoteRanges(file, isin)
           /\ \A range \in BuildQuoteRanges(file, isin) : \E a, b :
                Block(file, isin, a, b) /\ range = <<Ends(file)[a - 1], Ends(file)[b]>>
<1>1. ASSUME NEW a, NEW b, Block(file, isin, a, b)
      PROVE  <<Ends(file)[a - 1], Ends(file)[b]>> \in BuildQuoteRanges(file, isin)
  <2>1. PICK block \in (DOMAIN file) \X (DOMAIN file) : block = <<a, b>>
    BY <1>1 DEF Block
  <2>2. block[1] = a /\ block[2] = b
    BY <2>1
  <2> QED BY <1>1, <2>1, <2>2 DEF Block, BuildQuoteRanges
<1>2. ASSUME NEW range \in BuildQuoteRanges(file, isin)
      PROVE  \E a, b : Block(file, isin, a, b) /\ range = <<Ends(file)[a - 1], Ends(file)[b]>>
  <2>1. PICK block \in (DOMAIN file) \X (DOMAIN file) :
            /\ block[1] <= block[2]
            /\ block[1]..block[2] \subseteq Rows(file, isin)
            /\ block[1] - 1 \notin Rows(file, isin)
            /\ block[2] + 1 \notin Rows(file, isin)
            /\ range = <<Ends(file)[block[1] - 1], Ends(file)[block[2]]>>
    BY DEF BuildQuoteRanges
  <2>2. Block(file, isin, block[1], block[2])
    BY <2>1 DEF Block
  <2> QED BY <2>1, <2>2
<1> QED BY <1>1, <1>2

\* Every row of an ISIN lies in a block.
LEMMA RowInBlock ==
    ASSUME NEW file, Lines(file), NEW isin, NEW i \in Rows(file, isin)
    PROVE  \E a, b : Block(file, isin, a, b) /\ a <= i /\ i <= b
<1> DEFINE n == Len(file)
           Down == {a \in 1..i : a..i \subseteq Rows(file, isin)}
           Up   == {d \in 0..(n - i) : i..(n - d) \subseteq Rows(file, isin)}
<1>1. n \in Nat /\ DOMAIN file = 1..n /\ i \in 1..n /\ Rows(file, isin) \subseteq 1..n
  BY DEF Lines, Rows
<1>2. PICK a \in Down : \A m \in Down : a <= m
  <2>1. i \in Down
    BY <1>1
  <2>2. Down \subseteq Nat
    BY <1>1
  <2> QED BY <2>1, <2>2, LeastNatural
<1>3. a - 1 \notin Rows(file, isin)
  <2> SUFFICES ASSUME a - 1 \in Rows(file, isin) PROVE FALSE
    OBVIOUS
  <2>1. a \in 1..i /\ a - 1 \in 1..i
    BY <1>1
  <2>2. \A x \in (a - 1)..i : x = a - 1 \/ x \in a..i
    BY <1>1, <2>1
  <2>3. (a - 1)..i \subseteq Rows(file, isin)
    BY <2>2
  <2> QED BY <1>1, <1>2, <2>1, <2>3
<1>4. PICK d \in Up : \A m \in Up : d <= m
  <2>1. n - i \in Up
    BY <1>1
  <2>2. Up \subseteq Nat
    BY <1>1
  <2> QED BY <2>1, <2>2, LeastNatural
<1>5. PICK b : b = n - d
  OBVIOUS
<1>6. b \in i..n /\ i..b \subseteq Rows(file, isin) /\ d \in 0..(n - i)
  BY <1>1, <1>4, <1>5
<1>7. b + 1 \notin Rows(file, isin)
  <2> SUFFICES ASSUME b + 1 \in Rows(file, isin) PROVE FALSE
    OBVIOUS
  <2>1. d - 1 \in 0..(n - i) /\ n - (d - 1) = b + 1
    BY <1>1, <1>5, <1>6
  <2>2. \A x \in i..(b + 1) : x = b + 1 \/ x \in i..b
    BY <1>1, <1>6
  <2>3. i..(b + 1) \subseteq Rows(file, isin)
    BY <1>6, <2>2
  <2>4. d - 1 \in Up
    BY <2>1, <2>3
  <2> QED BY <1>4, <1>6, <2>4
<1>8. a \in 1..i /\ a..i \subseteq Rows(file, isin)
  OBVIOUS
<1>9. \A x \in a..b : x \in a..i \/ x \in i..b
  BY <1>1, <1>6, <1>8
<1>10. Block(file, isin, a, b)
  <2>1. a..b \subseteq Rows(file, isin)
    BY <1>6, <1>8, <1>9
  <2>2. a \in 1..n /\ b \in 1..n /\ a <= b
    BY <1>1, <1>6, <1>8
  <2> QED BY <1>1, <1>3, <1>7, <2>1, <2>2 DEF Block
<1> QED BY <1>1, <1>6, <1>8, <1>10

\* The rows that a block's range selects are the block's.
LEMMA BlockSelects ==
    ASSUME NEW file, Lines(file), NEW isin, NEW a, NEW b, Block(file, isin, a, b)
    PROVE  RowsInRange(file, <<Ends(file)[a - 1], Ends(file)[b]>>) = a..b
<1> DEFINE n == Len(file)
           e == Ends(file)
<1>1. n \in Nat /\ DOMAIN file = 1..n /\ a \in 1..n /\ b \in 1..n /\ a <= b
  BY DEF Lines, Block
<1>2. RowsInRange(file, <<e[a - 1], e[b]>>) = {i \in 1..n : e[i - 1] \in e[a - 1]..(e[b] - 1)}
  BY <1>1 DEF RowsInRange
<1>3. ASSUME NEW i \in 1..n PROVE e[i - 1] \in e[a - 1]..(e[b] - 1) <=> i \in a..b
  <2>1. i - 1 \in 0..n /\ a - 1 \in 0..n /\ b \in 0..n /\ i \in 0..n
    BY <1>1, <1>3
  <2>2. e[i - 1] \in Nat /\ e[a - 1] \in Nat /\ e[b] \in Nat
    BY <2>1, EndsType
  <2>3. e[a - 1] <= e[i - 1] <=> a <= i
    <3>1. i - 1 < a - 1 => e[i - 1] < e[a - 1]
      BY <2>1, EndsGrow
    <3>2. a - 1 <= i - 1 => e[a - 1] <= e[i - 1]
      BY <2>1, EndsGrow
    <3> HIDE DEF e
    <3> QED BY <1>1, <2>1, <2>2, <3>1, <3>2
  <2>4. e[i - 1] < e[b] <=> i <= b
    <3>1. i - 1 < b => e[i - 1] < e[b]
      BY <2>1, EndsGrow
    <3>2. b <= i - 1 => e[b] <= e[i - 1]
      BY <2>1, EndsGrow
    <3> HIDE DEF e
    <3> QED BY <1>1, <2>1, <2>2, <3>1, <3>2
  <2> HIDE DEF e
  <2> QED BY <1>1, <2>1, <2>2, <2>3, <2>4
<1>4. {i \in 1..n : e[i - 1] \in e[a - 1]..(e[b] - 1)} = a..b
  <2>1. a..b \subseteq 1..n
    BY <1>1
  <2> HIDE DEF e, n
  <2> QED BY <1>3, <2>1
<1> QED BY <1>2, <1>4

\* Seeking to the ranges of an ISIN in the file they are of returns its rows.
LEMMA RangesSelect ==
    ASSUME NEW file, Lines(file), NEW isin
    PROVE  UNION {RowsInRange(file, range) : range \in BuildQuoteRanges(file, isin)}
             = Rows(file, isin)
<1>1. ASSUME NEW i \in Rows(file, isin)
      PROVE  \E range \in BuildQuoteRanges(file, isin) : i \in RowsInRange(file, range)
  <2>1. PICK a, b : Block(file, isin, a, b) /\ a <= i /\ i <= b
    BY RowInBlock
  <2>2. i \in a..b
    BY <2>1 DEF Block, Lines, Rows
  <2>3. i \in RowsInRange(file, <<Ends(file)[a - 1], Ends(file)[b]>>)
    <3>1. RowsInRange(file, <<Ends(file)[a - 1], Ends(file)[b]>>) = a..b
      BY <2>1, BlockSelects
    <3> QED BY <2>2, <3>1
  <2>4. <<Ends(file)[a - 1], Ends(file)[b]>> \in BuildQuoteRanges(file, isin)
    BY <2>1, RangesAreBlocks
  <2> QED BY <2>3, <2>4
<1>2. ASSUME NEW range \in BuildQuoteRanges(file, isin)
      PROVE  RowsInRange(file, range) \subseteq Rows(file, isin)
  <2>1. PICK a, b : Block(file, isin, a, b) /\ range = <<Ends(file)[a - 1], Ends(file)[b]>>
    BY RangesAreBlocks
  <2> QED BY <2>1, BlockSelects DEF Block
<1> QED BY <1>1, <1>2

-----------------------------------------------------------------------------
(***************************************************************************)
(* What a reader serves from the file that its cached ranges are of.       *)
(***************************************************************************)
HasQuotes == {"dividends", "splits", "served"}

\* A reader's call keeps its fields, and past the quotes it has the rows of the file
\* it read them from, if that is the file the ranges are of.
ReadOK(r) ==
    LET c == read[r] IN
    /\ c = [pc |-> c.pc, began |-> c.began, files |-> c.files, rows |-> c.rows,
            pinned |-> c.pinned]
    /\ c.pc \in HasQuotes =>
          /\ "quotes" \in DOMAIN c.files
          /\ c.files["quotes"] = cache[r] => c.rows = WantedRows(cache[r])

ReadsOK ==
    /\ mount \in Publications
    /\ cache \in [Readers -> 0..Len(Contents)]
    /\ DOMAIN read = Readers
    /\ \A r \in Readers : ReadOK(r)

\* Where a path resolves to when a file can be opened.
LEMMA OpenedIsPublished ==
    ASSUME RefreshType, mount \in Publications, NEW file, CanOpen(file)
    PROVE  Seen \in Publications
BY MarketStoreAssumption DEF RefreshType, CanOpen, Seen

LEMMA SeenType ==
    ASSUME RefreshType, mount \in Publications
    PROVE  Seen \in 0..Len(Contents)
BY MarketStoreAssumption DEF RefreshType, Seen

\* Reading the ranges of a file in that file: the wanted rows and no other.
LEMMA OwnRangesSelect ==
    ASSUME NEW r \in Readers, cache[r] \in Publications,
           NEW hit, hit = UNION {RowsInRange(QuoteFile(cache[r]), range) : range \in CachedRanges(r)}
    PROVE  {QuoteFile(cache[r])[i] : i \in {j \in hit : QuoteFile(cache[r])[j].isin \in Wanted}}
             = WantedRows(cache[r])
<1>1. PICK file : file = QuoteFile(cache[r])
  OBVIOUS
<1>2. Lines(file)
  BY <1>1, MarketStoreAssumption
<1>3. CachedRanges(r) = UNION {BuildQuoteRanges(file, isin) : isin \in Wanted}
  BY <1>1 DEF CachedRanges
<1>4. hit = UNION {Rows(file, isin) : isin \in Wanted}
  <2>1. ASSUME NEW i \in hit PROVE \E isin \in Wanted : i \in Rows(file, isin)
    <3>1. PICK isin \in Wanted :
            \E range \in BuildQuoteRanges(file, isin) : i \in RowsInRange(file, range)
      BY <1>1, <1>3
    <3>2. i \in UNION {RowsInRange(file, q) : q \in BuildQuoteRanges(file, isin)}
      BY <3>1
    <3> QED BY <1>2, <3>2, RangesSelect
  <2>2. ASSUME NEW isin \in Wanted, NEW i \in Rows(file, isin) PROVE i \in hit
    <3>1. i \in UNION {RowsInRange(file, q) : q \in BuildQuoteRanges(file, isin)}
      BY <1>2, RangesSelect
    <3>2. PICK q \in BuildQuoteRanges(file, isin) : i \in RowsInRange(file, q)
      BY <3>1
    <3> QED BY <1>1, <1>3, <3>2
  <2> QED BY <2>1, <2>2
<1>5. WantedRows(cache[r]) = {file[i] : i \in hit}
  BY <1>1, <1>4 DEF WantedRows
<1>6. {j \in hit : file[j].isin \in Wanted} = hit
  BY <1>4 DEF Rows
<1> QED BY <1>1, <1>5, <1>6

\* A call of one reader leaves the others' alone.
LEMMA OneReader ==
    ASSUME ReadsOK, NEW r \in Readers, NEW v,
           read' = [read EXCEPT ![r] = v],
           \/ cache' = cache
           \/ \E p \in 0..Len(Contents) : cache' = [cache EXCEPT ![r] = p],
           UNCHANGED mount,
           read'[r] = v => ReadOK(r)'
    PROVE  ReadsOK'
<1>1. mount' \in Publications /\ DOMAIN read' = Readers
  BY DEF ReadsOK
<1>2. cache' \in [Readers -> 0..Len(Contents)]
  BY DEF ReadsOK
<1>3. ASSUME NEW q \in Readers PROVE ReadOK(q)'
  <2>1. CASE q = r
    BY <2>1 DEF ReadsOK
  <2>2. CASE q # r
    <3>1. read'[q] = read[q] /\ cache'[q] = cache[q]
      BY <2>2 DEF ReadsOK
    <3>2. ReadOK(q)
      BY DEF ReadsOK
    <3> QED BY <3>1, <3>2 DEF ReadOK, WantedRows
  <2> QED BY <2>1, <2>2
<1> QED BY <1>1, <1>2, <1>3 DEF ReadsOK

\* Taking a file changes where that one came from.
LEMMA TakenFiles ==
    ASSUME NEW files, NEW file
    PROVE  /\ DOMAIN Taken(files, file) = DOMAIN files \union {file}
           /\ Taken(files, file)[file] = Seen
           /\ \A f \in DOMAIN files : f # file => Taken(files, file)[f] = files[f]
BY DEF Taken

LEMMA InitReadsOK == Init => ReadsOK
<1> SUFFICES ASSUME Init PROVE ReadsOK
  OBVIOUS
<1>1. mount \in Publications /\ cache \in [Readers -> 0..Len(Contents)] /\ DOMAIN read = Readers
  BY MarketStoreAssumption DEF Init
<1>2. ASSUME NEW r \in Readers PROVE ReadOK(r)
  BY DEF Init, ReadOK, NoRead, HasQuotes
<1> QED BY <1>1, <1>2 DEF ReadsOK

\* A failed call shows nothing.
LEMMA FailReadsOK ==
    ASSUME ReadsOK, NEW r \in Readers, Fail(r), UNCHANGED <<cache, mount>>
    PROVE  ReadsOK'
<1>1. PICK v : v = [read[r] EXCEPT !.pc = "failed"]
  OBVIOUS
<1>2. read' = [read EXCEPT ![r] = v]
  BY <1>1 DEF Fail
<1>3. ReadOK(r)
  BY DEF ReadsOK
<1>4. v.pc = "failed" /\ v = [pc |-> v.pc, began |-> v.began, files |-> v.files, rows |-> v.rows,
                             pinned |-> v.pinned]
  BY <1>1, <1>3 DEF ReadOK
<1>5. read'[r] = v => ReadOK(r)'
  BY <1>4 DEF ReadOK, HasQuotes
<1> QED BY <1>2, <1>5, OneReader

\* Taking another file keeps the quotes that a reader has.
LEMMA AdvanceReadsOK ==
    ASSUME ReadsOK, NEW r \in Readers, NEW file, NEW next,
           Advance(r, file, next), UNCHANGED <<cache, mount>>,
           next \in HasQuotes => read[r].pc \in HasQuotes /\ file # "quotes"
    PROVE  ReadsOK'
<1>1. PICK v : v = [[read[r] EXCEPT !.pc = next] EXCEPT !.files = Taken(@, file)]
  OBVIOUS
<1>2. read' = [read EXCEPT ![r] = v]
  BY <1>1 DEF Advance, ReadsOK, ReadOK
<1>3. PICK c : c = read[r] /\ ReadOK(r)
  BY DEF ReadsOK
<1>4. c = [pc |-> c.pc, began |-> c.began, files |-> c.files, rows |-> c.rows, pinned |-> c.pinned]
  BY <1>3 DEF ReadOK
<1>5. v = [pc |-> next, began |-> c.began, files |-> Taken(c.files, file), rows |-> c.rows,
           pinned |-> c.pinned]
  BY <1>1, <1>3, <1>4
<1>6. v.pc = next /\ v.files = Taken(c.files, file) /\ v.rows = c.rows
      /\ v = [pc |-> v.pc, began |-> v.began, files |-> v.files, rows |-> v.rows, pinned |-> v.pinned]
  BY <1>5
<1>7. ASSUME next \in HasQuotes
      PROVE  /\ "quotes" \in DOMAIN v.files
             /\ v.files["quotes"] = cache[r] => v.rows = WantedRows(cache[r])
  <2>1. "quotes" \in DOMAIN c.files /\ (c.files["quotes"] = cache[r] => c.rows = WantedRows(cache[r]))
    <3>1. read[r].pc \in HasQuotes
      BY <1>7
    <3>2. /\ "quotes" \in DOMAIN read[r].files
          /\ read[r].files["quotes"] = cache[r] => read[r].rows = WantedRows(cache[r])
      BY <1>3, <3>1 DEF ReadOK
    <3> QED BY <1>3, <3>2
  <2>2. file # "quotes"
    BY <1>7
  <2>3. "quotes" \in DOMAIN Taken(c.files, file)
    BY <2>1 DEF Taken
  <2>4. Taken(c.files, file)["quotes"] = c.files["quotes"]
    BY <2>1, <2>2 DEF Taken
  <2> QED BY <1>6, <2>1, <2>3, <2>4
<1>8. read'[r] = v => ReadOK(r)'
  BY <1>6, <1>7 DEF ReadOK, WantedRows
<1> QED BY <1>2, <1>8, OneReader

\* Every step of a reader's call.
LEMMA ReaderStep ==
    ASSUME RefreshType, ReadsOK, NEW r \in Readers, ReadListings(r) \/ Reading(r)
    PROVE  ReadsOK'
<1> USE DEF refreshVars
<1>1. mount \in Publications /\ cache[r] \in 0..Len(Contents) /\ DOMAIN read = Readers /\ ReadOK(r)
  BY DEF ReadsOK
<1>2. CASE ReadListings(r)
  <2>1. UNCHANGED <<cache, mount>>
    BY <1>2 DEF ReadListings
  <2>2. PICK v : /\ read' = [read EXCEPT ![r] = v]
                 /\ \E pinned \in BOOLEAN, found \in BOOLEAN :
                      v = [NoRead EXCEPT !.pc = IF found THEN "ranges" ELSE "failed",
                                         !.began = root,
                                         !.files = Taken(@, "listings"),
                                         !.pinned = pinned]
    BY <1>2 DEF ReadListings
  <2>3. PICK pinned \in BOOLEAN, found \in BOOLEAN :
            v = [pc |-> IF found THEN "ranges" ELSE "failed", began |-> root,
                 files |-> Taken(NoRead.files, "listings"), rows |-> {}, pinned |-> pinned]
    BY <2>2 DEF NoRead
  <2>4. read'[r] = v => ReadOK(r)'
    BY <2>3 DEF ReadOK, HasQuotes
  <2> QED BY <2>1, <2>2, <2>4, OneReader
<1>3. CASE LoadQuoteRanges(r)
  <2>1. CASE Fail(r) /\ UNCHANGED cache
    BY <1>3, <2>1, FailReadsOK DEF LoadQuoteRanges
  <2>2. CASE /\ read' = [read EXCEPT ![r].pc = "quotes"]
             /\ cache' = cache \/ cache' = [cache EXCEPT ![r] = Seen]
    <3>1. PICK v : v = [read[r] EXCEPT !.pc = "quotes"]
      OBVIOUS
    <3>2. v.pc = "quotes" /\ v = [pc |-> v.pc, began |-> v.began, files |-> v.files,
                                  rows |-> v.rows, pinned |-> v.pinned]
      BY <1>1, <3>1 DEF ReadOK
    <3>3. read'[r] = v => ReadOK(r)'
      BY <3>2 DEF ReadOK, HasQuotes
    <3>4. read' = [read EXCEPT ![r] = v] /\ UNCHANGED mount
      BY <1>3, <2>2, <3>1 DEF LoadQuoteRanges
    <3>5. Seen \in 0..Len(Contents)
      BY <1>1, SeenType
    <3> QED BY <2>2, <3>3, <3>4, <3>5, OneReader
  <2> QED BY <1>3, <2>1, <2>2 DEF LoadQuoteRanges
<1>4. CASE ReadQuotes(r)
  <2>1. Seen \in Publications /\ UNCHANGED <<cache, mount>>
    BY <1>1, <1>4, OpenedIsPublished DEF ReadQuotes
  <2>2. PICK hit, rows :
          /\ hit = UNION {RowsInRange(QuoteFile(Seen), range) : range \in CachedRanges(r)}
          /\ rows = {QuoteFile(Seen)[i] : i \in {j \in hit : QuoteFile(Seen)[j].isin \in Wanted}}
          /\ read' = [read EXCEPT ![r].pc = "dividends",
                                  ![r].files = Taken(@, "quotes"),
                                  ![r].rows = rows]
    BY <1>4 DEF ReadQuotes
  <2>3. PICK c : c = read[r]
    OBVIOUS
  <2>4. c = [pc |-> c.pc, began |-> c.began, files |-> c.files, rows |-> c.rows, pinned |-> c.pinned]
    BY <1>1, <2>3 DEF ReadOK
  <2>5. PICK v : v = [pc |-> "dividends", began |-> c.began, files |-> Taken(c.files, "quotes"),
                      rows |-> rows, pinned |-> c.pinned]
    OBVIOUS
  <2>6. read' = [read EXCEPT ![r] = v]
    <3>1. PICK files : files = Taken(c.files, "quotes")
      OBVIOUS
    <3>2. PICK u : u = [c EXCEPT !.pc = "dividends"]
      OBVIOUS
    <3>3. PICK t : t = [u EXCEPT !.files = files]
      OBVIOUS
    <3>4. u = [pc |-> "dividends", began |-> c.began, files |-> c.files, rows |-> c.rows,
               pinned |-> c.pinned]
      BY <2>4, <3>2
    <3>5. t = [pc |-> "dividends", began |-> c.began, files |-> files, rows |-> c.rows,
               pinned |-> c.pinned]
      BY <3>3, <3>4
    <3>6. v = [t EXCEPT !.rows = rows]
      BY <2>5, <3>1, <3>5
    <3>7. read' = [read EXCEPT ![r] = [t EXCEPT !.rows = rows]]
      BY <1>1, <2>2, <2>3, <3>1, <3>2, <3>3, <3>4
    <3> QED BY <3>6, <3>7
  <2>7. "quotes" \in DOMAIN v.files /\ v.files["quotes"] = Seen /\ v.rows = rows
    <3>1. v.files = Taken(c.files, "quotes") /\ v.rows = rows
      BY <2>5
    <3>2. "quotes" \in DOMAIN Taken(c.files, "quotes") /\ Taken(c.files, "quotes")["quotes"] = Seen
      BY TakenFiles
    <3> QED BY <3>1, <3>2
  <2>8. Seen = cache[r] => rows = WantedRows(cache[r])
    <3> SUFFICES ASSUME Seen = cache[r] PROVE rows = WantedRows(cache[r])
      OBVIOUS
    <3>1. /\ cache[r] \in Publications
          /\ hit = UNION {RowsInRange(QuoteFile(cache[r]), range) : range \in CachedRanges(r)}
          /\ rows = {QuoteFile(cache[r])[i] :
                       i \in {j \in hit : QuoteFile(cache[r])[j].isin \in Wanted}}
      BY <2>1, <2>2
    <3> QED BY <3>1, OwnRangesSelect
  <2>9. v = [pc |-> v.pc, began |-> v.began, files |-> v.files, rows |-> v.rows, pinned |-> v.pinned]
    BY <2>5
  <2>10. read'[r] = v => ReadOK(r)'
    BY <2>1, <2>7, <2>8, <2>9 DEF ReadOK, WantedRows
  <2> QED BY <2>1, <2>6, <2>10, OneReader
<1>5. CASE QuotesUnreadable(r)
  BY <1>5, FailReadsOK DEF QuotesUnreadable
<1>6. CASE QuotesNeverEnd(r)
  <2>1. "spinning" \notin HasQuotes
    BY DEF HasQuotes
  <2>2. Advance(r, "quotes", "spinning") /\ UNCHANGED <<cache, mount>>
    BY <1>6 DEF QuotesNeverEnd
  <2> QED BY <2>1, <2>2, AdvanceReadsOK
<1>7. CASE ReadDividends(r)
  <2>1. read[r].pc \in HasQuotes /\ "dividends" # "quotes"
    BY <1>7 DEF ReadDividends, HasQuotes
  <2> QED BY <1>7, <2>1, FailReadsOK, AdvanceReadsOK DEF ReadDividends
<1>8. CASE ReadSplits(r)
  <2>1. read[r].pc \in HasQuotes /\ "splits" # "quotes"
    BY <1>8 DEF ReadSplits, HasQuotes
  <2> QED BY <1>8, <2>1, FailReadsOK, AdvanceReadsOK DEF ReadSplits
<1> QED BY <1>2, <1>3, <1>4, <1>5, <1>6, <1>7, <1>8 DEF Reading

\* The refresh does not touch what a reader holds, and a restart clears it.
LEMMA StepReadsOK ==
    ASSUME RefreshType, ReadsOK, [Next]_vars
    PROVE  ReadsOK'
<1>1. ASSUME UNCHANGED <<mount, cache, read>> PROVE ReadsOK'
  BY <1>1 DEF ReadsOK, ReadOK, WantedRows
<1>2. CASE Restart
  <2>1. mount' \in Publications /\ DOMAIN read' = Readers
    BY <1>2, MarketStoreAssumption DEF Restart, RefreshType
  <2>2. cache' \in [Readers -> 0..Len(Contents)]
    BY <1>2, MarketStoreAssumption DEF Restart
  <2>3. ASSUME NEW r \in Readers PROVE ReadOK(r)'
    BY <1>2 DEF Restart, ReadOK, NoRead, HasQuotes
  <2> QED BY <2>1, <2>2, <2>3 DEF ReadsOK
<1>3. CASE Refreshing \/ CrashRefresh
  <2>1. UNCHANGED readerVars
    BY <1>3 DEF Refreshing, BeginRefresh, StageFile, RemoveBackup, NoBackup, MoveRoot, Publish,
                CrashRefresh
  <2> QED BY <1>1, <2>1 DEF readerVars
<1>4. CASE UNCHANGED vars
  BY <1>1, <1>4 DEF vars
<1> QED BY <1>2, <1>3, <1>4, ReaderStep DEF Next

\* However old the ranges a process has cached, and however often names are swapped and
\* the container restarts: a read that gets its quotes from the file the ranges are of
\* serves exactly the rows of the wanted ISINs.
THEOREM MatchedReadsAreExact == Spec => []MatchedReadIsExact
<1>1. Init => ReadsOK
  BY InitReadsOK
<1>2. IInv /\ ReadsOK /\ [Next]_vars => ReadsOK'
  BY StepReadsOK DEF IInv
<1>3. ReadsOK => MatchedReadIsExact
  BY DEF ReadsOK, ReadOK, MatchedReadIsExact, HasQuotes
<1> QED
  BY <1>1, <1>2, <1>3, Inductive, PTL DEF Spec

-----------------------------------------------------------------------------
(***************************************************************************)
(* The index that the refresh accumulates row by row.                      *)
(***************************************************************************)
\* What is written before the first row.
NothingWritten(isins) == [size |-> 0, ranges |-> [isin \in isins |-> <<>>]]

Writes(f, file, isins, m) ==
    f = [i \in 0..m |-> IF i = 0 THEN NothingWritten(isins) ELSE WriteRow(f[i - 1], file[i])]

\* The refresh gets there, as for the ends.
LEMMA WritesExist ==
    ASSUME NEW file, Lines(file), NEW isins
    PROVE  \E f : Writes(f, file, isins, Len(file)) /\ WrittenRanges(file, isins) = f[Len(file)].ranges
<1> DEFINE S == {m \in 0..Len(file) : \E f : Writes(f, file, isins, m)}
<1>1. 0 \in S
  <2>1. PICK f : f = [i \in 0..0 |-> NothingWritten(isins)]
    OBVIOUS
  <2>2. f = [i \in 0..0 |-> IF i = 0 THEN NothingWritten(isins) ELSE WriteRow(f[i - 1], file[i])]
    BY <2>1
  <2>3. Writes(f, file, isins, 0)
    BY <2>2 DEF Writes
  <2> QED BY <2>3 DEF Lines
<1>2. ASSUME NEW m \in 0..Len(file), m \in S, m < Len(file) PROVE m + 1 \in S
  <2>1. PICK f : Writes(f, file, isins, m)
    BY <1>2
  <2>2. PICK g : g = [i \in 0..(m + 1) |-> IF i <= m THEN f[i] ELSE WriteRow(f[m], file[m + 1])]
    OBVIOUS
  <2>3. ASSUME NEW i \in 0..(m + 1)
        PROVE  g[i] = IF i = 0 THEN NothingWritten(isins) ELSE WriteRow(g[i - 1], file[i])
    <3>1. CASE i = m + 1
      <4>1. m \in Nat /\ i # 0 /\ ~(i <= m) /\ i - 1 = m /\ m \in 0..(m + 1) /\ i \in 0..(m + 1)
        BY <3>1 DEF Lines
      <4>2. g[i] = WriteRow(f[m], file[m + 1]) /\ g[m] = f[m]
        BY <2>2, <4>1
      <4> QED BY <3>1, <4>1, <4>2
    <3>2. CASE i <= m
      <4>1. f[i] = IF i = 0 THEN NothingWritten(isins) ELSE WriteRow(f[i - 1], file[i])
        <5>1. i \in 0..m
          BY <3>2 DEF Lines
        <5>2. f = [j \in 0..m |-> IF j = 0 THEN NothingWritten(isins) ELSE WriteRow(f[j - 1], file[j])]
          BY <2>1 DEF Writes
        <5> QED BY <5>1, <5>2
      <4>2. i # 0 => i - 1 \in 0..(m + 1) /\ i - 1 <= m
        BY <3>2 DEF Lines
      <4>3. g[i] = f[i] /\ (i # 0 => g[i - 1] = f[i - 1])
        BY <2>2, <3>2, <4>2
      <4> QED BY <4>1, <4>3
    <3> QED BY <3>1, <3>2 DEF Lines
  <2>4. Writes(g, file, isins, m + 1)
    <3>1. g = [i \in 0..(m + 1) |-> g[i]]
      BY <2>2
    <3>2. g = [i \in 0..(m + 1) |->
                IF i = 0 THEN NothingWritten(isins) ELSE WriteRow(g[i - 1], file[i])]
      BY <2>3, <3>1
    <3> QED BY <3>2 DEF Writes
  <2>5. m + 1 \in 0..Len(file)
    BY <1>2 DEF Lines
  <2> QED BY <2>4, <2>5
<1>3. Len(file) \in S
  <2> HIDE DEF S
  <2>1. 0..Len(file) \subseteq S
    BY <1>1, <1>2, UpTo DEF Lines
  <2> QED BY <2>1 DEF Lines
<1>4. PICK g : Writes(g, file, isins, Len(file))
  BY <1>3
<1>5. PICK f : f = CHOOSE h : Writes(h, file, isins, Len(file))
  OBVIOUS
<1>6. Writes(f, file, isins, Len(file))
  BY <1>4, <1>5
<1>7. WrittenRanges(file, isins) = f[Len(file)].ranges
  BY <1>5 DEF WrittenRanges, Writes, NothingWritten
<1> QED BY <1>6, <1>7

\* A block of the rows up to the i-th.
BlockUpTo(file, i, isin, a, b) ==
    /\ a \in 1..i /\ b \in 1..i /\ a <= b
    /\ a..b \subseteq Rows(file, isin)
    /\ a - 1 \notin Rows(file, isin) /\ (b < i => b + 1 \notin Rows(file, isin))

\* The ranges of an ISIN when i rows are written: those of the blocks, and the one that
\* reaches the end of the file, if there is one, is the last.
RangesAt(file, i, isin, q) ==
    /\ q \in Seq(Nat \X Nat)
    /\ \A k \in DOMAIN q : \E a, b :
          BlockUpTo(file, i, isin, a, b) /\ q[k] = <<Ends(file)[a - 1], Ends(file)[b]>>
    /\ \A a, b : BlockUpTo(file, i, isin, a, b) =>
          \E k \in DOMAIN q : q[k] = <<Ends(file)[a - 1], Ends(file)[b]>>
    /\ \A k \in DOMAIN q : q[k][2] = Ends(file)[i] => k = Len(q)
    /\ i \in Rows(file, isin) => q # <<>> /\ q[Len(q)][2] = Ends(file)[i]

\* A row of another ISIN leaves the blocks.
LEMMA OtherRow ==
    ASSUME NEW file, Lines(file), NEW isin, NEW i \in 0..Len(file), i < Len(file),
           NEW q, RangesAt(file, i, isin, q), i + 1 \notin Rows(file, isin)
    PROVE  RangesAt(file, i + 1, isin, q)
<1>1. Len(file) \in Nat /\ DOMAIN file = 1..Len(file)
  BY DEF Lines
<1>2. \A a, b : BlockUpTo(file, i, isin, a, b) <=> BlockUpTo(file, i + 1, isin, a, b)
  <2>1. ASSUME NEW a, NEW b, BlockUpTo(file, i, isin, a, b) PROVE BlockUpTo(file, i + 1, isin, a, b)
    <3>1. b < i + 1 => b < i \/ b + 1 = i + 1
      BY <1>1, <2>1 DEF BlockUpTo
    <3> QED BY <1>1, <2>1, <3>1 DEF BlockUpTo
  <2>2. ASSUME NEW a, NEW b, BlockUpTo(file, i + 1, isin, a, b) PROVE BlockUpTo(file, i, isin, a, b)
    <3>1. a \in 1..(i + 1) /\ b \in 1..(i + 1) /\ a <= b /\ b \in Rows(file, isin)
      BY <1>1, <2>2 DEF BlockUpTo
    <3>2. b # i + 1
      BY <3>1
    <3>3. a \in 1..i /\ b \in 1..i /\ b < i + 1
      BY <1>1, <3>1, <3>2
    <3> QED BY <1>1, <2>2, <3>3 DEF BlockUpTo
  <2> QED BY <2>1, <2>2
<1>3. \A k \in DOMAIN q : q[k][2] # Ends(file)[i + 1]
  <2> TAKE k \in DOMAIN q
  <2>1. PICK a, b : BlockUpTo(file, i, isin, a, b) /\ q[k] = <<Ends(file)[a - 1], Ends(file)[b]>>
    BY DEF RangesAt
  <2>2. b \in 0..Len(file) /\ i + 1 \in 0..Len(file) /\ b < i + 1
    BY <1>1, <2>1 DEF BlockUpTo
  <2>3. Ends(file)[b] < Ends(file)[i + 1] /\ Ends(file)[b] \in Nat /\ Ends(file)[i + 1] \in Nat
    BY <2>2, EndsGrow, EndsType
  <2>4. q[k][2] = Ends(file)[b]
    BY <2>1
  <2> QED BY <2>3, <2>4
<1> QED BY <1>2, <1>3 DEF RangesAt

\* A row of the ISIN joins the block of the row before it or begins one.
LEMMA OwnRow ==
    ASSUME NEW file, Lines(file), NEW isin, NEW i \in 0..Len(file), i < Len(file),
           NEW q, RangesAt(file, i, isin, q), i + 1 \in Rows(file, isin)
    PROVE  RangesAt(file, i + 1, isin, AddRow(q, Ends(file)[i], Ends(file)[i + 1]))
<1> DEFINE e == Ends(file)
           n == Len(q)
<1>1. Len(file) \in Nat /\ DOMAIN file = 1..Len(file) /\ i \in Nat /\ i + 1 \in 1..Len(file)
  BY DEF Lines
<1>2. q \in Seq(Nat \X Nat) /\ n \in Nat /\ DOMAIN q = 1..n
  BY DEF RangesAt
<1>3. e[i] \in Nat /\ e[i + 1] \in Nat /\ e[i] < e[i + 1]
  BY <1>1, EndsType, EndsGrow
<1>4. ASSUME NEW k \in DOMAIN q
      PROVE  \E a, b : /\ BlockUpTo(file, i, isin, a, b) /\ q[k] = <<e[a - 1], e[b]>>
                       /\ q[k][1] = e[a - 1] /\ q[k][2] = e[b]
                       /\ a \in 1..i /\ b \in 1..i /\ e[a - 1] \in Nat /\ e[b] \in Nat
                       /\ e[b] < e[i + 1] /\ (e[b] = e[i] <=> b = i)
  <2>1. PICK a, b : BlockUpTo(file, i, isin, a, b) /\ q[k] = <<e[a - 1], e[b]>>
    BY DEF RangesAt
  <2>2. /\ a \in 1..i /\ b \in 1..i /\ b \in 0..Len(file) /\ a - 1 \in 0..Len(file)
        /\ i \in 0..Len(file) /\ i + 1 \in 0..Len(file) /\ b < i + 1
    BY <1>1, <2>1 DEF BlockUpTo
  <2>3. e[b] < e[i + 1] /\ e[b] \in Nat /\ e[a - 1] \in Nat
    BY <2>2, EndsGrow, EndsType
  <2>4. b < i => e[b] < e[i]
    BY <2>2, EndsGrow
  <2>5. e[b] = e[i] <=> b = i
    <3> HIDE DEF e
    <3> QED BY <1>1, <1>3, <2>2, <2>3, <2>4
  <2> QED BY <2>1, <2>2, <2>3, <2>5
\* The last range, if it reaches the row, is of the block that ends before it.
<1>5. i \in Rows(file, isin) <=> q # <<>> /\ q[n][2] = e[i]
  <2>1. i \in Rows(file, isin) => q # <<>> /\ q[n][2] = e[i]
    BY DEF RangesAt
  <2>2. ASSUME q # <<>>, q[n][2] = e[i] PROVE i \in Rows(file, isin)
    <3>1. n \in DOMAIN q
      BY <1>2, <2>2
    <3>2. PICK a, b : BlockUpTo(file, i, isin, a, b) /\ q[n][2] = e[b] /\ (e[b] = e[i] <=> b = i)
      BY <1>4, <3>1
    <3>3. BlockUpTo(file, i, isin, a, i)
      BY <2>2, <3>2
    <3> QED BY <1>1, <3>3 DEF BlockUpTo
  <2> QED BY <2>1, <2>2
\* Blocks that end before the row are blocks up to it, and the other way round.
<1>6. \A a, b : b < i => (BlockUpTo(file, i, isin, a, b) <=> BlockUpTo(file, i + 1, isin, a, b))
  BY <1>1 DEF BlockUpTo
<1>7. CASE i \in Rows(file, isin)
  <2>1. n \in DOMAIN q /\ n >= 1 /\ q # <<>> /\ q[n][2] = e[i]
    BY <1>2, <1>5, <1>7
  <2>2. PICK a, b : BlockUpTo(file, i, isin, a, b) /\ q[n] = <<e[a - 1], e[b]>> /\ b = i
                    /\ q[n][1] = e[a - 1] /\ e[a - 1] \in Nat
    BY <1>4, <2>1
  <2>3. PICK p : p = [q EXCEPT ![n] = <<e[a - 1], e[i + 1]>>]
    OBVIOUS
  <2>4. AddRow(q, e[i], e[i + 1]) = p
    <3>1. [q[n] EXCEPT ![2] = e[i + 1]] = <<e[a - 1], e[i + 1]>>
      BY <2>2
    <3>2. AddRow(q, e[i], e[i + 1]) = [q EXCEPT ![n][2] = e[i + 1]]
      BY <2>1 DEF AddRow
    <3>3. [q EXCEPT ![n][2] = e[i + 1]] = [q EXCEPT ![n] = [q[n] EXCEPT ![2] = e[i + 1]]]
      OBVIOUS
    <3> QED BY <2>3, <3>1, <3>2, <3>3
  <2>5. /\ p \in Seq(Nat \X Nat) /\ DOMAIN p = DOMAIN q /\ Len(p) = n
        /\ p[n] = <<e[a - 1], e[i + 1]>>
        /\ \A k \in DOMAIN q : k # n => p[k] = q[k]
    BY <1>2, <1>3, <2>1, <2>2, <2>3
  <2>6. ASSUME NEW c, BlockUpTo(file, i, isin, c, i) PROVE BlockUpTo(file, i + 1, isin, c, i + 1)
    <3>1. \A x \in c..(i + 1) : x \in c..i \/ x = i + 1
      BY <1>1, <2>6 DEF BlockUpTo
    <3> QED BY <1>1, <2>6, <3>1 DEF BlockUpTo
  <2>7. ASSUME NEW c, BlockUpTo(file, i + 1, isin, c, i + 1) PROVE BlockUpTo(file, i, isin, c, i)
    <3>1. c \in 1..(i + 1) /\ c - 1 \notin Rows(file, isin) /\ c..(i + 1) \subseteq Rows(file, isin)
      BY <2>7 DEF BlockUpTo
    <3>2. c # i + 1
      BY <1>1, <1>7, <3>1
    <3>3. c \in 1..i /\ i \in 1..i /\ c <= i /\ c..i \subseteq c..(i + 1)
      BY <1>1, <3>1, <3>2
    <3> QED BY <1>1, <3>1, <3>3 DEF BlockUpTo
  <2>8. ASSUME NEW k \in DOMAIN p
        PROVE  \E c, d : BlockUpTo(file, i + 1, isin, c, d) /\ p[k] = <<e[c - 1], e[d]>>
    <3>1. CASE k = n
      BY <2>2, <2>5, <2>6, <3>1
    <3>2. CASE k # n
      <4>1. PICK c, d : BlockUpTo(file, i, isin, c, d) /\ q[k] = <<e[c - 1], e[d]>> /\ q[k][2] = e[d]
                        /\ d \in 1..i
        BY <1>4, <2>5
      <4>2. q[k][2] # e[i]
        BY <2>5, <3>2 DEF RangesAt
      <4>3. d < i
        BY <1>1, <4>1, <4>2
      <4> QED BY <1>6, <2>5, <3>2, <4>1, <4>3
    <3> QED BY <3>1, <3>2
  <2>9. ASSUME NEW c, NEW d, BlockUpTo(file, i + 1, isin, c, d)
        PROVE  \E k \in DOMAIN p : p[k] = <<e[c - 1], e[d]>>
    <3>1. c \in 1..(i + 1) /\ d \in 1..(i + 1) /\ (d < i + 1 => d + 1 \notin Rows(file, isin))
      BY <2>9 DEF BlockUpTo
    <3>2. d # i
      BY <1>1, <3>1
    <3>3. CASE d = i + 1
      <4>1. BlockUpTo(file, i, isin, c, i)
        BY <2>7, <2>9, <3>3
      <4>2. PICK k \in DOMAIN q : q[k] = <<e[c - 1], e[i]>>
        BY <4>1 DEF RangesAt
      <4>3. q[k][2] = e[i] /\ q[k][1] = e[c - 1]
        BY <4>2
      <4>4. k = n
        BY <4>3 DEF RangesAt
      <4> QED BY <2>1, <2>2, <2>5, <3>3, <4>3, <4>4
    <3>4. CASE d < i
      <4>1. BlockUpTo(file, i, isin, c, d)
        BY <1>6, <2>9, <3>4
      <4>2. PICK k \in DOMAIN q : q[k] = <<e[c - 1], e[d]>>
        BY <4>1 DEF RangesAt
      <4>3. k # n
        <5>1. q[k][2] = e[d] /\ d \in 0..Len(file)
          BY <1>1, <3>1, <4>2
        <5>2. e[d] < e[i] /\ e[d] \in Nat
          BY <3>4, <5>1, EndsGrow, EndsType
        <5> QED
          <6> HIDE DEF e
          <6> QED BY <1>3, <2>1, <5>1, <5>2
      <4> QED BY <2>5, <4>2, <4>3
    <3> QED BY <1>1, <3>1, <3>2, <3>3, <3>4
  <2>10. ASSUME NEW k \in DOMAIN p, p[k][2] = e[i + 1] PROVE k = Len(p)
    <3> SUFFICES ASSUME k # n PROVE FALSE
      BY <2>5
    <3>1. PICK b2 : q[k][2] = b2 /\ b2 \in Nat /\ b2 < e[i + 1]
      BY <1>4, <2>5
    <3> HIDE DEF e
    <3> QED BY <1>3, <2>5, <2>10, <3>1
  <2>11. p # <<>> /\ p[Len(p)][2] = e[i + 1]
    BY <2>1, <2>5
  <2>12. p \in Seq(Nat \X Nat)
    BY <2>5
  <2>13. RangesAt(file, i + 1, isin, p)
    BY <2>8, <2>9, <2>10, <2>11, <2>12, Zenon DEF RangesAt
  <2> QED BY <2>4, <2>13
<1>8. CASE i \notin Rows(file, isin)
  <2>1. PICK v : v = <<e[i], e[i + 1]>>
    OBVIOUS
  <2>2. PICK p : p = Append(q, v)
    OBVIOUS
  <2>3. AddRow(q, e[i], e[i + 1]) = p
    BY <1>5, <1>8, <2>1, <2>2 DEF AddRow
  <2>4. /\ v \in Nat \X Nat /\ v[2] = e[i + 1]
    BY <1>3, <2>1
  <2>5. /\ p \in Seq(Nat \X Nat) /\ DOMAIN p = 1..(n + 1) /\ Len(p) = n + 1
        /\ p[n + 1] = v /\ \A k \in DOMAIN q : p[k] = q[k]
    BY <1>2, <2>2, <2>4
  <2>6. BlockUpTo(file, i + 1, isin, i + 1, i + 1) /\ (i + 1) - 1 = i
    <3>1. \A x \in (i + 1)..(i + 1) : x = i + 1
      BY <1>1
    <3> QED BY <1>1, <1>8, <3>1 DEF BlockUpTo
  <2>7. ASSUME NEW c, NEW d, BlockUpTo(file, i, isin, c, d) PROVE d < i
    BY <1>1, <1>8, <2>7 DEF BlockUpTo
  <2>8. ASSUME NEW k \in DOMAIN p
        PROVE  \E c, d : BlockUpTo(file, i + 1, isin, c, d) /\ p[k] = <<e[c - 1], e[d]>>
    <3>1. CASE k = n + 1
      BY <2>1, <2>5, <2>6, <3>1
    <3>2. CASE k # n + 1
      <4>1. k \in DOMAIN q
        BY <1>2, <2>5, <3>2
      <4>2. PICK c, d : BlockUpTo(file, i, isin, c, d) /\ q[k] = <<e[c - 1], e[d]>>
        BY <1>4, <4>1
      <4> QED BY <1>6, <2>5, <2>7, <4>1, <4>2
    <3> QED BY <3>1, <3>2
  <2>9. ASSUME NEW c, NEW d, BlockUpTo(file, i + 1, isin, c, d)
        PROVE  \E k \in DOMAIN p : p[k] = <<e[c - 1], e[d]>>
    <3>1. /\ c \in 1..(i + 1) /\ d \in 1..(i + 1) /\ c <= d
          /\ (d < i + 1 => d + 1 \notin Rows(file, isin))
          /\ c..d \subseteq Rows(file, isin)
      BY <2>9 DEF BlockUpTo
    <3>2. d # i
      BY <1>1, <3>1
    <3>3. CASE d = i + 1
      <4>1. i \notin c..d
        BY <1>8, <3>1
      <4>2. c = i + 1
        BY <1>1, <3>1, <3>3, <4>1
      <4>3. n + 1 \in DOMAIN p /\ p[n + 1] = <<e[c - 1], e[d]>>
        BY <1>1, <1>2, <2>1, <2>5, <3>3, <4>2
      <4> QED BY <4>3
    <3>4. CASE d < i
      <4>1. BlockUpTo(file, i, isin, c, d)
        BY <1>6, <2>9, <3>4
      <4>2. PICK k \in DOMAIN q : q[k] = <<e[c - 1], e[d]>>
        BY <4>1 DEF RangesAt
      <4>3. k \in DOMAIN p
        BY <1>2, <2>5
      <4>4. p[k] = q[k]
        BY <2>5
      <4> QED BY <4>2, <4>3, <4>4
    <3> QED BY <1>1, <3>1, <3>2, <3>3, <3>4
  <2>10. ASSUME NEW k \in DOMAIN p, p[k][2] = e[i + 1] PROVE k = Len(p)
    <3> SUFFICES ASSUME k # n + 1 PROVE FALSE
      BY <2>5
    <3>1. k \in DOMAIN q
      BY <1>2, <2>5
    <3>2. PICK b2 : q[k][2] = b2 /\ b2 \in Nat /\ b2 < e[i + 1]
      BY <1>4, <3>1
    <3> HIDE DEF e
    <3> QED BY <1>3, <2>5, <2>10, <3>1, <3>2
  <2>11. p # <<>> /\ p[Len(p)][2] = e[i + 1]
    BY <1>2, <2>4, <2>5
  <2>12. p \in Seq(Nat \X Nat)
    BY <2>5
  <2>13. RangesAt(file, i + 1, isin, p)
    BY <2>8, <2>9, <2>10, <2>11, <2>12, Zenon DEF RangesAt
  <2> QED BY <2>3, <2>13
<1> QED BY <1>7, <1>8

-----------------------------------------------------------------------------
\* After every row the index has the ranges of the rows written so far.
LEMMA RangesWritten ==
    ASSUME NEW file, Lines(file), NEW isins, \A i \in DOMAIN file : file[i].isin \in isins,
           NEW isin \in isins
    PROVE  /\ DOMAIN WrittenRanges(file, isins) = isins
           /\ RangesAt(file, Len(file), isin, WrittenRanges(file, isins)[isin])
<1>1. PICK f : /\ Writes(f, file, isins, Len(file))
               /\ WrittenRanges(file, isins) = f[Len(file)].ranges
  BY WritesExist
<1>2. Len(file) \in Nat /\ DOMAIN file = 1..Len(file)
  BY DEF Lines
<1> DEFINE Right(i) == /\ f[i].size = Ends(file)[i]
                       /\ DOMAIN f[i].ranges = isins
                       /\ f[i].ranges = [x \in isins |-> f[i].ranges[x]]
                       /\ \A x \in isins : RangesAt(file, i, x, f[i].ranges[x])
           S == {i \in 0..Len(file) : Right(i)}
<1>3. /\ f[0] = NothingWritten(isins)
      /\ \A i \in 1..Len(file) : f[i] = WriteRow(f[i - 1], file[i])
  <2>1. f = [i \in 0..Len(file) |-> IF i = 0 THEN NothingWritten(isins)
                                    ELSE WriteRow(f[i - 1], file[i])]
    BY <1>1 DEF Writes
  <2> QED BY <1>2, <2>1
<1>4. 0 \in S
  <2>1. f[0].size = 0 /\ f[0].ranges = [x \in isins |-> <<>>]
    BY <1>3 DEF NothingWritten
  <2>2. ASSUME NEW x \in isins PROVE RangesAt(file, 0, x, <<>>)
    <3>1. \A a, b : ~BlockUpTo(file, 0, x, a, b)
      BY DEF BlockUpTo
    <3>2. 0 \notin Rows(file, x)
      BY <1>2 DEF Rows
    <3>3. <<>> \in Seq(Nat \X Nat) /\ DOMAIN <<>> = {}
      OBVIOUS
    <3> QED BY <3>1, <3>2, <3>3 DEF RangesAt
  <2>3. Ends(file)[0] = 0
    BY EndsStep
  <2>4. Right(0)
    BY <2>1, <2>2, <2>3
  <2> QED BY <1>2, <2>4
<1>5. ASSUME NEW i \in 0..Len(file), i \in S, i < Len(file) PROVE i + 1 \in S
  <2>1. i + 1 \in 1..Len(file) /\ (i + 1) - 1 = i
    BY <1>2, <1>5
  <2>2. PICK row, old, rest : row = file[i + 1] /\ old = f[i] /\ rest = f[i].ranges
    OBVIOUS
  <2>3. /\ old.size = Ends(file)[i] /\ old.ranges = rest /\ DOMAIN rest = isins
        /\ rest = [x \in isins |-> rest[x]]
        /\ \A x \in isins : RangesAt(file, i, x, rest[x])
    BY <1>5, <2>2
  <2>4. Ends(file)[i + 1] = Ends(file)[i] + row.len
    BY <2>1, <2>2, EndsStep
  <2>5. row.isin \in isins
    BY <1>2, <2>1, <2>2
  <2>6. PICK joined : joined = AddRow(rest[row.isin], Ends(file)[i], Ends(file)[i + 1])
    OBVIOUS
  <2>7. f[i + 1] = [size |-> Ends(file)[i + 1], ranges |-> [rest EXCEPT ![row.isin] = joined]]
    <3>1. f[i + 1] = WriteRow(old, row)
      BY <1>3, <2>1, <2>2
    <3>2. WriteRow(old, row) =
            [size |-> old.size + row.len,
             ranges |-> [rest EXCEPT ![row.isin] = AddRow(@, old.size, old.size + row.len)]]
      BY <2>3 DEF WriteRow
    <3>3. [rest EXCEPT ![row.isin] = AddRow(@, old.size, old.size + row.len)]
            = [rest EXCEPT ![row.isin] = joined]
      BY <2>3, <2>4, <2>6
    <3>4. old.size + row.len = Ends(file)[i + 1]
      BY <2>3, <2>4
    <3> QED BY <3>1, <3>2, <3>3, <3>4
  <2>8. PICK next : next = [rest EXCEPT ![row.isin] = joined]
    OBVIOUS
  <2>9. /\ DOMAIN next = isins /\ next = [x \in isins |-> next[x]] /\ next[row.isin] = joined
        /\ \A x \in isins : x # row.isin => next[x] = rest[x]
    BY <2>3, <2>5, <2>8
  <2>10. f[i + 1].size = Ends(file)[i + 1] /\ f[i + 1].ranges = next
    BY <2>7, <2>8
  <2>11. ASSUME NEW x \in isins PROVE RangesAt(file, i + 1, x, next[x])
    <3>1. RangesAt(file, i, x, rest[x])
      BY <2>3
    <3>2. i + 1 \in Rows(file, x) <=> x = row.isin
      BY <1>2, <2>1, <2>2 DEF Rows
    <3>3. CASE x = row.isin
      <4>1. RangesAt(file, i + 1, x, AddRow(rest[x], Ends(file)[i], Ends(file)[i + 1]))
        BY <1>5, <3>1, <3>2, <3>3, OwnRow
      <4> QED BY <2>6, <2>9, <3>3, <4>1
    <3>4. CASE x # row.isin
      <4>1. RangesAt(file, i + 1, x, rest[x])
        BY <1>5, <3>1, <3>2, <3>4, OtherRow
      <4> QED BY <2>9, <3>4, <4>1
    <3> QED BY <3>3, <3>4
  <2>12. Right(i + 1)
    BY <2>9, <2>10, <2>11
  <2>13. i + 1 \in 0..Len(file)
    BY <1>2, <2>1
  <2> QED BY <2>12, <2>13
<1>6. Len(file) \in S
  <2> HIDE DEF S
  <2>1. 0..Len(file) \subseteq S
    BY <1>2, <1>4, <1>5, UpTo
  <2> QED BY <1>2, <2>1
<1>7. Right(Len(file))
  BY <1>6
<1> QED BY <1>1, <1>7

\* The index and the scan of the finished file agree.
LEMMA IndexIsScan ==
    ASSUME NEW file, Lines(file), NEW isins, \A i \in DOMAIN file : file[i].isin \in isins,
           NEW isin \in isins
    PROVE  RangesOf(WrittenRanges(file, isins), isin) = BuildQuoteRanges(file, isin)
<1>1. PICK q : q = WrittenRanges(file, isins)[isin] /\ RangesAt(file, Len(file), isin, q)
  BY RangesWritten
<1>2. Len(file) \in Nat /\ DOMAIN file = 1..Len(file)
  BY DEF Lines
<1>3. \A a, b : BlockUpTo(file, Len(file), isin, a, b) <=> Block(file, isin, a, b)
  <2>1. Len(file) + 1 \notin Rows(file, isin)
    BY <1>2 DEF Rows
  <2> QED BY <1>2, <2>1 DEF BlockUpTo, Block
<1>4. RangesOf(WrittenRanges(file, isins), isin) = {q[k] : k \in DOMAIN q}
  BY <1>1 DEF RangesOf
<1>5. ASSUME NEW range \in BuildQuoteRanges(file, isin) PROVE \E k \in DOMAIN q : q[k] = range
  <2>1. PICK a, b : Block(file, isin, a, b) /\ range = <<Ends(file)[a - 1], Ends(file)[b]>>
    BY RangesAreBlocks
  <2> QED BY <1>1, <1>3, <2>1 DEF RangesAt
<1>6. ASSUME NEW k \in DOMAIN q PROVE q[k] \in BuildQuoteRanges(file, isin)
  <2>1. PICK a, b : /\ BlockUpTo(file, Len(file), isin, a, b)
                    /\ q[k] = <<Ends(file)[a - 1], Ends(file)[b]>>
    BY <1>1 DEF RangesAt
  <2> QED BY <1>3, <2>1, RangesAreBlocks
<1> QED BY <1>4, <1>5, <1>6

\* A range of a file begins at one of its lines and ends within it.
LEMMA RangesFit ==
    ASSUME NEW file, Lines(file), NEW isin, NEW range \in BuildQuoteRanges(file, isin)
    PROVE  ~StartsInsideRow(file, range) /\ ~OverrunsFile(file, range)
<1>1. PICK a, b : Block(file, isin, a, b) /\ range = <<Ends(file)[a - 1], Ends(file)[b]>>
  BY RangesAreBlocks
<1>2. /\ range[1] = Ends(file)[a - 1] /\ range[2] = Ends(file)[b] /\ a \in DOMAIN file
      /\ b \in 0..Len(file) /\ Len(file) \in 0..Len(file) /\ b <= Len(file)
  BY <1>1 DEF Block, Lines
<1>3. Ends(file)[b] <= Ends(file)[Len(file)] /\ Ends(file)[b] \in Nat
      /\ Ends(file)[Len(file)] \in Nat
  BY <1>2, EndsGrow, EndsType
<1> QED BY <1>2, <1>3 DEF StartsInsideRow, OverrunsFile, Size

\* What is looked up in the index are the rows asked for.
LEMMA IndexSelects ==
    ASSUME NEW file, Lines(file), NEW isins, \A i \in DOMAIN file : file[i].isin \in isins
    PROVE  IndexSelectsExactly(file, WrittenRanges(file, isins))
<1>1. PICK ranges : ranges = WrittenRanges(file, isins)
  OBVIOUS
<1>2. ASSUME NEW isin \in isins
      PROVE  /\ DOMAIN ranges = isins
             /\ RangesOf(ranges, isin) = BuildQuoteRanges(file, isin)
             /\ UNION {RowsInRange(file, r) : r \in RangesOf(ranges, isin)} = Rows(file, isin)
             /\ \A r \in RangesOf(ranges, isin) : ~StartsInsideRow(file, r) /\ ~OverrunsFile(file, r)
  <2>1. DOMAIN ranges = isins
    BY <1>1, RangesWritten
  <2>2. RangesOf(ranges, isin) = BuildQuoteRanges(file, isin)
    BY <1>1, IndexIsScan
  <2> QED BY <2>1, <2>2, RangesSelect, RangesFit
<1>3. isins = {} => DOMAIN ranges = {}
  <2> SUFFICES ASSUME isins = {} PROVE DOMAIN ranges = {}
    OBVIOUS
  <2>1. Len(file) = 0
    BY DEF Lines
  <2>2. PICK f : Writes(f, file, isins, Len(file)) /\ ranges = f[Len(file)].ranges
    BY <1>1, WritesExist
  <2>3. f = [i \in 0..0 |-> IF i = 0 THEN NothingWritten(isins) ELSE WriteRow(f[i - 1], file[i])]
    BY <2>1, <2>2 DEF Writes
  <2>4. f[0] = NothingWritten(isins)
    BY <2>3
  <2> QED BY <2>1, <2>2, <2>4 DEF NothingWritten
<1>4. DOMAIN ranges = isins
  BY <1>2, <1>3
<1> QED BY <1>1, <1>2, <1>4 DEF IndexSelectsExactly

-----------------------------------------------------------------------------
\* The order in which the rows come from the database.
Ordered(file) ==
    /\ \A i \in DOMAIN file : file[i].isin \in Nat /\ file[i].exchange \in Nat /\ file[i].day \in Nat
    /\ \A i, j \in DOMAIN file : i < j => RowPrecedes(file[i], file[j])

\* Days between which all of a set lie, taken from it, have its span.
LEMMA SameSpan ==
    ASSUME NEW some, NEW all, some \subseteq all, all \subseteq Nat,
           \A d \in all : \E low, high \in some : low <= d /\ d <= high
    PROVE  Span(some) = Span(all)
<1>1. ASSUME NEW d \in Span(all) PROVE d \in Span(some)
  <2>1. d \in all /\ ((\A e \in all : d <= e) \/ (\A e \in all : e <= d))
    BY DEF Span
  <2>2. PICK low \in some, high \in some : low <= d /\ d <= high
    BY <2>1
  <2>3. d \in some
    <3>1. low \in Nat /\ high \in Nat /\ d \in Nat /\ low \in all /\ high \in all
      BY <2>1
    <3>2. CASE \A e \in all : d <= e
      <4>1. d = low
        BY <2>2, <3>1, <3>2
      <4> QED BY <4>1
    <3>3. CASE \A e \in all : e <= d
      <4>1. d = high
        BY <2>2, <3>1, <3>3
      <4> QED BY <4>1
    <3> QED BY <2>1, <3>2, <3>3
  <2> QED BY <2>1, <2>3 DEF Span
<1>2. ASSUME NEW d \in Span(some) PROVE d \in Span(all)
  <2>1. d \in some /\ ((\A e \in some : d <= e) \/ (\A e \in some : e <= d))
    BY DEF Span
  <2>2. CASE \A e \in some : d <= e
    <3>1. ASSUME NEW x \in all PROVE d <= x
      <4>1. PICK low \in some : low <= x
        OBVIOUS
      <4> QED BY <2>1, <2>2, <4>1
    <3> QED BY <2>1, <3>1 DEF Span
  <2>3. CASE \A e \in some : e <= d
    <3>1. ASSUME NEW x \in all PROVE x <= d
      <4>1. PICK high \in some : x <= high
        OBVIOUS
      <4> QED BY <2>1, <2>3, <4>1
    <3> QED BY <2>1, <3>1 DEF Span
  <2> QED BY <2>1, <2>2, <2>3
<1> QED BY <1>1, <1>2

\* A row lies between the first and the last of its block, and so does its day.
LEMMA DateRanges ==
    ASSUME NEW file, Lines(file), Ordered(file), NEW isins,
           \A i \in DOMAIN file : file[i].isin \in isins,
           NEW wanted, \A l \in wanted : l[1] \in isins
    PROVE  DateRangeOfSoleListings(file, WrittenRanges(file, isins), wanted)
<1> DEFINE ranges == WrittenRanges(file, isins)
           some == SampledDays(file, ranges, wanted)
           all == QuotedDays(file, wanted)
<1> SUFFICES ASSUME \A l \in wanted : OfListing(file, l) = Rows(file, l[1])
             PROVE  Span(some) = Span(all)
  BY DEF DateRangeOfSoleListings
<1>1. some \subseteq all
  BY DEF SampledDays, QuotedDays
<1>2. all \subseteq Nat
  BY DEF QuotedDays, OfListing, Ordered
<1>3. ASSUME NEW d \in all PROVE \E low, high \in some : low <= d /\ d <= high
  <2>1. PICK l \in wanted : \E i \in OfListing(file, l) : d = file[i].day
    BY DEF QuotedDays
  <2>2. PICK i \in OfListing(file, l) : d = file[i].day
    BY <2>1
  <2>3. i \in Rows(file, l[1])
    BY <2>2
  <2>4. PICK a, b : Block(file, l[1], a, b) /\ a <= i /\ i <= b
    BY <2>3, RowInBlock
  <2>5. /\ a \in DOMAIN file /\ b \in DOMAIN file /\ i \in DOMAIN file /\ DOMAIN file = 1..Len(file)
        /\ a \in a..b /\ b \in a..b
    BY <2>3, <2>4 DEF Block, Rows, Lines
  <2>6. a \in OfListing(file, l) /\ b \in OfListing(file, l)
    BY <2>4, <2>5 DEF Block
  <2>7. \A x, y \in OfListing(file, l) : x < y => file[x].day < file[y].day
    BY DEF OfListing, Ordered, RowPrecedes
  <2>8. file[a].day <= d /\ d <= file[b].day
    <3>1. file[a].day \in Nat /\ file[b].day \in Nat /\ d \in Nat
      BY <2>2, <2>5 DEF Ordered
    <3>2. a < i => file[a].day < d
      BY <2>2, <2>6, <2>7
    <3>3. i < b => d < file[b].day
      BY <2>2, <2>6, <2>7
    <3>4. (a < i \/ a = i) /\ (i < b \/ i = b)
      BY <2>4, <2>5 DEF Lines
    <3> QED BY <2>2, <3>1, <3>2, <3>3, <3>4
  <2>9. file[a].day \in some /\ file[b].day \in some
    <3>1. PICK range : range = <<Ends(file)[a - 1], Ends(file)[b]>>
      OBVIOUS
    <3>2. range \in RangesOf(ranges, l[1])
      BY <2>4, <3>1, RangesAreBlocks, IndexIsScan
    <3>3. Ends(file)[a - 1] = range[1] /\ Ends(file)[b] = range[2]
      BY <3>1
    <3> HIDE DEF ranges
    <3> QED BY <2>6, <3>2, <3>3 DEF SampledDays
  <2> QED BY <2>8, <2>9
<1> HIDE DEF some, all
<1> QED BY <1>1, <1>2, <1>3, SameSpan

\* The index the refresh writes, row by row, is the one a scan of the finished file finds;
\* seeking to it returns the rows of an ISIN and no other, and the first and last row of each
\* range give the dates of sole listings.  For every file in the order of the query.
THEOREM QuoteIndexesAreSound ==
    ASSUME NEW file, Lines(file), Ordered(file), NEW isins, NEW exchanges,
           \A i \in DOMAIN file : file[i].isin \in isins
    PROVE  IndexIsSound(file, isins, exchanges)
<1>1. IndexSelectsExactly(file, WrittenRanges(file, isins))
  BY IndexSelects
<1>2. ASSUME NEW wanted \in SUBSET (isins \X exchanges)
      PROVE  DateRangeOfSoleListings(file, WrittenRanges(file, isins), wanted)
  <2>1. \A l \in wanted : l[1] \in isins
    OBVIOUS
  <2> QED BY <2>1, DateRanges
<1> QED BY <1>1, <1>2 DEF IndexIsSound

=============================================================================
