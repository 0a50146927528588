----------------------- MODULE SharedConnection_proofs -----------------------
(***************************************************************************)
(* What a connection without autocommit still gives to the threads that    *)
(* share it, for any number of threads, writes, inserts and errors: items  *)
(* never without their manifest, nothing acknowledged lost while no        *)
(* statement fails, and transactions for a thread that writes alone.       *)
(***************************************************************************)
EXTENDS SharedConnection, TLAPS

Pcs == {"idle", "insert", "commit", "rollback"}
ThreadType == [pc : Pcs, write : Nat, part : Nat, since : Nat]

Has(rowset, t, w, p) == \E row \in rowset : row.by = t /\ row.write = w /\ row.part = p

ConnectionType ==
    /\ began \in Nat /\ clock \in Nat /\ errors \in Nat /\ aborted \in BOOLEAN
    /\ thread \in [Threads -> ThreadType]
    /\ outcome \in [Threads -> [Writes -> {"none", "saved", "error"}]]
    /\ \A row \in open \cup table : row.part \in Parts
    /\ \A t \in Threads :
          /\ thread[t].pc # "idle" => thread[t].write \in Writes
          /\ thread[t].pc = "insert" => thread[t].part \in Parts
          /\ thread[t].pc = "commit" => thread[t].part = Inserts + 1

\* A row comes after the first of its write, and is committed with or after it.
FirstsCome ==
    /\ \A row \in table : Has(table, row.by, row.write, 1)
    /\ \A row \in open : Has(open \cup table, row.by, row.write, 1)

\* Without an error nobody rolls back, and what a write has inserted stays.
NothingIsLost ==
    errors = 0 =>
        /\ ~aborted
        /\ \A t \in Threads :
              /\ thread[t].pc # "rollback"
              /\ thread[t].pc \in {"insert", "commit"} =>
                    \A p \in 1..(thread[t].part - 1) : Has(open \cup table, t, thread[t].write, p)
              /\ \A w \in Writes : outcome[t][w] = "saved" =>
                    \A p \in Parts : Has(table, t, w, p)

\* The open transaction is that of the only writer.
Lone(t) == \A u \in Threads \ {t} : thread[u].write = 0

OwnTransaction(t) ==
    /\ \A row \in open : row.by = t /\ row.write = thread[t].write
    /\ thread[t].pc = "idle" => open = {} /\ ~aborted
    /\ thread[t].pc \in {"insert", "commit"} =>
          ~aborted /\ \A p \in 1..(thread[t].part - 1) : Has(open, t, thread[t].write, p)
    /\ thread[t].pc # "idle" => outcome[t][thread[t].write] = "none"
    /\ \A w \in Writes :
          /\ w > thread[t].write => outcome[t][w] = "none"
          /\ outcome[t][w] = "saved" => \A p \in Parts : Has(table, t, w, p)
          /\ outcome[t][w] # "saved" => \A p \in Parts : ~Has(table, t, w, p)

LoneWriters == \A t \in Threads : Lone(t) => OwnTransaction(t)

ConnectionInv == ConnectionType /\ FirstsCome /\ NothingIsLost /\ LoneWriters

-----------------------------------------------------------------------------
LEMMA ConnectionInitially == ConnectionInit => ConnectionInv
<1> SUFFICES ASSUME ConnectionInit PROVE ConnectionInv
  OBVIOUS
<1>1. ConnectionType
  BY DEF ConnectionInit, ConnectionType, ThreadType, Pcs
<1> QED
  BY <1>1 DEF ConnectionInit, ConnectionInv, FirstsCome, NothingIsLost, LoneWriters, OwnTransaction, Has, Writes

LEMMA PartsAreNumbers == Parts \subseteq Nat /\ 1 \in Parts /\ Inserts \in Nat /\ Writes \subseteq Nat \ {0}
BY SharedConnectionAssumption DEF Parts, Writes

LEMMA NowIsTime == ConnectionType => Now \in Nat
BY DEF ConnectionType, Now

\* A thread that is in the middle of a write is alone or there is no lone one.
LEMMA BusyIsLone ==
    ASSUME ConnectionInv, NEW t \in Threads, thread[t].pc # "idle", NEW u \in Threads, Lone(u)
    PROVE  u = t /\ OwnTransaction(t)
<1>1. thread[t].write # 0
  BY PartsAreNumbers DEF ConnectionInv, ConnectionType
<1> QED
  BY <1>1 DEF Lone, ConnectionInv, LoneWriters

\* Threads write more, never less.
LEMMA LoneBefore ==
    ASSUME \A u \in Threads : thread'[u].write = 0 => thread[u].write = 0,
           NEW t \in Threads, Lone(t)'
    PROVE  Lone(t)
BY DEF Lone

LEMMA BeginWritePreserves ==
    ASSUME ConnectionInv, NEW t \in Threads, BeginWrite(t)
    PROVE  ConnectionInv'
<1> DEFINE fresh == [pc |-> "insert", write |-> thread[t].write + 1, part |-> 1, since |-> clock]
<1>1. /\ thread[t].pc = "idle" /\ thread[t].write < MaxWrites
      /\ thread' = [thread EXCEPT ![t] = fresh]
      /\ UNCHANGED <<began, aborted, open, table, outcome, clock, errors>>
  BY DEF BeginWrite, connection
<1>2. thread[t] \in ThreadType /\ thread[t].write \in Nat /\ clock \in Nat
  BY DEF ConnectionInv, ConnectionType, ThreadType
<1>3. /\ fresh \in ThreadType /\ fresh.pc = "insert" /\ fresh.part = 1
      /\ fresh.write = thread[t].write + 1 /\ fresh.write \in Writes
  <2>1. thread[t].write + 1 \in Nat /\ thread[t].write + 1 \in Writes
    BY <1>1, <1>2, SharedConnectionAssumption DEF Writes
  <2> QED
    BY <2>1, <1>2 DEF ThreadType, Pcs
<1> HIDE DEF fresh
<1>4. \A u \in Threads : thread'[u] = IF u = t THEN fresh ELSE thread[u]
  BY <1>1 DEF ConnectionInv, ConnectionType
<1>5. ConnectionType'
  BY <1>1, <1>3, <1>4, PartsAreNumbers DEF ConnectionInv, ConnectionType
<1>6. FirstsCome'
  BY <1>1 DEF ConnectionInv, FirstsCome, Has
<1>7. NothingIsLost'
  BY <1>1, <1>3, <1>4 DEF ConnectionInv, NothingIsLost, Has
<1>8. LoneWriters'
  <2> SUFFICES ASSUME NEW u \in Threads, Lone(u)' PROVE OwnTransaction(u)'
    BY DEF LoneWriters
  <2>1. u = t
    BY <1>3, <1>4, PartsAreNumbers DEF Lone
  <2>2. Lone(t)
    BY <2>1, <1>4 DEF Lone
  <2>3. OwnTransaction(t)
    BY <2>2 DEF ConnectionInv, LoneWriters
  <2>4. thread'[t] = fresh /\ fresh.write > thread[t].write
    BY <1>2, <1>3, <1>4
  <2>5. \A w \in Writes : w > fresh.write => w > thread[t].write
    BY <1>2, <1>3, PartsAreNumbers
  <2> QED
    BY <2>1, <2>3, <2>4, <2>5, <1>1, <1>3 DEF OwnTransaction, Has
<1> QED
  BY <1>5, <1>6, <1>7, <1>8 DEF ConnectionInv

LEMMA InsertPreserves ==
    ASSUME ConnectionInv, NEW t \in Threads, Insert(t)
    PROVE  ConnectionInv'
<1> DEFINE w == thread[t].write
           p == thread[t].part
           row == PartRow(t, w, p, Now)
           next == [thread[t] EXCEPT !.pc = IF p = Inserts THEN "commit" ELSE "insert", !.part = @ + 1]
<1>1. /\ thread[t].pc = "insert" /\ ~aborted /\ (p > 1 => HasFirst(t))
      /\ began' = Now /\ open' = open \cup {row}
      /\ thread' = [thread EXCEPT ![t] = next]
      /\ UNCHANGED <<aborted, table, outcome, clock, errors>>
  BY DEF Insert
<1>2. thread[t] \in ThreadType /\ w \in Writes /\ p \in Parts /\ p \in Nat /\ p + 1 \in Nat
  BY <1>1, PartsAreNumbers DEF ConnectionInv, ConnectionType, ThreadType
<1>3. row.by = t /\ row.write = w /\ row.part = p
  BY DEF PartRow
<1>4. /\ next \in ThreadType /\ next.write = w /\ next.part = p + 1 /\ next.pc \in {"insert", "commit"}
      /\ next.pc = "commit" => p + 1 = Inserts + 1
      /\ next.pc = "insert" => p + 1 \in Parts
  <2>1. p # Inserts => p + 1 \in Parts
    BY <1>2, SharedConnectionAssumption DEF Parts
  <2> QED
    BY <2>1, <1>2 DEF ThreadType, Pcs
<1>5. \A u \in Threads : thread'[u] = IF u = t THEN next ELSE thread[u]
  BY <1>1 DEF ConnectionInv, ConnectionType
<1>6. \A u, v, q : Has(open \cup table, u, v, q) => Has(open' \cup table', u, v, q)
  BY <1>1 DEF Has
<1>7. Has(open', t, w, p) /\ \A u, v, q : Has(open, u, v, q) => Has(open', u, v, q)
  BY <1>1, <1>3 DEF Has
<1>8. \A q \in 1..p : q \in 1..(p - 1) \/ q = p
  BY <1>2
<1> HIDE DEF row, next
<1>9. ConnectionType'
  BY <1>1, <1>2, <1>3, <1>4, <1>5, NowIsTime DEF ConnectionInv, ConnectionType
<1>10. FirstsCome'
  <2>1. Has(open' \cup table', t, w, 1)
    <3>1. CASE p = 1
      BY <3>1, <1>7 DEF Has
    <3>2. CASE p > 1
      BY <3>2, <1>1, <1>6 DEF HasFirst, Visible, Has
    <3> QED
      BY <3>1, <3>2, <1>2 DEF Parts
  <2> QED
    BY <2>1, <1>1, <1>3, <1>6 DEF ConnectionInv, FirstsCome
<1>11. NothingIsLost'
  <2> SUFFICES ASSUME errors = 0
               PROVE  /\ ~aborted
                      /\ \A u \in Threads :
                            /\ thread'[u].pc # "rollback"
                            /\ thread'[u].pc \in {"insert", "commit"} =>
                                  \A q \in 1..(thread'[u].part - 1) :
                                      Has(open' \cup table', u, thread'[u].write, q)
                            /\ \A v \in Writes : outcome[u][v] = "saved" =>
                                  \A q \in Parts : Has(table, u, v, q)
    BY <1>1 DEF NothingIsLost
  <2>1. \A q \in 1..p : Has(open' \cup table', t, w, q)
    BY <1>1, <1>6, <1>7, <1>8 DEF ConnectionInv, NothingIsLost, Has
  <2>2. next.part - 1 = p
    BY <1>2, <1>4
  <2> QED
    BY <2>1, <2>2, <1>1, <1>4, <1>5, <1>6 DEF ConnectionInv, NothingIsLost
<1>12. LoneWriters'
  <2> SUFFICES ASSUME NEW u \in Threads, Lone(u)' PROVE OwnTransaction(u)'
    BY DEF LoneWriters
  <2>1. Lone(u)
    BY <1>4, <1>5 DEF Lone
  <2>2. u = t /\ OwnTransaction(t)
    BY <2>1, <1>1, BusyIsLone
  <2>3. thread'[t] = next /\ next.part - 1 = p /\ next.pc # "idle"
    BY <1>2, <1>4, <1>5
  <2>4. \A q \in 1..p : Has(open', t, w, q)
    BY <2>2, <1>1, <1>7, <1>8 DEF OwnTransaction
  <2>5. \A r \in open' : r.by = t /\ r.write = w
    BY <2>2, <1>1, <1>3 DEF OwnTransaction
  <2> QED
    BY <2>2, <2>3, <2>4, <2>5, <1>1, <1>4 DEF OwnTransaction, Has
<1> QED
  BY <1>9, <1>10, <1>11, <1>12 DEF ConnectionInv

\* A thread that goes on with its write without inserting: its place changes, and
\* the rest of the argument is what becomes of the transaction.
LEMMA PlaceMoves ==
    ASSUME ConnectionInv, NEW t \in Threads, NEW pc \in {"idle", "rollback"}, thread[t].pc # "idle",
           thread' = [thread EXCEPT ![t].pc = pc]
    PROVE  /\ thread' \in [Threads -> ThreadType]
           /\ thread'[t].pc = pc /\ thread'[t].write = thread[t].write
           /\ \A u \in Threads : /\ thread'[u].write = thread[u].write
                                 /\ u # t => thread'[u] = thread[u]
           /\ \A u \in Threads : Lone(u)' => u = t /\ OwnTransaction(t)
<1>1. thread[t] \in ThreadType
  BY DEF ConnectionInv, ConnectionType
<1>2. /\ thread' \in [Threads -> ThreadType]
      /\ thread'[t].pc = pc /\ thread'[t].write = thread[t].write
      /\ \A u \in Threads : thread'[u].write = thread[u].write /\ (u # t => thread'[u] = thread[u])
  BY <1>1 DEF ConnectionInv, ConnectionType, ThreadType, Pcs
<1>3. \A u \in Threads : Lone(u)' => Lone(u)
  BY <1>2 DEF Lone
<1> QED
  BY <1>2, <1>3, BusyIsLone

LEMMA InsertFailsPreserves ==
    ASSUME ConnectionInv, NEW t \in Threads, InsertFails(t)
    PROVE  ConnectionInv'
<1>1. /\ thread[t].pc = "insert" /\ began' = Now /\ aborted' = TRUE
      /\ thread' = [thread EXCEPT ![t].pc = "rollback"]
      /\ UNCHANGED <<open, table, outcome, clock>>
      /\ errors' \in Nat
      /\ errors' # 0 \/ (errors = 0 /\ (aborted \/ (thread[t].part > 1 /\ ~HasFirst(t))))
  BY DEF InsertFails, ConnectionInv, ConnectionType
<1>2. /\ thread' \in [Threads -> ThreadType]
      /\ thread'[t].pc = "rollback" /\ thread'[t].write = thread[t].write
      /\ \A u \in Threads : u # t => thread'[u] = thread[u]
      /\ \A u \in Threads : Lone(u)' => u = t /\ OwnTransaction(t)
  BY <1>1, PlaceMoves
<1>3. ConnectionType'
  BY <1>1, <1>2, NowIsTime DEF ConnectionInv, ConnectionType
<1>4. FirstsCome'
  BY <1>1 DEF ConnectionInv, FirstsCome, Has
<1>5. errors' # 0
  <2>1. thread[t].part \in Nat
    BY DEF ConnectionInv, ConnectionType, ThreadType
  <2>2. errors = 0 /\ thread[t].part > 1 => HasFirst(t)
    <3> SUFFICES ASSUME errors = 0, thread[t].part > 1 PROVE HasFirst(t)
      OBVIOUS
    <3>1. 1 \in 1..(thread[t].part - 1)
      BY <2>1
    <3>2. Has(open \cup table, t, thread[t].write, 1)
      BY <3>1, <1>1 DEF ConnectionInv, NothingIsLost
    <3> QED
      BY <3>2 DEF HasFirst, Visible, Has
  <2> QED
    BY <2>2, <1>1 DEF ConnectionInv, NothingIsLost
<1>6. LoneWriters'
  BY <1>1, <1>2 DEF LoneWriters, OwnTransaction, Has
<1> QED
  BY <1>3, <1>4, <1>5, <1>6 DEF ConnectionInv, NothingIsLost

\* The write of a thread ends: its transaction is committed or rolled back.
LEMMA EndingPreserves ==
    ASSUME ConnectionInv, NEW t \in Threads, NEW result \in {"saved", "error"},
           thread[t].pc # "idle", result = "saved" => thread[t].pc = "commit",
           result = "error" => thread[t].pc = "rollback",
           open' = {}, aborted' = FALSE, began' = 0, UNCHANGED <<clock, errors>>,
           table' = IF result = "error" \/ aborted THEN table ELSE table \cup open,
           thread' = [thread EXCEPT ![t].pc = "idle"],
           outcome' = [outcome EXCEPT ![t][thread[t].write] = result]
    PROVE  ConnectionInv'
<1> DEFINE w == thread[t].write
<1>1. /\ thread' \in [Threads -> ThreadType]
      /\ thread'[t].pc = "idle" /\ thread'[t].write = w
      /\ \A u \in Threads : u # t => thread'[u] = thread[u]
      /\ \A u \in Threads : Lone(u)' => u = t /\ OwnTransaction(t)
  BY PlaceMoves
<1>2. w \in Writes /\ (result = "saved" => thread[t].part = Inserts + 1)
  BY DEF ConnectionInv, ConnectionType
<1>3. /\ outcome' \in [Threads -> [Writes -> {"none", "saved", "error"}]]
      /\ \A u \in Threads, v \in Writes :
            outcome'[u][v] = IF u = t /\ v = w THEN result ELSE outcome[u][v]
  BY <1>2 DEF ConnectionInv, ConnectionType
<1>4. ConnectionType'
  BY <1>1, <1>3 DEF ConnectionInv, ConnectionType
<1>5. FirstsCome'
  BY DEF ConnectionInv, FirstsCome, Has
<1>6. \A u, v, q : Has(table, u, v, q) => Has(table', u, v, q)
  BY DEF Has
<1>7. result = "saved" => 1..(thread[t].part - 1) = Parts
  BY <1>2, PartsAreNumbers DEF Parts
<1>8. NothingIsLost'
  <2> SUFFICES ASSUME errors = 0 PROVE NothingIsLost'
    BY DEF NothingIsLost
  <2>1. ~aborted /\ result = "saved" /\ table' = table \cup open
    BY DEF ConnectionInv, NothingIsLost
  <2>2. \A u, v, q : Has(open \cup table, u, v, q) => Has(table', u, v, q) /\ Has(open' \cup table', u, v, q)
    BY <2>1 DEF Has
  <2>3. \A q \in Parts : Has(table', t, w, q)
    BY <2>1, <2>2, <1>7 DEF ConnectionInv, NothingIsLost
  <2>4. ASSUME NEW u \in Threads, NEW v \in Writes, outcome'[u][v] = "saved", NEW q \in Parts
        PROVE  Has(table', u, v, q)
    <3>1. CASE u = t /\ v = w
      BY <3>1, <2>3
    <3>2. CASE ~(u = t /\ v = w)
      <4>1. outcome[u][v] = "saved"
        BY <3>2, <2>4, <1>3
      <4>2. Has(table, u, v, q)
        BY <4>1, <2>4 DEF ConnectionInv, NothingIsLost
      <4> QED
        BY <4>2, <1>6
    <3> QED
      BY <3>1, <3>2
  <2>5. \A u \in Threads : /\ thread'[u].pc # "rollback"
                           /\ thread'[u].pc \in {"insert", "commit"} =>
                                \A q \in 1..(thread'[u].part - 1) : Has(open' \cup table', u, thread'[u].write, q)
    BY <2>2, <1>1 DEF ConnectionInv, NothingIsLost
  <2> QED
    BY <2>4, <2>5 DEF NothingIsLost
<1>9. LoneWriters'
  <2> SUFFICES ASSUME Lone(t)', OwnTransaction(t) PROVE OwnTransaction(t)'
    BY <1>1 DEF LoneWriters
  <2>1. \A q \in Parts : IF result = "saved" THEN Has(table', t, w, q) ELSE ~Has(table', t, w, q)
    <3>1. CASE result = "saved"
      <4>1. ~aborted /\ \A q \in Parts : Has(open, t, w, q)
        BY <3>1, <1>7 DEF OwnTransaction
      <4> QED
        BY <3>1, <4>1 DEF Has
    <3>2. CASE result = "error"
      BY <3>2, <1>2 DEF OwnTransaction
    <3> QED
      BY <3>1, <3>2
  <2>2. ASSUME NEW v \in Writes, v # w, NEW q \in Parts
        PROVE  Has(table', t, v, q) <=> Has(table, t, v, q)
    BY <2>2 DEF OwnTransaction, Has
  <2>3. w \in Nat /\ Writes \subseteq Nat
    BY <1>2, PartsAreNumbers
  <2>4. ASSUME NEW v \in Writes
        PROVE  /\ v > w => outcome'[t][v] = "none"
               /\ outcome'[t][v] = "saved" => \A q \in Parts : Has(table', t, v, q)
               /\ outcome'[t][v] # "saved" => \A q \in Parts : ~Has(table', t, v, q)
    <3>1. CASE v = w
      <4>1. outcome'[t][w] = result /\ ~(v > w)
        BY <3>1, <1>2, <1>3, <2>3
      <4> QED
        BY <3>1, <4>1, <2>1
    <3>2. CASE v # w
      <4>1. outcome'[t][v] = outcome[t][v]
        BY <3>2, <2>4, <1>3
      <4>2. /\ v > w => outcome[t][v] = "none"
            /\ outcome[t][v] = "saved" => \A q \in Parts : Has(table, t, v, q)
            /\ outcome[t][v] # "saved" => \A q \in Parts : ~Has(table, t, v, q)
        BY <2>4 DEF OwnTransaction
      <4>3. \A q \in Parts : Has(table', t, v, q) <=> Has(table, t, v, q)
        BY <3>2, <2>2, <2>4
      <4> QED
        BY <4>1, <4>2, <4>3
    <3> QED
      BY <3>1, <3>2
  <2>5. /\ \A row \in open' : row.by = t /\ row.write = thread'[t].write
        /\ thread'[t].pc = "idle" /\ open' = {} /\ ~aborted'
    BY <1>1
  <2>6. thread'[t].write = w
    BY <1>1
  <2> HIDE DEF w
  <2> QED
    BY <2>4, <2>5, <2>6 DEF OwnTransaction
<1> QED
  BY <1>4, <1>5, <1>8, <1>9 DEF ConnectionInv

\* Reads and the clock leave rows, threads and errors alone.
LEMMA IdleStepPreserves ==
    ASSUME ConnectionInv, began' \in Nat, clock' \in Nat,
           UNCHANGED <<aborted, open, table, thread, outcome, errors>>
    PROVE  ConnectionInv'
BY DEF ConnectionInv, ConnectionType, FirstsCome, NothingIsLost, LoneWriters, Lone, OwnTransaction, Has

LEMMA ConnectionStepPreserves == ConnectionInv /\ [ConnectionNext]_connectionVars => ConnectionInv'
<1> SUFFICES ASSUME ConnectionInv, [ConnectionNext]_connectionVars PROVE ConnectionInv'
  OBVIOUS
<1>1. ASSUME NEW t \in Threads, BeginWrite(t) PROVE ConnectionInv'
  BY <1>1, BeginWritePreserves
<1>2. ASSUME NEW t \in Threads, Insert(t) PROVE ConnectionInv'
  BY <1>2, InsertPreserves
<1>3. ASSUME NEW t \in Threads, InsertFails(t) PROVE ConnectionInv'
  BY <1>3, InsertFailsPreserves
<1>4. ASSUME NEW t \in Threads, Commit(t) PROVE ConnectionInv'
  BY <1>4, EndingPreserves DEF Commit
<1>5. ASSUME NEW t \in Threads, Rollback(t) PROVE ConnectionInv'
  BY <1>5, EndingPreserves DEF Rollback
<1>6. ASSUME NEW t \in Threads, ReadRows(t) PROVE ConnectionInv'
  BY <1>6, IdleStepPreserves, NowIsTime DEF ReadRows, ConnectionInv, ConnectionType
<1>7. CASE Tick \/ UNCHANGED connectionVars
  BY <1>7, IdleStepPreserves DEF Tick, connection, connectionVars, ConnectionInv, ConnectionType
<1> QED
  BY <1>1, <1>2, <1>3, <1>4, <1>5, <1>6, <1>7 DEF ConnectionNext, WriteStep

-----------------------------------------------------------------------------
LEMMA SavedIsHas ==
    ASSUME NEW t, NEW w, NEW p
    PROVE  p \in Saved(t, w) <=> Has(table, t, w, p)
BY DEF Saved, Has

\* No interleaving of commits leaves items without their manifest
\* (publish_row_backed_analysis_artifact, create_metadata_universe).
THEOREM PartsFollowFirsts == ConnectionSpec => []PartsHaveFirst
<1>1. ConnectionInv => PartsHaveFirst
  BY SavedIsHas DEF ConnectionInv, FirstsCome, PartsHaveFirst, Has
<1> QED
  BY ConnectionInitially, ConnectionStepPreserves, <1>1, PTL DEF ConnectionSpec

\* While no statement fails, every acknowledged write is in the database.
THEOREM NothingAcknowledgedIsLost == ConnectionSpec => []DurableWithoutErrors
<1>1. ConnectionInv => DurableWithoutErrors
  <2> SUFFICES ASSUME ConnectionInv, errors = 0, NEW t \in Threads, NEW w \in Writes,
                      outcome[t][w] = "saved"
               PROVE  Saved(t, w) = Parts
    BY DEF DurableWithoutErrors, AcknowledgedIsDurable
  <2>1. \A p \in Parts : p \in Saved(t, w)
    BY SavedIsHas DEF ConnectionInv, NothingIsLost
  <2>2. \A p \in Saved(t, w) : p \in Parts
    BY DEF Saved, ConnectionInv, ConnectionType
  <2> QED
    BY <2>1, <2>2
<1> QED
  BY ConnectionInitially, ConnectionStepPreserves, <1>1, PTL DEF ConnectionSpec

\* A thread that writes alone writes in transactions, whatever statements fail and
\* whatever transactions the reads of others have left open.
THEOREM LoneWritersAreTransactional == ConnectionSpec => []LoneWriterIsTransactional
<1>1. ConnectionInv => LoneWriterIsTransactional
  <2> SUFFICES ASSUME ConnectionInv, NEW t \in Threads, Lone(t), NEW w \in Writes
               PROVE  Saved(t, w) = IF outcome[t][w] = "saved" THEN Parts ELSE {}
    BY DEF LoneWriterIsTransactional, Lone
  <2>1. \A p \in Parts : p \in Saved(t, w) <=> outcome[t][w] = "saved"
    BY SavedIsHas DEF ConnectionInv, LoneWriters, OwnTransaction
  <2>2. \A p \in Saved(t, w) : p \in Parts
    BY DEF Saved, ConnectionInv, ConnectionType
  <2> QED
    BY <2>1, <2>2
<1> QED
  BY ConnectionInitially, ConnectionStepPreserves, <1>1, PTL DEF ConnectionSpec
=============================================================================
