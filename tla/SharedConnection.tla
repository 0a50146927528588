---------------------------- MODULE SharedConnection ----------------------------
(***************************************************************************)
(* The one psycopg connection of an API process.  create_runtime_app opens *)
(* it without autocommit and gives it to the repository that request       *)
(* threads and the executor thread use alike: psycopg serialises their     *)
(* statements, but the transaction they are part of is common to all.      *)
(*                                                                         *)
(* A repository write is a number of inserts, of which the later refer to  *)
(* the first (manifest and items, universe and members), then commit; an   *)
(* exception leads to rollback.  A read is a statement without a commit.   *)
(***************************************************************************)
EXTENDS Naturals, FiniteSets

CONSTANTS
    Threads,
    Inserts,        \* the inserts of a write
    MaxWrites,      \* bound: writes per thread
    MaxErrors,      \* bound: statements that violate a constraint
    MaxTime         \* bound: clock ticks

ASSUME SharedConnectionAssumption ==
    /\ Inserts \in Nat \ {0}
    /\ MaxWrites \in Nat /\ MaxErrors \in Nat /\ MaxTime \in Nat

VARIABLES
    began,      \* when the open transaction began, 0 if none is open
    aborted,    \* a statement failed: the server ends the transaction by rollback only
    open,       \* rows inserted by the open transaction
    table,      \* committed rows
    thread,     \* each thread's place in its current write
    outcome,    \* what each write returned: "none" yet, "saved" or "error"
    clock, errors

connectionVars == <<began, aborted, open, table, thread, outcome, clock, errors>>
connection == <<began, aborted, open, table>>

Parts == 1..Inserts
Writes == 1..MaxWrites
PartRow(t, w, part, stamp) == [by |-> t, write |-> w, part |-> part, stamp |-> stamp]

ConnectionInit ==
    /\ began = 0 /\ aborted = FALSE
    /\ open = {} /\ table = {}
    /\ thread = [t \in Threads |-> [pc |-> "idle", write |-> 0, part |-> 0, since |-> 0]]
    /\ outcome = [t \in Threads |-> [w \in Writes |-> "none"]]
    /\ clock = 1 /\ errors = 0

-----------------------------------------------------------------------------
\* The rows a statement sees: committed ones and those of its own transaction.
Visible == open \union table

\* Fault: the items do not refer to their manifest.
Fault_NoForeignKey(t) == TRUE

HasFirst(t) ==
    \E row \in Visible : row.by = t /\ row.write = thread[t].write /\ row.part = 1

\* now() is the time the transaction began.
Now == IF began = 0 THEN clock ELSE began

\* Fault: a write commits after its first insert.
Fault_CommitAfterFirst(t) ==
    /\ thread[t].pc = "insert"
    /\ ~aborted
    /\ thread[t].part > 1 => HasFirst(t)
    /\ began' = 0
    /\ table' = table \union open \union {PartRow(t, thread[t].write, thread[t].part, Now)}
    /\ open' = {}
    /\ thread' = [thread EXCEPT
                    ![t].pc = IF thread[t].part = Inserts THEN "commit" ELSE "insert",
                    ![t].part = @ + 1]
    /\ UNCHANGED <<aborted, outcome, clock, errors>>

\* Fault: the transaction is not rolled back after an exception that did not
\* come from the server.
Fault_RollbackForgotten(t) ==
    /\ thread[t].pc = "rollback"
    /\ thread' = [thread EXCEPT ![t].pc = "idle"]
    /\ outcome' = [outcome EXCEPT ![t][thread[t].write] = "error"]
    /\ UNCHANGED <<connection, clock, errors>>

\* Fault: the method returns without committing.
Fault_CommitForgotten(t) ==
    /\ thread[t].pc = "commit"
    /\ thread' = [thread EXCEPT ![t].pc = "idle"]
    /\ outcome' = [outcome EXCEPT ![t][thread[t].write] = "saved"]
    /\ UNCHANGED <<connection, clock, errors>>

BeginWrite(t) ==
    /\ thread[t].pc = "idle"
    /\ thread[t].write < MaxWrites
    /\ thread' = [thread EXCEPT ![t] = [pc |-> "insert", write |-> @.write + 1,
                                        part |-> 1, since |-> clock]]
    /\ UNCHANGED <<connection, outcome, clock, errors>>

\* The first statement after a commit or rollback opens a transaction.
Insert(t) ==
    /\ thread[t].pc = "insert"
    /\ ~aborted
    /\ thread[t].part > 1 => HasFirst(t)        \* foreign key
    /\ began' = Now
    /\ open' = open \union {PartRow(t, thread[t].write, thread[t].part, Now)}
    /\ thread' = [thread EXCEPT
                    ![t].pc = IF thread[t].part = Inserts THEN "commit" ELSE "insert",
                    ![t].part = @ + 1]
    /\ UNCHANGED <<aborted, table, outcome, clock, errors>>

\* A constraint is violated, or the transaction is in error already.
InsertFails(t) ==
    /\ thread[t].pc = "insert"
    /\ \/ aborted /\ UNCHANGED errors
       \/ ~aborted /\ thread[t].part > 1 /\ ~HasFirst(t) /\ UNCHANGED errors
       \/ ~aborted /\ errors < MaxErrors /\ errors' = errors + 1
    /\ began' = Now
    /\ aborted' = TRUE
    /\ thread' = [thread EXCEPT ![t].pc = "rollback"]
    /\ UNCHANGED <<open, table, outcome, clock>>

\* In a transaction that is in error, COMMIT rolls back and does not raise.
Commit(t) ==
    /\ thread[t].pc = "commit"
    /\ table' = IF aborted THEN table ELSE table \union open
    /\ open' = {} /\ aborted' = FALSE /\ began' = 0
    /\ thread' = [thread EXCEPT ![t].pc = "idle"]
    /\ outcome' = [outcome EXCEPT ![t][thread[t].write] = "saved"]
    /\ UNCHANGED <<clock, errors>>

Rollback(t) ==
    /\ thread[t].pc = "rollback"
    /\ open' = {} /\ aborted' = FALSE /\ began' = 0
    /\ thread' = [thread EXCEPT ![t].pc = "idle"]
    /\ outcome' = [outcome EXCEPT ![t][thread[t].write] = "error"]
    /\ UNCHANGED <<table, clock, errors>>

\* A read opens a transaction that it leaves open; it raises in one in error.
ReadRows(t) ==
    /\ thread[t].pc = "idle"
    /\ ~aborted
    /\ began' = Now
    /\ UNCHANGED <<aborted, open, table, thread, outcome, clock, errors>>

Tick ==
    /\ clock < MaxTime
    /\ clock' = clock + 1
    /\ UNCHANGED <<connection, thread, outcome, errors>>

-----------------------------------------------------------------------------
WriteStep(t) == Insert(t) \/ InsertFails(t) \/ Commit(t) \/ Rollback(t)

ConnectionNext ==
    \/ \E t \in Threads : BeginWrite(t) \/ ReadRows(t) \/ WriteStep(t)
    \/ Tick

\* A thread that is in a repository call goes on with it.
ConnectionFairness == \A t \in Threads : WF_connectionVars(WriteStep(t))

ConnectionSpec == ConnectionInit /\ [][ConnectionNext]_connectionVars /\ ConnectionFairness

-----------------------------------------------------------------------------
(* Properties.                                                              *)

Saved(t, w) == {row.part : row \in {r \in table : r.by = t /\ r.write = w}}

\* A write that returned normally is in the database.
AcknowledgedIsDurable ==
    \A t \in Threads, w \in Writes :
        outcome[t][w] = "saved" => Saved(t, w) = Parts

\* While the other threads only read, a repository write is a transaction: all of
\* its rows are there once it returned, none before it did or when it raised,
\* whatever statement fails and whatever transaction a read has left open.
LoneWriterIsTransactional ==
    \A t \in Threads : (\A u \in Threads \ {t} : thread[u].write = 0) =>
        \A w \in Writes :
            Saved(t, w) = IF outcome[t][w] = "saved" THEN Parts ELSE {}

\* However the threads interleave, acknowledged writes are kept as long as no
\* statement of any thread fails: sharing is harmful only with an error.
DurableWithoutErrors == errors = 0 => AcknowledgedIsDurable

\* No interleaving of commits leaves items without their manifest: a part is in
\* the database only with the first part of its write.
PartsHaveFirst ==
    \A t \in Threads, w \in Writes : Saved(t, w) # {} => 1 \in Saved(t, w)

\* An error never blocks the connection for good: some thread rolls it back.
ErrorsClear == aborted ~> ~aborted

(* What the repository says of itself and two threads do not keep.          *)

\* The rows of one write are committed together or not at all, as the
\* repository's multi-statement methods say of themselves.
WritesAreAtomic ==
    \A t \in Threads, w \in Writes : Saved(t, w) \in {{}, Parts}

\* A row's now() is a time within the call that wrote it, so that a heartbeat
\* says when the progress was made.
StampsAreFresh ==
    \A t \in Threads : \A row \in open :
        row.by = t /\ row.write = thread[t].write /\ thread[t].pc # "idle"
            => row.stamp >= thread[t].since

=============================================================================
