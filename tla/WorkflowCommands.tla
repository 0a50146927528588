-------------------------- MODULE WorkflowCommands --------------------------
(***************************************************************************)
(* workflow.stage_commands, the durable commands of the stages, and the    *)
(* workers that claim them (portfell_workflow/repository.py, the table of  *)
(* migrations 4 and 5). A request names its command_id, the work asked for *)
(* (stage, input, operation and algorithm version) and its idempotency     *)
(* key. Every method is one statement in a transaction of its own.         *)
(***************************************************************************)
EXTENDS Integers, FiniteSets

CONSTANTS
    Requests,      \* the requests callers may make
    Workers,
    MaxWorkerDeaths,    \* how often workers die
    MaxOverruns    \* how often a live worker's lease runs out

ASSUME CommandsAssumption == IsFiniteSet(Workers) /\ \A r \in Requests : r.id # "none"

Ended == {"succeeded", "failed", "cancelled"}

VARIABLES
    rows,          \* the rows of the table, by command_id
    holding,       \* the claim a worker works on
    deaths, overruns

commandVars == <<rows, holding, deaths, overruns>>

Idle == [id |-> "none", claim |-> 0]

\* claims counts the claims of a row; the code keeps no such number.
NewRow(r) ==
    [request |-> r, status |-> "queued", lease |-> "none", requested_at |-> Cardinality(DOMAIN rows),
     claims |-> 0]

Set(id, row) == rows' = [rows EXCEPT ![id] = row]

\* enqueue: the row of the idempotency key is returned as it is, whatever else
\* is asked for; a command_id or a work that another row has is refused.
Enqueue(r) ==
    /\ \A id \in DOMAIN rows :
          /\ rows[id].request.key # r.key
          /\ id # r.id /\ rows[id].request.work # r.work
    /\ rows' = [id \in DOMAIN rows \cup {r.id} |-> IF id = r.id THEN NewRow(r) ELSE rows[id]]
    /\ UNCHANGED <<holding, deaths, overruns>>

Claimable == {id \in DOMAIN rows : \/ rows[id].status = "queued"
                                   \/ rows[id].status = "running" /\ rows[id].lease = "expired"}

Oldest == {id \in Claimable :
              \A other \in Claimable : rows[id].requested_at <= rows[other].requested_at}

\* claim: the oldest row that waits or whose lease ran out. The worker is not
\* written down, so whoever held the row before still passes for its owner.
Claim(w) ==
    /\ holding[w] = Idle
    /\ \E id \in Oldest :
          /\ Set(id, [rows[id] EXCEPT !.status = "running", !.lease = "valid", !.claims = @ + 1])
          /\ holding' = [holding EXCEPT ![w] = [id |-> id, claim |-> rows[id].claims + 1]]
    /\ UNCHANGED <<deaths, overruns>>

\* Fault: the report is written whatever became of the row.
Fault_Report(w) ==
    /\ holding[w] # Idle
    /\ \E result \in Ended : rows' = [rows EXCEPT ![holding[w].id].status = result]
    /\ holding' = [holding EXCEPT ![w] = Idle]
    /\ UNCHANGED <<deaths, overruns>>

\* update_progress of a worker that is done: it counts while the row runs, for
\* whomever it runs.
Report(w) ==
    LET id == holding[w].id
    IN  /\ holding[w] # Idle
        /\ \E result \in Ended :
              rows' = IF rows[id].status = "running"
                      THEN [rows EXCEPT ![id].status = result] ELSE rows
        /\ holding' = [holding EXCEPT ![w] = Idle]
        /\ UNCHANGED <<deaths, overruns>>

\* Fault: rows are recovered by their status, whatever is left of the lease.
Fault_RecoverStale ==
    LET running == {id \in DOMAIN rows : rows[id].status = "running"}
    IN  /\ running # {}
        /\ rows' = [id \in DOMAIN rows |->
                       IF id \in running THEN [rows[id] EXCEPT !.status = "queued", !.lease = "none"]
                       ELSE rows[id]]
        /\ UNCHANGED <<holding, deaths, overruns>>

\* recover_stale: all running rows whose lease ran out wait again.
RecoverStale ==
    LET stale == {id \in DOMAIN rows : rows[id].status = "running" /\ rows[id].lease = "expired"}
    IN  /\ stale # {}
        /\ rows' = [id \in DOMAIN rows |->
                       IF id \in stale THEN [rows[id] EXCEPT !.status = "queued", !.lease = "none"]
                       ELSE rows[id]]
        /\ UNCHANGED <<holding, deaths, overruns>>

Crash(w) ==
    /\ holding[w] # Idle /\ deaths < MaxWorkerDeaths
    /\ holding' = [holding EXCEPT ![w] = Idle]
    /\ deaths' = deaths + 1
    /\ UNCHANGED <<rows, overruns>>

Attended(id) == \E w \in Workers : holding[w] = [id |-> id, claim |-> rows[id].claims]

\* Time passes lease_expires_at. Nothing renews a lease.
LeaseRunsOut(id) ==
    /\ rows[id].status = "running" /\ rows[id].lease = "valid"
    /\ Attended(id) => overruns < MaxOverruns
    /\ overruns' = IF Attended(id) THEN overruns + 1 ELSE overruns
    /\ Set(id, [rows[id] EXCEPT !.lease = "expired"])
    /\ UNCHANGED <<holding, deaths>>

CommandsInit ==
    /\ rows = [id \in {} |-> Idle]
    /\ holding = [w \in Workers |-> Idle]
    /\ deaths = 0 /\ overruns = 0

CommandsNext ==
    \/ \E r \in Requests : Enqueue(r)
    \/ \E w \in Workers : Claim(w) \/ Report(w) \/ Crash(w)
    \/ RecoverStale
    \/ \E id \in DOMAIN rows : LeaseRunsOut(id)

\* Workers poll and finish what they hold; the clock runs.
CommandsFairness ==
    /\ \A w \in Workers : WF_commandVars(Claim(w)) /\ WF_commandVars(Report(w))
    /\ \A r \in Requests :
          WF_commandVars(r.id \in DOMAIN rows /\ ~Attended(r.id) /\ LeaseRunsOut(r.id))

CommandsSpec == CommandsInit /\ [][CommandsNext]_commandVars /\ CommandsFairness

-----------------------------------------------------------------------------
(* What must hold.                                                         *)

Queue == INSTANCE CommandQueue WITH
    Outcomes <- Ended,
    accepted <- {rows[id].request : id \in DOMAIN rows},
    outcome <- [r \in {rows[id].request : id \in DOMAIN rows} |->
                   IF rows[r.id].status \in Ended THEN rows[r.id].status ELSE "open"]

\* Every accepted command gets one outcome, whatever workers die or overrun,
\* however often it is claimed again, and a late report of a former holder
\* changes no outcome (enqueue, claim, update_progress, recover_stale).
ImplementsQueue == Queue!QueueSpec

\* Two workers hold the same command only after a lease of it ran out, the
\* number of claims says which of them came later, and a waiting command has
\* no lease that could run out under its next holder (claim, recover_stale).
LeasesExclude ==
    /\ \A v, w \in Workers :
          v # w /\ holding[v] # Idle /\ holding[v].id = holding[w].id =>
              /\ holding[v].claim # holding[w].claim
              /\ deaths + overruns > 0
    /\ \A w \in Workers : holding[w] # Idle => holding[w].claim <= rows[holding[w].id].claims
    /\ \A id \in DOMAIN rows :
          /\ rows[id].status = "queued" => rows[id].lease = "none"
          /\ rows[id].status = "running" => rows[id].lease # "none"
          /\ Cardinality({w \in Workers : holding[w].id = id}) <= 1 + overruns
=============================================================================
