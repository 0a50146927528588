---------------------------- MODULE CommandQueue ----------------------------
(***************************************************************************)
(* What the workflow's command table promises its callers: a request is    *)
(* accepted once under its idempotency key, stays what it was, and gets    *)
(* one outcome.                                                            *)
(***************************************************************************)
CONSTANTS Requests, Outcomes

VARIABLES accepted, outcome

queueVars == <<accepted, outcome>>

QueueInit == accepted = {} /\ outcome = [r \in {} |-> "open"]

Open == {r \in accepted : outcome[r] = "open"}

Accept(r) ==
    /\ \A other \in accepted : other.key # r.key
    /\ accepted' = accepted \cup {r}
    /\ outcome' = [s \in accepted \cup {r} |-> IF s = r THEN "open" ELSE outcome[s]]

Finish(r) ==
    /\ r \in Open
    /\ \E result \in Outcomes : outcome' = [outcome EXCEPT ![r] = result]
    /\ UNCHANGED accepted

QueueNext == \E r \in Requests : Accept(r) \/ Finish(r)

QueueSpec ==
    /\ QueueInit /\ [][QueueNext]_queueVars
    /\ \A r \in Requests : WF_queueVars(Finish(r))
=============================================================================
