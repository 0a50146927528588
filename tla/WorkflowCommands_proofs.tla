----------------------- MODULE WorkflowCommands_proofs -----------------------
(***************************************************************************)
(* For any requests and any finite number of workers: two workers hold one *)
(* command only after a lease ran out under one of them, and whatever the  *)
(* workers do to the table is a step of the queue it promises.             *)
(*                                                                         *)
(* The claims of a row grow, so every holder but the latest is out of      *)
(* date, and each of those has cost an overrun: Outdated counts them.      *)
(***************************************************************************)
EXTENDS WorkflowCommands, FiniteSetTheorems, TLAPS

RowType == [request : Requests, status : {"queued", "running"} \cup Ended,
            lease : {"none", "valid", "expired"}, requested_at : Nat, claims : Nat]

Held(w) == holding[w] # Idle

CommandsType ==
    /\ rows \in [DOMAIN rows -> RowType] /\ IsFiniteSet(DOMAIN rows)
    /\ \A id \in DOMAIN rows : rows[id].request.id = id
    /\ holding \in [Workers -> [id : DOMAIN rows, claim : Nat] \cup {Idle}]
    /\ deaths \in Nat /\ overruns \in Nat

\* Claims are told apart by their number.
ClaimsDiffer ==
    /\ \A w \in Workers : Held(w) => holding[w].claim <= rows[holding[w].id].claims
    /\ \A v, w \in Workers : v # w /\ Held(v) /\ Held(w) /\ holding[v].id = holding[w].id =>
          holding[v].claim # holding[w].claim

LeasesFollow ==
    \A id \in DOMAIN rows :
        /\ rows[id].status = "queued" => rows[id].lease = "none"
        /\ rows[id].status = "running" => rows[id].lease # "none"

Outdated(id) ==
    {w \in Workers : /\ Held(w) /\ holding[w].id = id
                     /\ holding[w].claim # rows[id].claims \/ rows[id].lease # "valid"}

OverrunsCount == \A id \in DOMAIN rows : Cardinality(Outdated(id)) <= overruns

CommandsInv == CommandsType /\ ClaimsDiffer /\ LeasesFollow /\ OverrunsCount

-----------------------------------------------------------------------------
LEMMA OutdatedIsFinite ==
    ASSUME NEW id
    PROVE  IsFiniteSet(Outdated(id)) /\ Cardinality(Outdated(id)) \in Nat
<1>1. Outdated(id) \subseteq Workers
  BY DEF Outdated
<1> QED
  BY <1>1, CommandsAssumption, FS_Subset, FS_CardinalityType

\* Fewer holders are out of date, and no fewer leases ran out.
LEMMA FewerOutdated ==
    ASSUME CommandsInv, NEW id \in DOMAIN rows, Outdated(id)' \subseteq Outdated(id),
           overruns' \in Nat, overruns <= overruns'
    PROVE  Cardinality(Outdated(id)') <= overruns'
<1>1. /\ IsFiniteSet(Outdated(id)) /\ Cardinality(Outdated(id)) \in Nat
      /\ Cardinality(Outdated(id)') <= Cardinality(Outdated(id)) /\ Cardinality(Outdated(id)') \in Nat
  BY OutdatedIsFinite, FS_Subset, FS_CardinalityType
<1>2. Cardinality(Outdated(id)) <= overruns /\ overruns \in Nat
  BY DEF CommandsInv, OverrunsCount, CommandsType
<1> QED
  BY <1>1, <1>2

LEMMA CommandsInitially == CommandsInit => CommandsInv
<1>1. IsFiniteSet({})
  BY FS_EmptySet
<1> QED
  BY <1>1 DEF CommandsInit, CommandsInv, CommandsType, ClaimsDiffer, LeasesFollow, OverrunsCount, Held

LEMMA EnqueuePreserves ==
    ASSUME CommandsInv, NEW r \in Requests, Enqueue(r)
    PROVE  CommandsInv'
<1>1. /\ r.id \notin DOMAIN rows /\ r.id # "none"
      /\ rows' = [id \in DOMAIN rows \cup {r.id} |-> IF id = r.id THEN NewRow(r) ELSE rows[id]]
      /\ UNCHANGED <<holding, deaths, overruns>>
  BY CommandsAssumption DEF Enqueue
<1>2. Cardinality(DOMAIN rows) \in Nat /\ IsFiniteSet(DOMAIN rows \cup {r.id})
  BY FS_CardinalityType, FS_AddElement DEF CommandsInv, CommandsType
<1>3. /\ NewRow(r) \in RowType /\ NewRow(r).request = r
      /\ NewRow(r).status = "queued" /\ NewRow(r).lease = "none"
  BY <1>2 DEF NewRow, RowType
<1>4. /\ DOMAIN rows' = DOMAIN rows \cup {r.id} /\ rows'[r.id] = NewRow(r)
      /\ \A id \in DOMAIN rows : rows'[id] = rows[id]
  BY <1>1
<1> HIDE DEF NewRow
<1>5. CommandsType'
  BY <1>1, <1>2, <1>3, <1>4 DEF CommandsInv, CommandsType
<1>6. \A w \in Workers : Held(w) => holding[w].id \in DOMAIN rows
  BY DEF CommandsInv, CommandsType, Held
<1>7. ClaimsDiffer'
  BY <1>1, <1>4, <1>6 DEF CommandsInv, ClaimsDiffer, Held
<1>8. LeasesFollow'
  BY <1>3, <1>4 DEF CommandsInv, LeasesFollow
<1>9. OverrunsCount'
  <2> SUFFICES ASSUME NEW id \in DOMAIN rows' PROVE Cardinality(Outdated(id)') <= overruns'
    BY DEF OverrunsCount
  <2>1. CASE id = r.id
    <3>1. Outdated(id)' = {}
      BY <2>1, <1>1, <1>6 DEF Outdated, Held
    <3> QED
      BY <3>1, <1>1, FS_EmptySet DEF CommandsInv, CommandsType
  <2>2. CASE id \in DOMAIN rows
    <3>1. Outdated(id)' = Outdated(id)
      BY <2>2, <1>1, <1>4 DEF Outdated, Held
    <3> QED
      BY <2>2, <3>1, <1>1, FewerOutdated DEF CommandsInv, CommandsType
  <2> QED
    BY <2>1, <2>2, <1>4
<1> QED
  BY <1>5, <1>7, <1>8, <1>9 DEF CommandsInv

LEMMA ClaimPreserves ==
    ASSUME CommandsInv, NEW w \in Workers, Claim(w)
    PROVE  CommandsInv'
<1>1. PICK id \in Claimable :
         /\ rows' = [rows EXCEPT ![id] = [rows[id] EXCEPT !.status = "running", !.lease = "valid",
                                                          !.claims = @ + 1]]
         /\ holding' = [holding EXCEPT ![w] = [id |-> id, claim |-> rows[id].claims + 1]]
         /\ UNCHANGED <<deaths, overruns>> /\ holding[w] = Idle
  BY DEF Claim, Oldest, Set
<1>2. /\ id \in DOMAIN rows /\ rows[id] \in RowType /\ rows[id].claims \in Nat
      /\ rows[id].lease # "valid"
  BY DEF Claimable, CommandsInv, CommandsType, LeasesFollow, RowType
<1>3. id # "none"
  BY <1>2, CommandsAssumption DEF CommandsInv, CommandsType, RowType
<1>4. /\ DOMAIN rows' = DOMAIN rows /\ \A i \in DOMAIN rows : i # id => rows'[i] = rows[i]
      /\ rows'[id] \in RowType /\ rows'[id].request = rows[id].request
      /\ rows'[id].status = "running" /\ rows'[id].lease = "valid"
      /\ rows'[id].claims = rows[id].claims + 1
  <2> DEFINE row == [rows[id] EXCEPT !.status = "running", !.lease = "valid", !.claims = @ + 1]
  <2>1. /\ row \in RowType /\ row.request = rows[id].request /\ row.status = "running"
        /\ row.lease = "valid" /\ row.claims = rows[id].claims + 1
    <3>1. rows[id].claims + 1 \in Nat
      BY <1>2
    <3> QED
      BY <3>1, <1>2 DEF RowType
  <2>2. /\ DOMAIN rows' = DOMAIN rows /\ rows'[id] = row
        /\ \A i \in DOMAIN rows : i # id => rows'[i] = rows[i]
    BY <1>1, <1>2
  <2> HIDE DEF row
  <2> QED
    BY <2>1, <2>2
<1>5. /\ \A u \in Workers : u # w => holding'[u] = holding[u]
      /\ holding'[w] = [id |-> id, claim |-> rows[id].claims + 1]
      /\ holding'[w].id = id /\ holding'[w].claim = rows[id].claims + 1
  BY <1>1 DEF CommandsInv, CommandsType
<1>6. \A u \in Workers : Held(u) => holding[u].id \in DOMAIN rows /\ holding[u].claim \in Nat
  BY DEF CommandsInv, CommandsType, Held
<1>7. CommandsType'
  <2>1. rows' \in [DOMAIN rows' -> RowType] /\ IsFiniteSet(DOMAIN rows')
        /\ \A i \in DOMAIN rows' : rows'[i].request.id = i
    BY <1>1, <1>4 DEF CommandsInv, CommandsType
  <2>2. holding' \in [Workers -> [id : DOMAIN rows', claim : Nat] \cup {Idle}]
    BY <1>1, <1>2, <1>4 DEF CommandsInv, CommandsType
  <2> QED
    BY <2>1, <2>2, <1>1 DEF CommandsInv, CommandsType
<1>8. \A u \in Workers : u # w => (Held(u)' <=> Held(u))
  BY <1>5 DEF Held
<1>9. ClaimsDiffer'
  BY <1>2, <1>4, <1>5, <1>6, <1>8 DEF CommandsInv, ClaimsDiffer
<1>10. LeasesFollow'
  BY <1>4 DEF CommandsInv, LeasesFollow
<1>11. OverrunsCount'
  <2> SUFFICES ASSUME NEW i \in DOMAIN rows PROVE Cardinality(Outdated(i)') <= overruns'
    BY <1>4 DEF OverrunsCount
  <2>1. Outdated(i)' \subseteq Outdated(i)
    BY <1>1, <1>2, <1>4, <1>5, <1>8 DEF Outdated
  <2> QED
    BY <2>1, <1>1, FewerOutdated DEF CommandsInv, CommandsType
<1> QED
  BY <1>7, <1>9, <1>10, <1>11 DEF CommandsInv

\* A worker lets go: of the rows, at most a running one ends.
LEMMA LettingGoPreserves ==
    ASSUME CommandsInv, NEW w \in Workers, Held(w), holding' = [holding EXCEPT ![w] = Idle],
           NEW result \in Ended,
           \/ UNCHANGED rows
           \/ /\ rows[holding[w].id].status = "running"
              /\ rows' = [rows EXCEPT ![holding[w].id].status = result],
           overruns' = overruns, deaths' \in Nat
    PROVE  CommandsInv'
<1> DEFINE id == holding[w].id
<1>1. id \in DOMAIN rows /\ rows[id] \in RowType
  BY DEF CommandsInv, CommandsType, Held
<1>2. /\ DOMAIN rows' = DOMAIN rows
      /\ \A i \in DOMAIN rows : /\ rows'[i].request = rows[i].request /\ rows'[i] \in RowType
                                /\ rows'[i].lease = rows[i].lease /\ rows'[i].claims = rows[i].claims
                                /\ rows'[i].status \in {rows[i].status} \cup Ended
  BY <1>1 DEF CommandsInv, CommandsType, RowType
<1>3. \A u \in Workers : Held(u)' => Held(u) /\ holding'[u] = holding[u]
  BY DEF CommandsInv, CommandsType, Held
<1>4. CommandsType'
  <2>1. rows' \in [DOMAIN rows' -> RowType] /\ IsFiniteSet(DOMAIN rows')
        /\ \A i \in DOMAIN rows' : rows'[i].request.id = i
    BY <1>2 DEF CommandsInv, CommandsType
  <2>2. holding' \in [Workers -> [id : DOMAIN rows', claim : Nat] \cup {Idle}]
    BY <1>2 DEF CommandsInv, CommandsType
  <2> QED
    BY <2>1, <2>2 DEF CommandsInv, CommandsType
<1>5. \A u \in Workers : Held(u) => holding[u].id \in DOMAIN rows
  BY DEF CommandsInv, CommandsType, Held
<1>6. ClaimsDiffer'
  BY <1>2, <1>3, <1>5 DEF CommandsInv, ClaimsDiffer
<1>7. LeasesFollow'
  BY <1>2 DEF CommandsInv, LeasesFollow, Ended
<1>8. OverrunsCount'
  <2> SUFFICES ASSUME NEW i \in DOMAIN rows PROVE Cardinality(Outdated(i)') <= overruns'
    BY <1>2 DEF OverrunsCount
  <2>1. Outdated(i)' \subseteq Outdated(i)
    BY <1>2, <1>3 DEF Outdated
  <2> QED
    BY <2>1, FewerOutdated DEF CommandsInv, CommandsType
<1> QED
  BY <1>4, <1>6, <1>7, <1>8 DEF CommandsInv

LEMMA RecoverStalePreserves ==
    ASSUME CommandsInv, RecoverStale
    PROVE  CommandsInv'
<1> DEFINE stale == {id \in DOMAIN rows : rows[id].status = "running" /\ rows[id].lease = "expired"}
<1>1. /\ rows' = [id \in DOMAIN rows |->
                     IF id \in stale THEN [rows[id] EXCEPT !.status = "queued", !.lease = "none"]
                     ELSE rows[id]]
  BY DEF RecoverStale
<1>0. holding' = holding /\ deaths' = deaths /\ overruns' = overruns
  BY DEF RecoverStale
<1>2. /\ DOMAIN rows' = DOMAIN rows
      /\ \A i \in DOMAIN rows :
            /\ rows[i] \in RowType /\ rows'[i] \in RowType
            /\ rows'[i].request = rows[i].request /\ rows'[i].claims = rows[i].claims
            /\ \/ rows'[i] = rows[i]
               \/ rows'[i].status = "queued" /\ rows'[i].lease = "none" /\ rows[i].lease = "expired"
  BY <1>1 DEF CommandsInv, CommandsType, RowType
<1>3. CommandsType'
  BY <1>0, <1>2, <1>1 DEF CommandsInv, CommandsType
<1>4. \A u \in Workers : (Held(u)' <=> Held(u)) /\ (Held(u) => holding[u].id \in DOMAIN rows)
  BY <1>0 DEF CommandsInv, CommandsType, Held
<1>5. ClaimsDiffer'
  BY <1>0, <1>2, <1>4 DEF CommandsInv, ClaimsDiffer
<1>6. LeasesFollow'
  BY <1>2 DEF CommandsInv, LeasesFollow
<1>7. OverrunsCount'
  <2> SUFFICES ASSUME NEW i \in DOMAIN rows PROVE Cardinality(Outdated(i)') <= overruns'
    BY <1>2 DEF OverrunsCount
  <2>1. Outdated(i)' \subseteq Outdated(i)
    BY <1>0, <1>2, <1>4 DEF Outdated
  <2>2. overruns' \in Nat /\ overruns <= overruns'
    BY <1>0 DEF CommandsInv, CommandsType
  <2> QED
    BY <2>1, <2>2, FewerOutdated
<1> QED
  BY <1>3, <1>5, <1>6, <1>7 DEF CommandsInv

LEMMA LeaseRunsOutPreserves ==
    ASSUME CommandsInv, NEW id \in DOMAIN rows, LeaseRunsOut(id)
    PROVE  CommandsInv'
<1>1. /\ rows[id].status = "running" /\ rows[id].lease = "valid"
      /\ overruns' = IF Attended(id) THEN overruns + 1 ELSE overruns
      /\ rows' = [rows EXCEPT ![id] = [rows[id] EXCEPT !.lease = "expired"]]
      /\ UNCHANGED <<holding, deaths>>
  BY DEF LeaseRunsOut, Set
<1>2. /\ DOMAIN rows' = DOMAIN rows
      /\ \A i \in DOMAIN rows :
            /\ rows[i] \in RowType /\ rows'[i] \in RowType
            /\ rows'[i].request = rows[i].request /\ rows'[i].claims = rows[i].claims
            /\ rows'[i].status = rows[i].status /\ (i # id => rows'[i] = rows[i])
      /\ rows'[id].lease = "expired"
  BY <1>1 DEF CommandsInv, CommandsType, RowType
<1>3. overruns' \in Nat /\ overruns <= overruns'
  BY <1>1 DEF CommandsInv, CommandsType
<1>4. CommandsType'
  BY <1>1, <1>2, <1>3 DEF CommandsInv, CommandsType
<1>5. \A u \in Workers : (Held(u)' <=> Held(u)) /\ (Held(u) => holding[u].id \in DOMAIN rows)
  BY <1>1 DEF CommandsInv, CommandsType, Held
<1>6. ClaimsDiffer' /\ LeasesFollow'
  BY <1>1, <1>2, <1>5 DEF CommandsInv, ClaimsDiffer, LeasesFollow
<1>7. ASSUME NEW i \in DOMAIN rows, i # id
      PROVE  Cardinality(Outdated(i)') <= overruns'
  <2>1. Outdated(i)' \subseteq Outdated(i)
    BY <1>1, <1>2, <1>5, <1>7 DEF Outdated
  <2> QED
    BY <2>1, <1>3, <1>7, FewerOutdated
<1>8. Cardinality(Outdated(id)') <= overruns'
  <2>1. CASE Attended(id)
    <3>1. PICK w \in Workers : holding[w] = [id |-> id, claim |-> rows[id].claims]
      BY <2>1 DEF Attended
    <3>2. holding[w].id = id /\ holding[w].claim = rows[id].claims /\ Held(w)
      BY <3>1, CommandsAssumption DEF Held, Idle, CommandsInv, CommandsType, RowType
    <3>3. Outdated(id)' \subseteq Outdated(id) \cup {w}
      <4> SUFFICES ASSUME NEW u \in Workers, Held(u)', holding'[u].id = id, u # w
                   PROVE  u \in Outdated(id)
        BY DEF Outdated
      <4>1. Held(u) /\ holding[u].id = id
        BY <1>1, <1>5
      <4> QED
        BY <4>1, <3>2 DEF Outdated, CommandsInv, ClaimsDiffer
    <3>4. /\ IsFiniteSet(Outdated(id) \cup {w})
          /\ Cardinality(Outdated(id) \cup {w}) <= Cardinality(Outdated(id)) + 1
          /\ Cardinality(Outdated(id)) \in Nat
      <4>1. IsFiniteSet(Outdated(id)) /\ Cardinality(Outdated(id)) \in Nat
        BY OutdatedIsFinite
      <4> QED
        BY <4>1, FS_AddElement
    <3>5. /\ Cardinality(Outdated(id)') <= Cardinality(Outdated(id) \cup {w})
          /\ Cardinality(Outdated(id)') \in Nat /\ Cardinality(Outdated(id) \cup {w}) \in Nat
      BY <3>3, <3>4, FS_Subset, FS_CardinalityType
    <3>6. Cardinality(Outdated(id)) <= overruns /\ overruns' = overruns + 1 /\ overruns \in Nat
      BY <1>1, <2>1 DEF CommandsInv, OverrunsCount, CommandsType
    <3> QED
      BY <3>4, <3>5, <3>6
  <2>2. CASE ~Attended(id)
    <3>1. ASSUME NEW u \in Workers, Held(u), holding[u].id = id
          PROVE  holding[u].claim # rows[id].claims
      <4>1. holding[u] = [id |-> holding[u].id, claim |-> holding[u].claim]
        BY <3>1 DEF CommandsInv, CommandsType, Held
      <4> QED
        BY <4>1, <3>1, <2>2 DEF Attended
    <3>2. Outdated(id)' \subseteq Outdated(id)
      BY <3>1, <1>1, <1>2, <1>5 DEF Outdated
    <3> QED
      BY <3>2, <1>3, FewerOutdated
  <2> QED
    BY <2>1, <2>2
<1>9. OverrunsCount'
  BY <1>2, <1>7, <1>8 DEF OverrunsCount
<1> QED
  BY <1>4, <1>6, <1>9 DEF CommandsInv

LEMMA CommandsStepPreserves == CommandsInv /\ [CommandsNext]_commandVars => CommandsInv'
<1> SUFFICES ASSUME CommandsInv, [CommandsNext]_commandVars PROVE CommandsInv'
  OBVIOUS
<1>1. ASSUME NEW r \in Requests, Enqueue(r) PROVE CommandsInv'
  BY <1>1, EnqueuePreserves
<1>2. ASSUME NEW w \in Workers, Claim(w) PROVE CommandsInv'
  BY <1>2, ClaimPreserves
<1>3. ASSUME NEW w \in Workers, Report(w) PROVE CommandsInv'
  BY <1>3, LettingGoPreserves DEF Report, Held, CommandsInv, CommandsType
<1>4. ASSUME NEW w \in Workers, Crash(w) PROVE CommandsInv'
  <2>1. deaths' \in Nat /\ "failed" \in Ended
    BY <1>4 DEF Crash, CommandsInv, CommandsType, Ended
  <2> QED
    BY <1>4, <2>1, LettingGoPreserves DEF Crash, Held
<1>5. CASE RecoverStale
  BY <1>5, RecoverStalePreserves
<1>6. ASSUME NEW id \in DOMAIN rows, LeaseRunsOut(id) PROVE CommandsInv'
  BY <1>6, LeaseRunsOutPreserves
<1>7. CASE UNCHANGED commandVars
  BY <1>7 DEF commandVars, CommandsInv, CommandsType, ClaimsDiffer, LeasesFollow, OverrunsCount,
     Outdated, Held
<1> QED
  BY <1>1, <1>2, <1>3, <1>4, <1>5, <1>6, <1>7 DEF CommandsNext

\* Two workers hold a command only after a lease of it ran out, and no more of
\* them than leases ran out and one (claim, update_progress, recover_stale).
THEOREM HoldersAreCounted == CommandsSpec => []LeasesExclude
<1>1. CommandsInv => LeasesExclude
  <2> SUFFICES ASSUME CommandsInv PROVE LeasesExclude
    OBVIOUS
  <2>1. ASSUME NEW id \in DOMAIN rows
        PROVE  Cardinality({w \in Workers : holding[w].id = id}) <= 1 + overruns
    <3> DEFINE holders == {w \in Workers : holding[w].id = id}
    <3>0. id # "none" /\ \A w \in holders : Held(w)
      BY <2>1, CommandsAssumption DEF CommandsInv, CommandsType, RowType, Held, Idle
    <3>1. Cardinality(Outdated(id)) \in Nat /\ Cardinality(Outdated(id)) <= overruns
          /\ overruns \in Nat /\ IsFiniteSet(Outdated(id))
      BY <2>1, OutdatedIsFinite DEF CommandsInv, OverrunsCount, CommandsType
    <3>2. CASE holders \subseteq Outdated(id)
      <4>1. Cardinality(holders) <= Cardinality(Outdated(id)) /\ Cardinality(holders) \in Nat
        BY <3>1, <3>2, FS_Subset, FS_CardinalityType
      <4> QED
        BY <4>1, <3>1
    <3>3. ASSUME NEW v \in holders, v \notin Outdated(id)
          PROVE  Cardinality(holders) <= 1 + overruns
      <4>1. holders \subseteq Outdated(id) \cup {v}
        BY <3>0, <3>3 DEF Outdated, CommandsInv, ClaimsDiffer
      <4>2. /\ IsFiniteSet(Outdated(id) \cup {v})
            /\ Cardinality(Outdated(id) \cup {v}) = Cardinality(Outdated(id)) + 1
        BY <3>1, <3>3, FS_AddElement
      <4>3. Cardinality(holders) <= Cardinality(Outdated(id) \cup {v}) /\ Cardinality(holders) \in Nat
        BY <4>1, <4>2, FS_Subset, FS_CardinalityType
      <4> QED
        BY <4>2, <4>3, <3>1
    <3> QED
      BY <3>2, <3>3
  <2>2. ASSUME NEW v \in Workers, NEW w \in Workers, v # w, Held(v), holding[v].id = holding[w].id
        PROVE  holding[v].claim # holding[w].claim /\ deaths + overruns > 0
    <3> DEFINE id == holding[v].id
    <3>1. id \in DOMAIN rows /\ id # "none" /\ Held(w)
      BY <2>2, CommandsAssumption DEF CommandsInv, CommandsType, RowType, Held, Idle
    <3>2. holding[v].claim # holding[w].claim
      BY <2>2, <3>1 DEF CommandsInv, ClaimsDiffer
    <3>3. v \in Outdated(id) \/ w \in Outdated(id)
      BY <2>2, <3>1, <3>2 DEF Outdated
    <3>4. Cardinality(Outdated(id)) # 0
      BY <3>3, OutdatedIsFinite, FS_EmptySet
    <3>5. Cardinality(Outdated(id)) <= overruns /\ overruns \in Nat /\ deaths \in Nat
          /\ Cardinality(Outdated(id)) \in Nat
      BY <3>1, OutdatedIsFinite DEF CommandsInv, OverrunsCount, CommandsType
    <3> QED
      BY <3>2, <3>4, <3>5
  <2> QED
    BY <2>1, <2>2 DEF LeasesExclude, CommandsInv, ClaimsDiffer, LeasesFollow, Held
<1> QED
  BY CommandsInitially, CommandsStepPreserves, <1>1, PTL DEF CommandsSpec

-----------------------------------------------------------------------------
(* The table implements the queue: accepting and finishing are the steps   *)
(* callers see, all others only move a command between waiting and running. *)

Accepted == {rows[id].request : id \in DOMAIN rows}
OutcomeOf(r) == IF rows[r.id].status \in Ended THEN rows[r.id].status ELSE "open"
Outcome == [r \in Accepted |-> OutcomeOf(r)]

LEMMA RequestsKeepTheirRow ==
    ASSUME CommandsInv, NEW r \in Accepted
    PROVE  r.id \in DOMAIN rows /\ rows[r.id].request = r /\ r \in Requests
<1>1. PICK id \in DOMAIN rows : r = rows[id].request
  BY DEF Accepted
<1>2. r.id = id /\ rows[id] \in RowType
  BY <1>1 DEF CommandsInv, CommandsType
<1> QED
  BY <1>1, <1>2 DEF RowType

\* Rows that keep their requests, and end only if they had, are the same queue.
LEMMA SameQueue ==
    ASSUME CommandsInv, DOMAIN rows' = DOMAIN rows,
           \A id \in DOMAIN rows :
              /\ rows'[id].request = rows[id].request
              /\ \/ rows'[id].status = rows[id].status
                 \/ rows'[id].status \notin Ended /\ rows[id].status \notin Ended
    PROVE  Accepted' = Accepted /\ Outcome' = Outcome
<1>1. Accepted' = Accepted
  BY DEF Accepted
<1>2. ASSUME NEW r \in Accepted PROVE OutcomeOf(r)' = OutcomeOf(r)
  BY RequestsKeepTheirRow DEF OutcomeOf
<1> QED
  BY <1>1, <1>2 DEF Outcome

LEMMA EnqueueAccepts ==
    ASSUME CommandsInv, NEW r \in Requests, Enqueue(r)
    PROVE  /\ \A other \in Accepted : other.key # r.key
           /\ Accepted' = Accepted \cup {r}
           /\ Outcome' = [s \in Accepted \cup {r} |-> IF s = r THEN "open" ELSE Outcome[s]]
<1>1. /\ \A id \in DOMAIN rows : rows[id].request.key # r.key /\ id # r.id
      /\ rows' = [id \in DOMAIN rows \cup {r.id} |-> IF id = r.id THEN NewRow(r) ELSE rows[id]]
  BY DEF Enqueue
<1>2. NewRow(r).request = r /\ NewRow(r).status = "queued"
  BY DEF NewRow
<1> HIDE DEF NewRow
<1>3. /\ DOMAIN rows' = DOMAIN rows \cup {r.id} /\ rows'[r.id] = NewRow(r)
      /\ \A id \in DOMAIN rows : rows'[id] = rows[id]
  BY <1>1
<1>4. Accepted' = Accepted \cup {r}
  BY <1>2, <1>3 DEF Accepted
<1>5. OutcomeOf(r)' = "open"
  BY <1>2, <1>3 DEF OutcomeOf, Ended
<1>6. ASSUME NEW s \in Accepted PROVE s # r /\ OutcomeOf(s)' = Outcome[s]
  <2>1. s.id \in DOMAIN rows
    BY <1>6, RequestsKeepTheirRow
  <2> QED
    BY <2>1, <1>1, <1>3, <1>6 DEF OutcomeOf, Outcome
<1>7. Outcome' = [s \in Accepted' |-> OutcomeOf(s)']
  BY DEF Outcome
<1> QED
  BY <1>1, <1>4, <1>5, <1>6, <1>7 DEF Accepted

LEMMA ReportFinishes ==
    ASSUME CommandsInv, NEW w \in Workers, Report(w)
    PROVE  \/ Accepted' = Accepted /\ Outcome' = Outcome
           \/ \E r \in Requests : /\ r \in Accepted /\ Outcome[r] = "open"
                                 /\ \E result \in Ended : Outcome' = [Outcome EXCEPT ![r] = result]
                                 /\ Accepted' = Accepted
<1>0. PICK id : id = holding[w].id
  OBVIOUS
<1>1. id \in DOMAIN rows /\ rows[id] \in RowType
  BY <1>0 DEF Report, CommandsInv, CommandsType
<1>2. CASE rows[id].status # "running"
  <2>1. rows' = rows
    BY <1>0, <1>2 DEF Report
  <2> QED
    BY <2>1 DEF Accepted, Outcome, OutcomeOf
<1>3. CASE rows[id].status = "running"
  <2>1. PICK result \in Ended : rows' = [rows EXCEPT ![id].status = result]
    BY <1>0, <1>3 DEF Report
  <2>0. PICK r : r = rows[id].request
    OBVIOUS
  <2>2. /\ DOMAIN rows' = DOMAIN rows /\ rows'[id].status = result
        /\ \A i \in DOMAIN rows : rows'[i].request = rows[i].request /\ (i # id => rows'[i] = rows[i])
    BY <2>1, <1>1 DEF CommandsInv, CommandsType, RowType
  <2>3. Accepted' = Accepted
    BY <2>2 DEF Accepted
  <2>4. r \in Accepted /\ r.id = id /\ r \in Requests
    BY <2>0, <1>1 DEF Accepted, CommandsInv, CommandsType, RowType
  <2>5. Outcome[r] = "open" /\ OutcomeOf(r)' = result
    BY <1>3, <2>2, <2>4 DEF Outcome, OutcomeOf, Ended
  <2>6. ASSUME NEW s \in Accepted, s # r PROVE OutcomeOf(s)' = Outcome[s]
    <3>1. s.id \in DOMAIN rows /\ s.id # id
      BY <2>0, <2>6, RequestsKeepTheirRow
    <3> QED
      BY <3>1, <2>2, <2>6 DEF Outcome, OutcomeOf
  <2>7. Outcome' = [s \in Accepted' |-> OutcomeOf(s)'] /\ DOMAIN Outcome = Accepted
    BY DEF Outcome
  <2>8. Outcome' = [Outcome EXCEPT ![r] = result]
    BY <2>3, <2>4, <2>5, <2>6, <2>7
  <2> QED
    BY <2>3, <2>4, <2>5, <2>8
<1> QED
  BY <1>2, <1>3

\* Whatever the workers do, callers see a queue: an accepted request is the one
\* of its key and stays, and only an open one gets an outcome, once.
THEOREM CommandsRefineQueue ==
    CommandsSpec => Queue!QueueInit /\ [][Queue!QueueNext]_(Queue!queueVars)
<1>1. CommandsInit => Queue!QueueInit
  BY DEF CommandsInit, Queue!QueueInit
<1>2. CommandsInv /\ [CommandsNext]_commandVars => [Queue!QueueNext]_(Queue!queueVars)
  <2> SUFFICES ASSUME CommandsInv, [CommandsNext]_commandVars
               PROVE  \/ Accepted' = Accepted /\ Outcome' = Outcome
                      \/ \E r \in Requests : Queue!Accept(r) \/ Queue!Finish(r)
    BY DEF Queue!QueueNext, Queue!queueVars, Accepted, Outcome, OutcomeOf
  <2>1. ASSUME NEW r \in Requests, Enqueue(r) PROVE Queue!Accept(r)
    BY <2>1, EnqueueAccepts DEF Queue!Accept, Accepted, Outcome, OutcomeOf
  <2>2. ASSUME NEW w \in Workers, Claim(w) PROVE Accepted' = Accepted /\ Outcome' = Outcome
    <3>1. PICK id \in Claimable :
             rows' = [rows EXCEPT ![id] = [rows[id] EXCEPT !.status = "running", !.lease = "valid",
                                                              !.claims = @ + 1]]
      BY <2>2 DEF Claim, Oldest, Set
    <3>2. id \in DOMAIN rows /\ rows[id] \in RowType /\ rows[id].status \notin Ended
      BY DEF Claimable, CommandsInv, CommandsType, Ended
    <3>3. /\ DOMAIN rows' = DOMAIN rows
          /\ rows'[id].request = rows[id].request /\ rows'[id].status = "running"
          /\ \A i \in DOMAIN rows : i # id => rows'[i] = rows[i]
      BY <3>1, <3>2 DEF RowType
    <3> QED
      BY <3>2, <3>3, SameQueue DEF Ended
  <2>3. ASSUME NEW w \in Workers, Report(w)
        PROVE  \/ Accepted' = Accepted /\ Outcome' = Outcome
               \/ \E r \in Requests : Queue!Finish(r)
    BY <2>3, ReportFinishes DEF Queue!Finish, Queue!Open, Accepted, Outcome, OutcomeOf
  <2>4. ASSUME NEW w \in Workers, Crash(w) PROVE Accepted' = Accepted /\ Outcome' = Outcome
    BY <2>4 DEF Crash, Accepted, Outcome, OutcomeOf
  <2>5. CASE RecoverStale
    <3>1. /\ DOMAIN rows' = DOMAIN rows
          /\ \A i \in DOMAIN rows :
                /\ rows'[i].request = rows[i].request
                /\ \/ rows'[i] = rows[i]
                   \/ rows'[i].status = "queued" /\ rows[i].status = "running"
      BY <2>5 DEF RecoverStale, CommandsInv, CommandsType, RowType
    <3> QED
      BY <3>1, SameQueue DEF Ended
  <2>6. ASSUME NEW id \in DOMAIN rows, LeaseRunsOut(id) PROVE Accepted' = Accepted /\ Outcome' = Outcome
    <3>1. /\ DOMAIN rows' = DOMAIN rows
          /\ \A i \in DOMAIN rows : rows'[i].request = rows[i].request /\ rows'[i].status = rows[i].status
      BY <2>6 DEF LeaseRunsOut, Set, CommandsInv, CommandsType, RowType
    <3> QED
      BY <3>1, SameQueue
  <2>7. CASE UNCHANGED commandVars
    BY <2>7 DEF commandVars, Accepted, Outcome, OutcomeOf
  <2> QED
    BY <2>1, <2>2, <2>3, <2>4, <2>5, <2>6, <2>7 DEF CommandsNext
<1> QED
  BY <1>1, <1>2, CommandsInitially, CommandsStepPreserves, PTL DEF CommandsSpec
=============================================================================
