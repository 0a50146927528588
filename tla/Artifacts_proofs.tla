--------------------------- MODULE Artifacts_proofs ---------------------------
(***************************************************************************)
(* What publishers of artifact files were told is there to be read, for    *)
(* any publishers, processes, names and crashes; and a user of the cache   *)
(* of artifacts sees only what was granted to that user, for any users,    *)
(* observations and bounds.                                                *)
(***************************************************************************)
EXTENDS ArtifactStore, ArtifactCache, TLAPS

-----------------------------------------------------------------------------
(* The artifact files.                                                     *)

Publication == [step : {"data", "manifest"}, name : ArtifactNames, content : StoredBytes]

StoreType ==
    /\ data \in [ArtifactNames -> StoredBytes \cup {Missing}]
    /\ manifest \in [ArtifactNames -> StoredBytes \cup {Missing}]
    /\ publishing \in [Publishers -> Publication \cup {Resting}]
    /\ lock \in [Processes -> Publishers \cup {Unlocked}]
    /\ acknowledged \subseteq ArtifactNames \X (StoredBytes \ {Missing})

Busy(p) == publishing[p] # Resting

\* One thread of a process publishes at a time, and it publishes what it offers.
OneAtATime ==
    \A p \in Publishers : Busy(p) =>
        /\ lock[ProcessOf[p]] = p
        /\ <<publishing[p].name, publishing[p].content>> \in Offers[p]

\* The bytes under a name in the middle of its publication are those published,
\* since only another process can have written them.
BytesAgree ==
    \A p \in Publishers : Busy(p) =>
        \/ data[publishing[p].name] = publishing[p].content
        \/ /\ publishing[p].step = "data"
           /\ data[publishing[p].name] = Missing

ManifestsFollow == \A n \in ArtifactNames : manifest[n] # Missing => data[n] = manifest[n]

Served == \A a \in acknowledged : manifest[a[1]] = a[2]

StoreInv == StoreType /\ OneAtATime /\ BytesAgree /\ ManifestsFollow /\ Served

-----------------------------------------------------------------------------
\* Two publishers in the middle of one name publish the same bytes.
LEMMA PublishersAgree ==
    ASSUME StoreInv, NEW p \in Publishers, NEW q \in Publishers, Busy(p), Busy(q),
           publishing[p].name = publishing[q].name
    PROVE  publishing[p].content = publishing[q].content
<1>1. CASE p = q
  BY <1>1
<1>2. CASE p # q
  <2>1. ProcessOf[p] # ProcessOf[q]
    BY <1>2 DEF StoreInv, OneAtATime
  <2>2. <<publishing[p].name, publishing[p].content>> \in Offers[p]
        /\ <<publishing[q].name, publishing[q].content>> \in Offers[q]
    BY DEF StoreInv, OneAtATime
  <2> QED
    BY <2>1, <2>2, OffersAgree
<1> QED
  BY <1>1, <1>2

LEMMA StoreInitially == StoreInit => StoreInv
BY DEF StoreInit, StoreInv, StoreType, OneAtATime, BytesAgree, ManifestsFollow, Served, Busy

LEMMA BeginPublishPreserves ==
    ASSUME StoreInv, NEW p \in Publishers, NEW offer \in Offers[p],
           BeginPublish(p, offer[1], offer[2])
    PROVE  StoreInv'
<1> DEFINE n == offer[1]
           c == offer[2]
<1>0. n \in ArtifactNames /\ c \in StoredBytes /\ c # Missing /\ offer = <<n, c>>
      /\ ProcessOf[p] \in Processes
  BY StoreAssumption DEF Missing, Processes
<1>1. CASE data[n] = Missing /\ manifest[n] = Missing
  <2> DEFINE made == [step |-> "data", name |-> n, content |-> c]
  <2>1. /\ publishing' = [publishing EXCEPT ![p] = made]
        /\ lock' = [lock EXCEPT ![ProcessOf[p]] = p]
        /\ publishing[p] = Resting /\ lock[ProcessOf[p]] = Unlocked
        /\ UNCHANGED <<data, manifest, acknowledged>>
    BY <1>1 DEF BeginPublish
  <2>2. made \in Publication /\ made.name = n /\ made.content = c /\ made.step = "data"
    BY <1>0 DEF Publication
  <2> HIDE DEF made
  <2>3. StoreType'
    BY <2>1, <2>2, <1>0 DEF StoreInv, StoreType
  <2>4. \A q \in Publishers : publishing'[q] = IF q = p THEN made ELSE publishing[q]
    BY <2>1 DEF StoreInv, StoreType
  <2>5. ASSUME NEW q \in Publishers, Busy(q)', q # p
        PROVE  Busy(q) /\ lock'[ProcessOf[q]] = q
    <3>1. Busy(q)
      BY <2>4, <2>5 DEF Busy
    <3>2. lock[ProcessOf[q]] = q
      BY <3>1 DEF StoreInv, OneAtATime
    <3>3. ProcessOf[q] # ProcessOf[p]
      BY <3>2, <2>1, StoreAssumption DEF Unlocked
    <3> QED
      BY <3>1, <3>2, <3>3, <2>1 DEF StoreInv, StoreType
  <2>6. lock'[ProcessOf[p]] = p
    BY <2>1, <1>0 DEF StoreInv, StoreType
  <2>7. OneAtATime'
    BY <2>2, <2>4, <2>5, <2>6, <1>0 DEF StoreInv, OneAtATime
  <2>8. BytesAgree'
    BY <2>1, <2>2, <2>4, <2>5, <1>1 DEF StoreInv, BytesAgree
  <2> QED
    BY <2>1, <2>3, <2>7, <2>8 DEF StoreInv, ManifestsFollow, Served
<1>2. CASE ~(data[n] = Missing /\ manifest[n] = Missing)
  <2>1. UNCHANGED <<data, manifest, publishing, lock>>
    BY <1>2 DEF BeginPublish
  <2>2. \/ acknowledged' = acknowledged
        \/ acknowledged' = acknowledged \cup {<<n, c>>} /\ manifest[n] = c
    BY <1>2 DEF BeginPublish, Readable
  <2>3. acknowledged' \subseteq ArtifactNames \X (StoredBytes \ {Missing}) /\ Served'
    BY <2>1, <2>2, <1>0 DEF StoreInv, StoreType, Served
  <2>4. StoreType'
    BY <2>1, <2>3 DEF StoreInv, StoreType
  <2>5. OneAtATime' /\ BytesAgree' /\ ManifestsFollow'
    BY <2>1 DEF StoreInv, OneAtATime, BytesAgree, ManifestsFollow, Busy
  <2> QED
    BY <2>3, <2>4, <2>5 DEF StoreInv
<1> QED
  BY <1>1, <1>2

\* What a step at a later step of the same publication looks like.
LEMMA BusyIsTyped ==
    ASSUME StoreInv, NEW p \in Publishers, publishing[p].step \in {"data", "manifest"}
    PROVE  /\ Busy(p) /\ publishing[p] \in Publication
           /\ publishing[p].content # Missing /\ ProcessOf[p] \in Processes
<1>1. Busy(p) /\ ProcessOf[p] \in Processes
  BY DEF Busy, Resting, Processes
<1>2. publishing[p] \in Publication
  BY <1>1 DEF Busy, StoreInv, StoreType
<1> QED
  BY <1>1, <1>2, StoreAssumption DEF StoreInv, OneAtATime, Missing

LEMMA WriteDataPreserves ==
    ASSUME StoreInv, NEW p \in Publishers, WriteData(p)
    PROVE  StoreInv'
<1> DEFINE n == publishing[p].name
           c == publishing[p].content
<1>1. /\ publishing[p].step = "data" /\ data' = [data EXCEPT ![n] = c]
      /\ publishing' = [publishing EXCEPT ![p].step = "manifest"]
      /\ UNCHANGED <<manifest, lock, acknowledged>>
  BY DEF WriteData
<1>2. Busy(p) /\ publishing[p] \in Publication /\ c # Missing
  BY <1>1, BusyIsTyped
<1>3. n \in ArtifactNames /\ c \in StoredBytes
  BY <1>2 DEF Publication
<1>4. \A m \in ArtifactNames : data'[m] = IF m = n THEN c ELSE data[m]
  BY <1>1 DEF StoreInv, StoreType
<1>5. \A q \in Publishers : /\ publishing'[q].name = publishing[q].name
                            /\ publishing'[q].content = publishing[q].content
                            /\ Busy(q)' => Busy(q)
                            /\ q # p => publishing'[q] = publishing[q]
  BY <1>1, <1>2 DEF StoreInv, StoreType, Busy, Publication
<1>6. StoreType'
  <2>1. [publishing[p] EXCEPT !.step = "manifest"] \in Publication
    BY <1>2 DEF Publication
  <2> QED
    BY <2>1, <1>1, <1>3 DEF StoreInv, StoreType
<1>7. OneAtATime'
  BY <1>1, <1>5 DEF StoreInv, OneAtATime
<1>8. BytesAgree'
  <2> SUFFICES ASSUME NEW q \in Publishers, Busy(q)'
               PROVE  \/ data'[publishing'[q].name] = publishing'[q].content
                      \/ /\ publishing'[q].step = "data"
                         /\ data'[publishing'[q].name] = Missing
    BY DEF BytesAgree
  <2>1. Busy(q) /\ publishing[q] \in Publication
    BY <1>5 DEF Busy, StoreInv, StoreType
  <2>2. CASE publishing[q].name = n
    BY <2>1, <2>2, <1>2, <1>3, <1>4, <1>5, PublishersAgree
  <2>3. CASE publishing[q].name # n
    BY <2>1, <2>3, <1>4, <1>5, <1>2 DEF StoreInv, BytesAgree, Publication
  <2> QED
    BY <2>2, <2>3
<1>9. ManifestsFollow'
  <2>1. manifest[n] # Missing => data[n] = c
    BY <1>2, <1>3 DEF StoreInv, BytesAgree, ManifestsFollow
  <2> QED
    BY <2>1, <1>1, <1>4 DEF StoreInv, ManifestsFollow
<1> QED
  BY <1>1, <1>6, <1>7, <1>8, <1>9 DEF StoreInv, Served

LEMMA WriteManifestPreserves ==
    ASSUME StoreInv, NEW p \in Publishers, WriteManifest(p)
    PROVE  StoreInv'
<1> DEFINE n == publishing[p].name
           c == publishing[p].content
<1>1. /\ publishing[p].step = "manifest" /\ manifest' = [manifest EXCEPT ![n] = c]
      /\ acknowledged' = acknowledged \cup {<<n, c>>}
      /\ publishing' = [publishing EXCEPT ![p] = Resting]
      /\ lock' = [lock EXCEPT ![ProcessOf[p]] = Unlocked]
      /\ UNCHANGED data
  BY DEF WriteManifest
<1>2. Busy(p) /\ publishing[p] \in Publication /\ c # Missing /\ ProcessOf[p] \in Processes
  BY <1>1, BusyIsTyped
<1>3. n \in ArtifactNames /\ c \in StoredBytes /\ data[n] = c
  BY <1>1, <1>2 DEF Publication, StoreInv, BytesAgree
<1>4. \A q \in Publishers : Busy(q)' => q # p /\ Busy(q) /\ publishing'[q] = publishing[q]
  BY <1>1 DEF StoreInv, StoreType, Busy
<1>5. StoreType'
  BY <1>1, <1>2, <1>3 DEF StoreInv, StoreType
<1>6. OneAtATime'
  <2> SUFFICES ASSUME NEW q \in Publishers, Busy(q)'
               PROVE  /\ lock'[ProcessOf[q]] = q
                      /\ <<publishing'[q].name, publishing'[q].content>> \in Offers[q]
    BY DEF OneAtATime
  <2>1. q # p /\ lock[ProcessOf[q]] = q /\ lock[ProcessOf[p]] = p
    BY <1>2, <1>4 DEF StoreInv, OneAtATime
  <2> QED
    BY <2>1, <1>1, <1>4 DEF StoreInv, StoreType, OneAtATime
<1>7. BytesAgree'
  BY <1>1, <1>4 DEF StoreInv, BytesAgree
<1>8. \A m \in ArtifactNames : manifest'[m] = IF m = n THEN c ELSE manifest[m]
  BY <1>1 DEF StoreInv, StoreType
<1>9. ManifestsFollow'
  BY <1>1, <1>3, <1>8 DEF StoreInv, ManifestsFollow
<1>10. Served'
  <2> SUFFICES ASSUME NEW a \in acknowledged'
               PROVE  manifest'[a[1]] = a[2]
    BY DEF Served
  <2>1. CASE a = <<n, c>>
    BY <2>1, <1>3, <1>8
  <2>2. CASE a \in acknowledged
    <3>1. a[1] \in ArtifactNames /\ a[2] # Missing /\ manifest[a[1]] = a[2]
      BY <2>2 DEF StoreInv, StoreType, Served
    <3>2. data[a[1]] = a[2]
      BY <3>1 DEF StoreInv, ManifestsFollow
    <3> QED
      BY <3>1, <3>2, <1>3, <1>8
  <2> QED
    BY <2>1, <2>2, <1>1
<1> QED
  BY <1>5, <1>6, <1>7, <1>9, <1>10 DEF StoreInv

LEMMA StoreCrashPreserves ==
    ASSUME StoreInv, NEW process \in Processes, StoreCrash(process)
    PROVE  StoreInv'
<1>1. /\ publishing' = [p \in Publishers |->
                           IF ProcessOf[p] = process THEN Resting ELSE publishing[p]]
      /\ lock' = [lock EXCEPT ![process] = Unlocked]
      /\ UNCHANGED <<data, manifest, acknowledged>>
  BY DEF StoreCrash
<1>2. \A q \in Publishers : Busy(q)' =>
         Busy(q) /\ publishing'[q] = publishing[q] /\ ProcessOf[q] # process
  BY <1>1 DEF Busy
<1>3. StoreType'
  BY <1>1 DEF StoreInv, StoreType
<1>4. OneAtATime' /\ BytesAgree'
  BY <1>1, <1>2 DEF StoreInv, StoreType, OneAtATime, BytesAgree, Processes
<1> QED
  BY <1>1, <1>3, <1>4 DEF StoreInv, ManifestsFollow, Served

\* What a publisher was told is published is served with its bytes ever after,
\* whoever publishes what else and whoever dies between the two files, and no
\* manifest is there before its bytes (publish_bytes, _publish_bytes, read).
THEOREM PublishedIsServed == StoreSpec => []AcknowledgedIsServed
<1>1. StoreInv /\ [StoreNext]_storeVars => StoreInv'
  <2> SUFFICES ASSUME StoreInv, [StoreNext]_storeVars PROVE StoreInv'
    OBVIOUS
  <2>1. CASE UNCHANGED storeVars
    BY <2>1 DEF storeVars, StoreInv, StoreType, OneAtATime, BytesAgree, ManifestsFollow, Served, Busy
  <2>2. CASE StoreNext
    BY <2>2, BeginPublishPreserves, WriteDataPreserves, WriteManifestPreserves, StoreCrashPreserves
       DEF StoreNext
  <2> QED
    BY <2>1, <2>2
<1>2. StoreInv => AcknowledgedIsServed
  BY DEF StoreInv, StoreType, ManifestsFollow, Served, AcknowledgedIsServed, Readable
<1> QED
  BY StoreInitially, <1>1, <1>2, PTL DEF StoreSpec

-----------------------------------------------------------------------------
(* The artifact cache.                                                     *)

CacheType ==
    /\ grants \in [Users -> SUBSET Observations]
    /\ current \in [Users -> KnownSnapshots \cup {NoSnapshot}]
    /\ owner \in [Projects -> Users \cup {NoUser}]
    /\ \A run \in runs : run.project \in Projects /\ run.user \in Users

\* A snapshot holds what its owner was granted before or is granted now.
SnapshotsGranted ==
    \A id \in KnownSnapshots :
        /\ id.user \in Users
        /\ id.user \in deleted \/ id.observations \subseteq grants[id.user]

\* The key of an artifact says what it depends on, so whoever asks for a key
\* again depends on the same as who created it; only univariate keys may have
\* been used with other returns than they name.
DependenciesOf(id) ==
    CASE id.kind = "returns" -> {id.of.snapshot}
      [] id.kind = "univariate" -> {id.of}
      [] id.kind \in {"bivariate", "portfolio"} -> id.of

KeysTell ==
    /\ \A id \in misnamed : id.kind = "univariate"
    /\ \A a \in artifacts : a.id \in misnamed \/ a.dependencies = DependenciesOf(a.id)

CacheInv == CacheType /\ SnapshotsGranted /\ KeysTell /\ EvidenceIsGranted

LEMMA CacheInitially == CacheInit => CacheInv
BY DEF CacheInit, CacheInv, CacheType, SnapshotsGranted, KeysTell, EvidenceIsGranted, KnownSnapshots,
       SnapshotsFollowGrants, InputsWereGranted, RefsAreClosed, RunsAreOwned

LEMMA PublishSnapshotPreserves ==
    ASSUME CacheInv, NEW user \in Users, NEW returned \in ProviderResults, NEW policy \in Policies,
           PublishSnapshot(user, returned, policy)
    PROVE  CacheInv'
<1> DEFINE granted == grants[user] \cup returned
           id == Snapshot(user, granted, policy)
<1>1. /\ user \notin deleted /\ grants' = [grants EXCEPT ![user] = granted]
      /\ current' = [current EXCEPT ![user] = id]
      /\ \/ id \in KnownSnapshots /\ snapshots' = snapshots
         \/ id \notin KnownSnapshots /\ snapshots' = snapshots \cup {[id |-> id, parent |-> current[user]]}
      /\ UNCHANGED <<deleted, inputs, artifacts, refs, misnamed, owner, pointer, runs>>
  BY DEF PublishSnapshot, runVars
<1>2. id.user = user /\ id.observations = granted
  BY DEF Snapshot
<1> HIDE DEF id
<1>3. KnownSnapshots' = KnownSnapshots \cup {id}
  <2>1. CASE id \in KnownSnapshots
    BY <2>1, <1>1 DEF KnownSnapshots
  <2>2. CASE id \notin KnownSnapshots
    <3> DEFINE entry == [id |-> id, parent |-> current[user]]
    <3>1. snapshots' = snapshots \cup {entry} /\ entry.id = id
      BY <2>2, <1>1
    <3> HIDE DEF entry
    <3> QED
      BY <3>1 DEF KnownSnapshots
  <2> QED
    BY <2>1, <2>2
<1>4. /\ granted \in SUBSET Observations
      /\ \A u \in Users : grants'[u] = IF u = user THEN granted ELSE grants[u]
      /\ \A u \in Users : current'[u] = IF u = user THEN id ELSE current[u]
  BY <1>1, CacheAssumption DEF CacheInv, CacheType
<1>5. CacheType'
  BY <1>1, <1>3, <1>4 DEF CacheInv, CacheType
<1>6. SnapshotsGranted'
  BY <1>1, <1>2, <1>3, <1>4 DEF CacheInv, SnapshotsGranted
<1>7. SnapshotsFollowGrants'
  <2>1. ASSUME NEW u \in Users, current'[u] # NoSnapshot
        PROVE  current'[u] \in KnownSnapshots' /\ current'[u].user = u
               /\ current'[u].observations = grants'[u]
    BY <2>1, <1>2, <1>3, <1>4 DEF CacheInv, EvidenceIsGranted, SnapshotsFollowGrants
  <2>2. ASSUME NEW s \in snapshots', s.parent # NoSnapshot
        PROVE  /\ s.parent \in KnownSnapshots' /\ s.parent.user = s.id.user
               /\ s.parent.observations \subseteq s.id.observations /\ s.parent # s.id
    <3>1. CASE s \in snapshots
      BY <3>1, <2>2, <1>3 DEF CacheInv, EvidenceIsGranted, SnapshotsFollowGrants
    <3>2. CASE s \notin snapshots
      <4>1. s.id = id /\ s.parent = current[user] /\ id \notin KnownSnapshots
        BY <3>2, <1>1
      <4> QED
        BY <4>1, <2>2, <1>2, <1>3 DEF CacheInv, EvidenceIsGranted, SnapshotsFollowGrants
    <3> QED
      BY <3>1, <3>2
  <2> QED
    BY <2>1, <2>2 DEF SnapshotsFollowGrants
<1>8. InputsWereGranted'
  BY <1>1, <1>3, <1>4 DEF CacheInv, EvidenceIsGranted, InputsWereGranted, SnapshotsGranted
<1> QED
  BY <1>1, <1>5, <1>6, <1>7, <1>8
     DEF CacheInv, KeysTell, EvidenceIsGranted, RefsAreClosed, Closed, RunsAreOwned, MaySee

LEMMA DeleteEntitlementsPreserves ==
    ASSUME CacheInv, NEW user \in Users, DeleteEntitlements(user)
    PROVE  CacheInv'
<1>1. /\ deleted' = deleted \cup {user} /\ grants' = [grants EXCEPT ![user] = {}]
      /\ current' = [current EXCEPT ![user] = NoSnapshot]
      /\ UNCHANGED <<snapshots, inputs, artifacts, refs, misnamed, owner, pointer, runs>>
  BY DEF DeleteEntitlements, runVars
<1>2. KnownSnapshots' = KnownSnapshots
  BY <1>1 DEF KnownSnapshots
<1>3. /\ \A u \in Users : grants'[u] = IF u = user THEN {} ELSE grants[u]
      /\ \A u \in Users : current'[u] = IF u = user THEN NoSnapshot ELSE current[u]
  BY <1>1 DEF CacheInv, CacheType
<1>4. CacheType'
  BY <1>1, <1>2 DEF CacheInv, CacheType
<1>5. SnapshotsGranted' /\ InputsWereGranted'
  BY <1>1, <1>2, <1>3 DEF CacheInv, SnapshotsGranted, EvidenceIsGranted, InputsWereGranted
<1>6. SnapshotsFollowGrants'
  BY <1>1, <1>2, <1>3 DEF CacheInv, EvidenceIsGranted, SnapshotsFollowGrants
<1> QED
  BY <1>1, <1>4, <1>5, <1>6
     DEF CacheInv, KeysTell, EvidenceIsGranted, RefsAreClosed, Closed, RunsAreOwned, MaySee

\* Nothing of the entitlements is touched by a step of the cache.
LEMMA EntitlementsStay ==
    ASSUME CacheInv, UNCHANGED entitlementVars
    PROVE  /\ KnownSnapshots' = KnownSnapshots /\ SnapshotsGranted' /\ SnapshotsFollowGrants'
           /\ UNCHANGED <<owner, runs>> => CacheType'
           /\ UNCHANGED inputs => InputsWereGranted'
<1>1. KnownSnapshots' = KnownSnapshots
  BY DEF entitlementVars, KnownSnapshots
<1>2. SnapshotsGranted' /\ SnapshotsFollowGrants'
  BY <1>1 DEF entitlementVars, CacheInv, SnapshotsGranted, EvidenceIsGranted, SnapshotsFollowGrants
<1>3. UNCHANGED <<owner, runs>> => CacheType'
  BY <1>1 DEF entitlementVars, CacheInv, CacheType
<1>4. UNCHANGED inputs => InputsWereGranted'
  BY <1>1 DEF entitlementVars, CacheInv, EvidenceIsGranted, InputsWereGranted
<1> QED
  BY <1>1, <1>2, <1>3, <1>4

LEMMA ReadInputsPreserves ==
    ASSUME CacheInv, NEW user \in Users, NEW id \in KnownSnapshots,
           NEW members \in SUBSET Observations, ReadInputs(user, id, members)
    PROVE  CacheInv'
<1>1. /\ user \notin deleted /\ id.user = user /\ members \subseteq id.observations
      /\ inputs' = inputs \cup {[snapshot |-> id, members |-> members]}
      /\ UNCHANGED <<grants, deleted, snapshots, current, artifacts, refs, misnamed, owner, pointer, runs>>
  BY DEF ReadInputs, Resolves, entitlementVars, runVars
<1>2. KnownSnapshots' = KnownSnapshots /\ SnapshotsGranted' /\ SnapshotsFollowGrants' /\ CacheType'
  BY <1>1, EntitlementsStay DEF entitlementVars
<1>3. members \subseteq grants[user]
  BY <1>1 DEF CacheInv, SnapshotsGranted
<1>4. InputsWereGranted'
  BY <1>1, <1>2, <1>3 DEF CacheInv, EvidenceIsGranted, InputsWereGranted
<1> QED
  BY <1>1, <1>2, <1>4 DEF CacheInv, KeysTell, EvidenceIsGranted, RefsAreClosed, Closed, RunsAreOwned, MaySee

\* get_or_create and grant_ref: the key's dependencies may be seen, or the key
\* is a univariate one that is used with what it does not name.
LEMMA CreateArtifactPreserves ==
    ASSUME CacheInv, NEW snapshot, NEW id, NEW dependencies,
           CreateArtifact(snapshot, id, dependencies),
           \/ /\ UNCHANGED misnamed
              /\ dependencies = DependenciesOf(id)
              /\ IF id.kind = "returns" THEN dependencies = {snapshot}
                 ELSE \A d \in dependencies : MaySee(snapshot, d)
           \/ misnamed' = misnamed \cup {id} /\ id.kind = "univariate"
    PROVE  CacheInv'
<1> DEFINE made == [id |-> id, dependencies |-> dependencies]
<1>1. /\ \/ \E a \in artifacts : a.id = id /\ artifacts' = artifacts
         \/ artifacts' = artifacts \cup {made}
      /\ refs' = refs \cup {<<snapshot, id>>}
      /\ UNCHANGED <<grants, deleted, snapshots, current, inputs, owner, pointer, runs>>
  BY DEF CreateArtifact, entitlementVars, runVars
<1>2. SnapshotsGranted' /\ SnapshotsFollowGrants' /\ CacheType' /\ InputsWereGranted'
  BY <1>1, EntitlementsStay DEF entitlementVars
<1>3. made.id = id /\ made.dependencies = dependencies
  OBVIOUS
<1> HIDE DEF made
<1>4. artifacts \subseteq artifacts' /\ \E a \in artifacts' : a.id = id
  BY <1>1, <1>3
<1>5. misnamed \subseteq misnamed' /\ \A other \in misnamed' : other.kind = "univariate"
  BY DEF CacheInv, KeysTell
<1>6. \A a \in artifacts' : a.id \in misnamed' \/ a.dependencies = DependenciesOf(a.id)
  <2> SUFFICES ASSUME NEW a \in artifacts'
               PROVE  a.id \in misnamed' \/ a.dependencies = DependenciesOf(a.id)
    OBVIOUS
  <2>1. CASE a \in artifacts
    BY <2>1, <1>5 DEF CacheInv, KeysTell
  <2>2. CASE a = made
    BY <2>2, <1>3
  <2> QED
    BY <2>1, <2>2, <1>1
<1>7. KeysTell'
  BY <1>5, <1>6 DEF KeysTell
<1>8. PICK b \in artifacts' : b.id = id
  BY <1>4
<1>9. b.id \in misnamed' \/ Closed(snapshot, b)'
  <2>1. CASE id \in misnamed'
    BY <2>1, <1>8
  <2>2. CASE id \notin misnamed'
    <3>1. b.dependencies = dependencies
      BY <2>2, <1>6, <1>8
    <3>2. IF b.id.kind = "returns" THEN b.dependencies = {snapshot}
          ELSE \A d \in b.dependencies : MaySee(snapshot, d)
      BY <2>2, <3>1, <1>8
    <3> QED
      BY <3>2, <1>1 DEF Closed, MaySee
  <2> QED
    BY <2>1, <2>2
<1>10. RefsAreClosed'
  <2> SUFFICES ASSUME NEW ref \in refs'
               PROVE  \E a \in artifacts' :
                         a.id = ref[2] /\ (a.id \in misnamed' \/ Closed(ref[1], a)')
    BY DEF RefsAreClosed
  <2>1. CASE ref \in refs
    <3>1. PICK a \in artifacts : a.id = ref[2] /\ (a.id \in misnamed \/ Closed(ref[1], a))
      BY <2>1 DEF CacheInv, EvidenceIsGranted, RefsAreClosed
    <3>2. a.id \in misnamed' \/ Closed(ref[1], a)'
      BY <3>1, <1>1, <1>5 DEF Closed, MaySee
    <3> QED
      BY <3>1, <3>2, <1>4
  <2>2. CASE ref = <<snapshot, id>>
    <3>1. ref[1] = snapshot /\ ref[2] = id
      BY <2>2
    <3> QED
      BY <3>1, <1>8, <1>9
  <2> QED
    BY <2>1, <2>2, <1>1
<1>11. RunsAreOwned'
  BY <1>1, <1>4 DEF CacheInv, EvidenceIsGranted, RunsAreOwned, MaySee
<1> QED
  BY <1>2, <1>7, <1>10, <1>11 DEF CacheInv, EvidenceIsGranted

LEMMA CreatePreserves ==
    ASSUME CacheInv, NEW in \in inputs,
           \/ \E quotes \in inputs, settings \in ReturnSettings :
                 CreateReturns(in, quotes, settings)
           \/ \E a \in ArtifactIds, named \in NamedReturns : CreateUnivariate(in, a, named)
           \/ \E a, b \in ArtifactIds, named \in SUBSET ArtifactIds :
                 CreateBivariate(in, a, b, named)
    PROVE  CacheInv'
<1>1. ASSUME NEW quotes \in inputs, NEW settings \in ReturnSettings,
             CreateReturns(in, quotes, settings)
      PROVE  CacheInv'
  <2> DEFINE id == [kind |-> "returns", settings |-> settings, of |-> quotes]
  <2>1. id.kind = "returns" /\ DependenciesOf(id) = {quotes.snapshot}
    BY DEF DependenciesOf
  <2>2. CreateArtifact(in.snapshot, id, {in.snapshot}) /\ quotes = in /\ UNCHANGED misnamed
    BY <1>1 DEF CreateReturns
  <2> HIDE DEF id
  <2> QED
    BY <2>1, <2>2, CreateArtifactPreserves
<1>2. ASSUME NEW a \in ArtifactIds, NEW named \in NamedReturns, CreateUnivariate(in, a, named)
      PROVE  CacheInv'
  <2> DEFINE id == [kind |-> "univariate", of |-> named]
  <2>1. id.kind = "univariate" /\ id.kind # "returns" /\ DependenciesOf(id) = {named}
    BY DEF DependenciesOf
  <2>2. /\ CreateArtifact(in.snapshot, id, {a}) /\ MaySee(in.snapshot, a)
        /\ misnamed' = IF named = a THEN misnamed ELSE misnamed \cup {id}
    BY <1>2 DEF CreateUnivariate
  <2> HIDE DEF id
  <2> QED
    BY <2>1, <2>2, CreateArtifactPreserves
<1>3. ASSUME NEW a \in ArtifactIds, NEW b \in ArtifactIds, NEW named \in SUBSET ArtifactIds,
             CreateBivariate(in, a, b, named)
      PROVE  CacheInv'
  <2> DEFINE id == [kind |-> "bivariate", of |-> named, alignment |-> <<a, b>>]
  <2>1. id.kind # "returns" /\ DependenciesOf(id) = named
    BY DEF DependenciesOf
  <2>2. /\ CreateArtifact(in.snapshot, id, named) /\ \A d \in named : MaySee(in.snapshot, d)
        /\ UNCHANGED misnamed
    BY <1>3 DEF CreateBivariate
  <2> HIDE DEF id
  <2> QED
    BY <2>1, <2>2, CreateArtifactPreserves
<1> QED
  BY <1>1, <1>2, <1>3

LEMMA CreatePortfolioPreserves ==
    ASSUME CacheInv, NEW in \in inputs, NEW dependencies \in SUBSET ArtifactIds,
           NEW project \in Projects, CreatePortfolio(in, dependencies, project)
    PROVE  CacheInv'
<1> DEFINE id == [kind |-> "portfolio", of |-> dependencies]
           made == [id |-> id, dependencies |-> dependencies]
           run == [user |-> in.snapshot.user, project |-> project, snapshot |-> in.snapshot,
                   artifact |-> id]
<1>1. /\ \A d \in dependencies : MaySee(in.snapshot, d)
      /\ \/ \E a \in artifacts : a.id = id /\ artifacts' = artifacts
         \/ artifacts' = artifacts \cup {made}
      /\ \/ runs' = runs
         \/ runs' = runs \cup {run} /\ owner[project] = in.snapshot.user
      /\ UNCHANGED <<grants, deleted, snapshots, current, inputs, refs, misnamed, owner, pointer>>
  BY DEF CreatePortfolio, entitlementVars
<1>2. SnapshotsGranted' /\ SnapshotsFollowGrants' /\ InputsWereGranted'
      /\ KnownSnapshots' = KnownSnapshots
  BY <1>1, EntitlementsStay DEF entitlementVars
<1>3. /\ DependenciesOf(id) = dependencies /\ id.kind = "portfolio"
      /\ made.id = id /\ made.dependencies = dependencies
      /\ run.user = in.snapshot.user /\ run.project = project /\ run.snapshot = in.snapshot
      /\ run.artifact = id
  BY DEF DependenciesOf
<1> HIDE DEF id, made, run
<1>4. artifacts \subseteq artifacts' /\ KeysTell' /\ \E a \in artifacts' : a.id = id
  BY <1>1, <1>3 DEF CacheInv, KeysTell
<1>5. PICK b \in artifacts' : b.id = id /\ b.dependencies = dependencies
  BY <1>3, <1>4 DEF KeysTell
<1>6. RefsAreClosed'
  BY <1>1, <1>4 DEF CacheInv, EvidenceIsGranted, RefsAreClosed, Closed, MaySee
<1>7. RunsAreOwned'
  <2> SUFFICES ASSUME NEW r \in runs'
               PROVE  /\ owner[r.project] = r.user /\ r.snapshot.user = r.user
                      /\ \E a \in artifacts' :
                            a.id = r.artifact /\ \A d \in a.dependencies : <<r.snapshot, d>> \in refs
    BY <1>1 DEF RunsAreOwned, MaySee
  <2>1. CASE r \in runs
    BY <2>1, <1>4 DEF CacheInv, EvidenceIsGranted, RunsAreOwned, MaySee
  <2>2. CASE r \notin runs
    <3>1. r = run /\ owner[project] = in.snapshot.user
      BY <2>2, <1>1
    <3> QED
      BY <3>1, <1>1, <1>3, <1>5 DEF MaySee
  <2> QED
    BY <2>1, <2>2
<1>8. in.snapshot.user \in Users
  BY DEF CacheInv, EvidenceIsGranted, InputsWereGranted, SnapshotsGranted
<1>9. CacheType'
  BY <1>1, <1>2, <1>3, <1>8 DEF CacheInv, CacheType
<1> QED
  BY <1>2, <1>4, <1>6, <1>7, <1>9 DEF CacheInv, EvidenceIsGranted

\* A project keeps its owner while others point projects of theirs.
LEMMA PointProjectPreserves ==
    ASSUME CacheInv, NEW user \in Users, NEW project \in Projects, NEW snapshot,
           PointProject(user, project, snapshot)
    PROVE  CacheInv'
<1>1. /\ owner[project] \in {NoUser, user} /\ owner' = [owner EXCEPT ![project] = user]
      /\ UNCHANGED <<grants, deleted, snapshots, current, inputs, artifacts, refs, misnamed, runs>>
  BY DEF PointProject, entitlementVars
<1>2. SnapshotsGranted' /\ SnapshotsFollowGrants' /\ InputsWereGranted'
      /\ KnownSnapshots' = KnownSnapshots
  BY <1>1, EntitlementsStay DEF entitlementVars
<1>3. CacheType'
  BY <1>1, <1>2 DEF CacheInv, CacheType
<1>4. \A run \in runs : owner'[run.project] = run.user
  BY <1>1, CacheAssumption DEF CacheInv, CacheType, EvidenceIsGranted, RunsAreOwned, NoUser
<1> QED
  BY <1>1, <1>2, <1>3, <1>4 DEF CacheInv, KeysTell, EvidenceIsGranted, RefsAreClosed, Closed, MaySee, RunsAreOwned

\* A user sees an analysis only through what was granted to that user, univariate
\* identifiers excepted that somebody asked for with other returns than the key
\* names (publish_user_data_snapshot, read_inputs, create_*_artifact, publish_run).
THEOREM SeenIsGranted == CacheSpec => []EvidenceIsGranted
<1>1. CacheInv /\ [CacheNext]_cacheVars => CacheInv'
  <2> SUFFICES ASSUME CacheInv, [CacheNext]_cacheVars PROVE CacheInv'
    OBVIOUS
  <2>1. CASE UNCHANGED cacheVars
    BY <2>1, EntitlementsStay DEF cacheVars, entitlementVars, runVars, CacheInv, KeysTell,
       EvidenceIsGranted, RefsAreClosed, Closed, RunsAreOwned, MaySee
  <2>2. CASE CacheNext
    BY <2>2, PublishSnapshotPreserves, DeleteEntitlementsPreserves, ReadInputsPreserves,
       PointProjectPreserves, CreatePreserves, CreatePortfolioPreserves DEF CacheNext
  <2> QED
    BY <2>1, <2>2
<1> QED
  BY CacheInitially, <1>1, PTL DEF CacheSpec, CacheInv
=============================================================================
