---------------------------- MODULE ArtifactCache ----------------------------
(***************************************************************************)
(* The hosted artifact cache: what users were granted (entitlements.py),   *)
(* the inputs an analysis may read (scoped_inputs.py), and the artifacts   *)
(* and runs computed from them (artifact_cache.py).                        *)
(*                                                                         *)
(* Content hashes are taken to be free of collisions, so an identifier is  *)
(* the content it was computed from: a snapshot is its owner, observations *)
(* and policy, an artifact its key. Payloads are left out. A caller passes *)
(* the key and what it computed from as separate arguments; they agree     *)
(* only where the code compares them.                                      *)
(***************************************************************************)
EXTENDS Integers, FiniteSets

CONSTANTS
    Users, Observations, Policies, Projects,
    ProviderResults, \* what a provider run may return
    ReturnSettings,  \* what a returns key says besides its quotes: listing, dividends, window
    MaxSnapshots, MaxInputs, MaxArtifacts, MaxRuns

ASSUME CacheAssumption == "none" \notin Users /\ ProviderResults \subseteq SUBSET Observations

VARIABLES
    grants,      \* grants_by_user: the observations granted to each user
    deleted,     \* deleted_users
    snapshots,   \* snapshots_by_user_hash: each snapshot with its parent
    current,     \* current_snapshot_by_user
    inputs,      \* the ScopedMarketInputs callers hold
    artifacts,   \* artifacts_by_id: each artifact with its dependency_ids
    refs,        \* refs: which snapshot of which user may see an artifact
    misnamed,    \* auxiliary: univariate ids asked for with returns the key does not name
    owner,       \* project_owner_by_id
    pointer,     \* current_snapshot_by_project_id
    runs         \* runs_by_id

entitlementVars == <<grants, deleted, snapshots, current>>
runVars == <<owner, pointer, runs>>
cacheVars == <<entitlementVars, inputs, artifacts, refs, misnamed, runVars>>

NoSnapshot == [user |-> "none"]
NoUser == "none"

Snapshot(user, observations, policy) ==
    [user |-> user, observations |-> observations, policy |-> policy]

KnownSnapshots == {entry.id : entry \in snapshots}

-----------------------------------------------------------------------------
(* Entitlements.                                                           *)

(* publish_user_data_snapshot for a provider run that succeeded. Grants    *)
(* only grow; a snapshot that exists keeps the parent it was made with.    *)
PublishSnapshot(user, returned, policy) ==
    LET granted == grants[user] \cup returned
        id == Snapshot(user, granted, policy)
    IN  /\ returned # {}
        /\ user \notin deleted
        /\ grants' = [grants EXCEPT ![user] = granted]
        /\ snapshots' = IF id \in KnownSnapshots THEN snapshots
                        ELSE snapshots \cup {[id |-> id, parent |-> current[user]]}
        /\ Cardinality(snapshots') <= MaxSnapshots
        /\ current' = [current EXCEPT ![user] = id]
        /\ UNCHANGED <<deleted, inputs, artifacts, refs, misnamed, runVars>>

(* delete_user_entitlements: snapshots stay, but resolve no longer.        *)
DeleteEntitlements(user) ==
    /\ deleted' = deleted \cup {user}
    /\ grants' = [grants EXCEPT ![user] = {}]
    /\ current' = [current EXCEPT ![user] = NoSnapshot]
    /\ UNCHANGED <<snapshots, inputs, artifacts, refs, misnamed, runVars>>

(* resolve_user_snapshot, with an identifier.                              *)
Resolves(user, id) == user \notin deleted /\ id \in KnownSnapshots /\ id.user = user

(* EntitledSnapshotReader.read_inputs. The caller keeps what it read; no   *)
(* later step asks the entitlements again.                                 *)
ReadInputs(user, id, members) ==
    /\ Resolves(user, id)
    /\ members # {} /\ members \subseteq id.observations
    /\ inputs' = inputs \cup {[snapshot |-> id, members |-> members]}
    /\ Cardinality(inputs') <= MaxInputs
    /\ UNCHANGED <<entitlementVars, artifacts, refs, misnamed, runVars>>

-----------------------------------------------------------------------------
(* The cache.                                                              *)

MaySee(snapshot, id) == <<snapshot, id>> \in refs

(* get_or_create and grant_ref.                                            *)
CreateArtifact(snapshot, id, dependencies) ==
    /\ artifacts' = IF \E a \in artifacts : a.id = id THEN artifacts
                    ELSE artifacts \cup {[id |-> id, dependencies |-> dependencies]}
    /\ Cardinality(artifacts') <= MaxArtifacts
    /\ refs' = refs \cup {<<snapshot, id>>}
    /\ UNCHANGED <<entitlementVars, inputs, runVars>>

(* The key's quotes are a hash, which stands for the snapshot and the      *)
(* members of a selection; _assert_key_matches_inputs compares it, and     *)
(* nothing else of the key: its listing need not be one of the members.    *)
CreateReturns(in, quotes, settings) ==
    /\ quotes = in
    /\ CreateArtifact(in.snapshot, [kind |-> "returns", settings |-> settings, of |-> quotes],
                      {in.snapshot})
    /\ UNCHANGED misnamed

(* The reference to the artifact passed is required, and that artifact is  *)
(* what is depended on; the returns the key names are not looked at.       *)
CreateUnivariate(in, returns, named) ==
    LET id == [kind |-> "univariate", of |-> named]
    IN  /\ MaySee(in.snapshot, returns)
        /\ CreateArtifact(in.snapshot, id, {returns})
        /\ misnamed' = IF named = returns THEN misnamed ELSE misnamed \cup {id}

(* Fault: the reference to the second artifact is not required.            *)
Fault_CreateBivariate(in, left, right, named) ==
    /\ left # right /\ named = {left, right}
    /\ MaySee(in.snapshot, left)
    /\ CreateArtifact(in.snapshot,
                      [kind |-> "bivariate", of |-> named, alignment |-> <<left, right>>], named)
    /\ UNCHANGED misnamed

(* Here the two the key names must be the two that are passed. The key     *)
(* orders them; the hash of the aligned rows does not, it has the left     *)
(* artifact's values before the right one's.                               *)
CreateBivariate(in, left, right, named) ==
    /\ left # right /\ named = {left, right}
    /\ \A d \in named : MaySee(in.snapshot, d)
    /\ CreateArtifact(in.snapshot,
                      [kind |-> "bivariate", of |-> named, alignment |-> <<left, right>>], named)
    /\ UNCHANGED misnamed

(* create_portfolio_artifact: the artifact is stored before publish_run    *)
(* decides whether the project may have the run, and stays if it may not.  *)
CreatePortfolio(in, dependencies, project) ==
    LET id == [kind |-> "portfolio", of |-> dependencies]
        run == [user |-> in.snapshot.user, project |-> project, snapshot |-> in.snapshot,
                artifact |-> id]
    IN  /\ \A a \in dependencies : MaySee(in.snapshot, a)
        /\ artifacts' = IF \E a \in artifacts : a.id = id THEN artifacts
                        ELSE artifacts \cup {[id |-> id, dependencies |-> dependencies]}
        /\ Cardinality(artifacts') <= MaxArtifacts
        /\ runs' = IF owner[project] = in.snapshot.user /\ pointer[project] = in.snapshot
                   THEN runs \cup {run} ELSE runs
        /\ Cardinality(runs') <= MaxRuns
        /\ UNCHANGED <<entitlementVars, inputs, refs, misnamed, owner, pointer>>

-----------------------------------------------------------------------------
(* Projects and their runs.                                                *)

(* create_project, also for a project the user already owns, and           *)
(* set_current_snapshot. Neither asks whether the snapshot is the user's.  *)
PointProject(user, project, snapshot) ==
    /\ owner[project] \in {NoUser, user}
    /\ owner' = [owner EXCEPT ![project] = user]
    /\ pointer' = [pointer EXCEPT ![project] = snapshot]
    /\ UNCHANGED <<entitlementVars, inputs, artifacts, refs, misnamed, runs>>

(* require_run: the runs a user can open.                                  *)
OpenRuns(user, project) ==
    {run \in runs : /\ owner[project] = user
                    /\ run.user = user /\ run.project = project
                    /\ run.snapshot = pointer[project]}

-----------------------------------------------------------------------------
CacheInit ==
    /\ grants = [u \in Users |-> {}]
    /\ deleted = {}
    /\ snapshots = {}
    /\ current = [u \in Users |-> NoSnapshot]
    /\ inputs = {}
    /\ artifacts = {}
    /\ refs = {}
    /\ misnamed = {}
    /\ owner = [p \in Projects |-> NoUser]
    /\ pointer = [p \in Projects |-> NoSnapshot]
    /\ runs = {}

ArtifactIds == {a.id : a \in artifacts}

(* The returns a key may name, whether there is such an artifact or not.   *)
NamedReturns ==
    {[kind |-> "returns", settings |-> settings, of |-> in] :
        settings \in ReturnSettings, in \in inputs}

CacheNext ==
    \/ \E u \in Users, returned \in ProviderResults, policy \in Policies :
          PublishSnapshot(u, returned, policy)
    \/ \E u \in Users : DeleteEntitlements(u)
    \/ \E u \in Users, id \in KnownSnapshots :
          \/ \E members \in SUBSET Observations : ReadInputs(u, id, members)
          \/ \E p \in Projects : PointProject(u, p, id)
    \/ \E in \in inputs :
          \/ \E quotes \in inputs, settings \in ReturnSettings :
                CreateReturns(in, quotes, settings)
          \/ \E a \in ArtifactIds, named \in NamedReturns : CreateUnivariate(in, a, named)
          \/ \E a, b \in ArtifactIds, named \in SUBSET ArtifactIds :
                CreateBivariate(in, a, b, named)
          \/ \E p \in Projects, dependencies \in SUBSET ArtifactIds \ {{}} :
                CreatePortfolio(in, dependencies, p)

CacheSpec == CacheInit /\ [][CacheNext]_cacheVars

-----------------------------------------------------------------------------
(* What must hold.                                                         *)

(* The current snapshot of a user holds exactly what the user was granted, *)
(* and every snapshot more than the one before it, or another policy.      *)
SnapshotsFollowGrants ==
    /\ \A u \in Users : current[u] # NoSnapshot =>
          /\ current[u] \in KnownSnapshots
          /\ current[u].user = u /\ current[u].observations = grants[u]
    /\ \A s \in snapshots : s.parent # NoSnapshot =>
          /\ s.parent \in KnownSnapshots /\ s.parent.user = s.id.user
          /\ s.parent.observations \subseteq s.id.observations
          /\ s.parent # s.id

(* What a caller reads was granted to the owner of the snapshot, and, as   *)
(* long as the user is not deleted, still is.                              *)
InputsWereGranted ==
    \A in \in inputs :
        /\ in.snapshot \in KnownSnapshots /\ in.members \subseteq in.snapshot.observations
        /\ in.snapshot.user \in deleted \/ in.members \subseteq grants[in.snapshot.user]

(* All an artifact was computed from may be seen in the snapshot: returns  *)
(* only in the very one they were read in.                                 *)
Closed(snapshot, a) ==
    IF a.id.kind = "returns" THEN a.dependencies = {snapshot}
    ELSE \A d \in a.dependencies : MaySee(snapshot, d)

(* A snapshot that may see an artifact may see all it was computed from,   *)
(* whoever created it first. A key that names other returns than were      *)
(* passed with it spoils this for its own identifier and for no other.     *)
RefsAreClosed ==
    \A ref \in refs :
        \E a \in artifacts : a.id = ref[2] /\ (a.id \in misnamed \/ Closed(ref[1], a))

(* A run belongs to the owner of its project, its artifact exists and all  *)
(* inputs of the artifact are visible in the snapshot of the run.          *)
RunsAreOwned ==
    \A run \in runs :
        /\ owner[run.project] = run.user /\ run.snapshot.user = run.user
        /\ \E a \in artifacts :
              a.id = run.artifact /\ \A d \in a.dependencies : MaySee(run.snapshot, d)

(* A user sees an analysis only through what was granted to that user:     *)
(* snapshots follow the grants, inputs were granted, references are closed *)
(* over what an artifact depends on, except for univariate identifiers     *)
(* somebody asked for with other returns than the key names, and runs are  *)
(* their project owner's (publish_user_data_snapshot, read_inputs,         *)
(* create_*_artifact, publish_run).                                        *)
EvidenceIsGranted ==
    SnapshotsFollowGrants /\ InputsWereGranted /\ RefsAreClosed /\ RunsAreOwned

-----------------------------------------------------------------------------
(* What docs and comments say and the code does not keep.                  *)

(* "Create or reuse a univariate artifact after dependency authorization"  *)
(* (create_univariate_artifact): a key that names other returns than were  *)
(* passed is answered with what was computed from the ones it names, or    *)
(* stores under their name what was computed from others.                  *)
AllRefsAreClosed == \A ref \in refs : \E a \in artifacts : a.id = ref[2] /\ Closed(ref[1], a)
=============================================================================
