---------------------------- MODULE ArtifactStore ----------------------------
(***************************************************************************)
(* Publication of immutable artifacts below the data share                 *)
(* (portfell_artifacts/store.py): the bytes, then the manifest with their  *)
(* hash, each moved into place atomically. A process holds a lock while it *)
(* publishes; processes do not exclude each other.                         *)
(***************************************************************************)
EXTENDS Integers, FiniteSets

CONSTANTS
    ArtifactNames, StoredBytes,
    Publishers,      \* threads that publish
    ProcessOf,       \* the process a publisher runs in
    Offers,          \* <<name, content>> pairs each publisher may publish
    MaxStoreCrashes

ASSUME StoreAssumption ==
    /\ "unlocked" \notin Publishers
    /\ \A p \in Publishers : Offers[p] \subseteq ArtifactNames \X (StoredBytes \ {"missing"})

(* An artifact is named after what it was computed from: processes that    *)
(* publish the same name publish the same bytes.                           *)
ASSUME OffersAgree ==
    \A p, q \in Publishers : ProcessOf[p] # ProcessOf[q] =>
        \A o \in Offers[p], n \in Offers[q] : o[1] = n[1] => o[2] = n[2]

Missing == "missing"
Processes == {ProcessOf[p] : p \in Publishers}

VARIABLES
    data,          \* the .bin files
    manifest,      \* the content the .manifest.json files name
    publishing,    \* what a publisher is in the middle of
    lock,          \* _publish_lock of each process
    acknowledged,  \* <<name, content>> a publisher was told is published
    storeCrashes

storeVars == <<data, manifest, publishing, lock, acknowledged, storeCrashes>>

Resting == [step |-> "none"]
Unlocked == "unlocked"

\* read: both files exist and the bytes have the manifest's hash and size.
Readable(name) == manifest[name] # Missing /\ data[name] = manifest[name]

\* Fault: the check and the writes are not under the lock of the process.
Fault_BeginPublish(p, name, content) ==
    /\ publishing[p] = Resting
    /\ data[name] = Missing /\ manifest[name] = Missing
    /\ publishing' = [publishing EXCEPT ![p] = [step |-> "data", name |-> name, content |-> content]]
    /\ UNCHANGED <<data, manifest, lock, acknowledged, storeCrashes>>

\* publish_bytes up to the first write. What exists is verified and reused, or
\* refused: bytes that differ, a name with one file only, a failing check.
BeginPublish(p, name, content) ==
    /\ publishing[p] = Resting
    /\ lock[ProcessOf[p]] = Unlocked
    /\ IF data[name] = Missing /\ manifest[name] = Missing
       THEN /\ publishing' = [publishing EXCEPT
                                 ![p] = [step |-> "data", name |-> name, content |-> content]]
            /\ lock' = [lock EXCEPT ![ProcessOf[p]] = p]
            /\ UNCHANGED acknowledged
       ELSE /\ acknowledged' = IF Readable(name) /\ data[name] = content
                               THEN acknowledged \cup {<<name, content>>} ELSE acknowledged
            /\ UNCHANGED <<publishing, lock>>
    /\ UNCHANGED <<data, manifest, storeCrashes>>

WriteData(p) ==
    /\ publishing[p].step = "data"
    /\ data' = [data EXCEPT ![publishing[p].name] = publishing[p].content]
    /\ publishing' = [publishing EXCEPT ![p].step = "manifest"]
    /\ UNCHANGED <<manifest, lock, acknowledged, storeCrashes>>

WriteManifest(p) ==
    /\ publishing[p].step = "manifest"
    /\ manifest' = [manifest EXCEPT ![publishing[p].name] = publishing[p].content]
    /\ acknowledged' = acknowledged \cup {<<publishing[p].name, publishing[p].content>>}
    /\ publishing' = [publishing EXCEPT ![p] = Resting]
    /\ lock' = [lock EXCEPT ![ProcessOf[p]] = Unlocked]
    /\ UNCHANGED <<data, storeCrashes>>

\* The files stay as they are; a temporary file is left behind, unseen.
StoreCrash(process) ==
    /\ storeCrashes < MaxStoreCrashes
    /\ storeCrashes' = storeCrashes + 1
    /\ publishing' = [p \in Publishers |->
                         IF ProcessOf[p] = process THEN Resting ELSE publishing[p]]
    /\ lock' = [lock EXCEPT ![process] = Unlocked]
    /\ UNCHANGED <<data, manifest, acknowledged>>

StoreInit ==
    /\ data = [n \in ArtifactNames |-> Missing]
    /\ manifest = [n \in ArtifactNames |-> Missing]
    /\ publishing = [p \in Publishers |-> Resting]
    /\ lock = [process \in Processes |-> Unlocked]
    /\ acknowledged = {}
    /\ storeCrashes = 0

StoreNext ==
    \/ \E p \in Publishers :
          \/ \E offer \in Offers[p] : BeginPublish(p, offer[1], offer[2])
          \/ WriteData(p) \/ WriteManifest(p)
    \/ \E process \in Processes : StoreCrash(process)

StoreSpec == StoreInit /\ [][StoreNext]_storeVars

-----------------------------------------------------------------------------
\* What a publisher was told is published can be read with its bytes ever
\* after, although threads offer other bytes under the same name, processes
\* publish the same name at the same time and die between the two files; a
\* manifest is never there before its bytes (publish_bytes, read).
AcknowledgedIsServed ==
    /\ \A a \in acknowledged : Readable(a[1]) /\ data[a[1]] = a[2]
    /\ \A n \in ArtifactNames : manifest[n] # Missing => Readable(n)
=============================================================================
