--------------------------- MODULE S2Materialize ---------------------------
(***************************************************************************)
(* The directory of one S2 bed (benchmarks/s2/materialize.py): a           *)
(* content-addressed asset, two projections for each registered task, and  *)
(* a manifest that is written last.  One process at a time materialises    *)
(* the bed; it may die between any two writes and be started again, and    *)
(* the registration (task-set.json) may be replaced by a newer one under   *)
(* it.  Every file is published by renaming a temporary file of a unique   *)
(* name, so that a reader sees a whole file or none; the temporary files   *)
(* left by a crash are never read and are not modelled.                    *)
(*                                                                         *)
(* Modelled are beds downloaded over HTTPS; those kept in a Git repository *)
(* are acquired by Git.                                                    *)
(***************************************************************************)
EXTENDS Naturals, Sequences

CONSTANTS
    TaskIds,        \* the registered tasks, in their order
    Registrations,  \* the successive contents of task-set.json
    Content,        \* for each asset, by its digest: the record of each task
    Garbage         \* digest of bytes that are not the asset

Digests == DOMAIN Content
Tasks == {TaskIds[k] : k \in DOMAIN TaskIds}
AssetPaths == {Registrations[r].asset_path : r \in DOMAIN Registrations}
Versions == {Registrations[r].version : r \in DOMAIN Registrations}
Records == {Content[d][t] : d \in Digests, t \in Tasks}

ASSUME MaterialAssumption ==
    /\ TaskIds \in Seq(Tasks) /\ Len(TaskIds) > 0
    /\ Registrations \in Seq({Registrations[r] : r \in DOMAIN Registrations})
    /\ Len(Registrations) > 0
    /\ \A r \in DOMAIN Registrations : Registrations[r].asset_sha256 \in Digests
    /\ Garbage \notin Digests

VARIABLES
    registration,   \* index of the registration in force
    source,         \* for each asset path, the digest of the file there, if any
    projection,     \* for each task, its two projection files
    manifest,       \* REPOPACT-S2-MATERIALIZATION.json, if there is one
    materializer    \* the process that runs materialize_bed

material == <<registration, source, projection, manifest>>
materialVars == <<material, materializer>>

(* A materialiser that is not running keeps nothing.                       *)
NoMaterializer ==
    [at |-> "idle", bed |-> 1, version |-> Registrations[1].version,
     temporary |-> Garbage, task |-> 1]

(* A file is the set of its contents: empty when there is no file.         *)
File(contents) == {{}} \cup {{c} : c \in contents}

(* The model-facing projection keeps nothing of the gold patches.          *)
ModelProjection(record) == record.base_commit
EvaluationProjection(record) == record

Projections == [model: File({ModelProjection(c) : c \in Records}), evaluation: File(Records)]
ManifestFile == File([version: Versions, bed: DOMAIN Registrations])

MaterialTypeOK ==
    /\ registration \in DOMAIN Registrations
    /\ source \in [AssetPaths -> File(Digests \cup {Garbage})]
    /\ projection \in [Tasks -> Projections]
    /\ manifest \in ManifestFile
    /\ materializer \in [at: {"idle", "load", "acquire", "install", "rows", "model",
                              "evaluation", "manifest", "done"},
                         bed: DOMAIN Registrations,
                         version: Versions,
                         temporary: Digests \cup {Garbage},
                         task: DOMAIN TaskIds]

MaterialInit ==
    /\ registration = 1
    /\ source = [p \in AssetPaths |-> {}]
    /\ projection = [t \in Tasks |-> [model |-> {}, evaluation |-> {}]]
    /\ manifest = {}
    /\ materializer = NoMaterializer

-----------------------------------------------------------------------------
(* What verify_materialization accepts.                                    *)

SameAsset(i, j) ==
    /\ Registrations[i].asset_path = Registrations[j].asset_path
    /\ Registrations[i].asset_sha256 = Registrations[j].asset_sha256

(* Neither a version nor an asset comes back once another has replaced it. *)
RegistrationsMoveOn ==
    \A i, j, k \in DOMAIN Registrations : i <= j /\ j <= k =>
        /\ Registrations[i].version = Registrations[k].version
              => Registrations[j].version = Registrations[k].version
        /\ SameAsset(i, k) => SameAsset(j, k)

(* The manifest against the registration and the asset on disk.            *)
ManifestVerified(m) ==
    LET bed == Registrations[m.bed]
    IN  /\ m.version = Registrations[registration].version
        /\ SameAsset(m.bed, registration)
        /\ source[bed.asset_path] = {bed.asset_sha256}

(* The record of a task, recomputed from the asset of a manifest.          *)
RecordIn(m, t) == Content[Registrations[m.bed].asset_sha256][t]

ProjectionsVerified(m, t) ==
    /\ projection[t].model = {ModelProjection(RecordIn(m, t))}
    /\ projection[t].evaluation = {EvaluationProjection(RecordIn(m, t))}

(* Verification, if nothing changes while it lasts.                        *)
Verifies ==
    \E m \in manifest :
        ManifestVerified(m) /\ \A t \in Tasks : ProjectionsVerified(m, t)

-----------------------------------------------------------------------------
(* materialize_bed.                                                        *)

Bed == Registrations[materializer.bed]
TaskAt == TaskIds[materializer.task]

Goes(place) == materializer' = [materializer EXCEPT !.at = place]

(* main: the bed is looked up in the registration ...                      *)
FindBed ==
    /\ materializer.at \in {"idle", "done"}
    /\ materializer' = [NoMaterializer EXCEPT !.at = "load", !.bed = registration]
    /\ UNCHANGED material

(* ... which materialize_bed reads again for its version.                  *)
LoadTaskSet ==
    /\ materializer.at = "load"
    /\ materializer' = [materializer EXCEPT !.at = "acquire",
                            !.version = Registrations[registration].version]
    /\ UNCHANGED material

(* An asset that is there already is verified, never downloaded again.     *)
FindAsset ==
    /\ materializer.at = "acquire"
    /\ source[Bed.asset_path] # {}
    /\ IF source[Bed.asset_path] = {Bed.asset_sha256}
       THEN Goes("rows")
       ELSE materializer' = NoMaterializer
    /\ UNCHANGED material

(* The bytes of the provider, whole or not, go to a temporary file.        *)
Download ==
    /\ materializer.at = "acquire"
    /\ source[Bed.asset_path] = {}
    /\ \E d \in {Bed.asset_sha256, Garbage} :
          materializer' = [materializer EXCEPT !.at = "install", !.temporary = d]
    /\ UNCHANGED material

(* The temporary file takes the place of the asset once it is verified.    *)
InstallAsset ==
    /\ materializer.at = "install"
    /\ IF materializer.temporary = Bed.asset_sha256
       THEN /\ source' = [source EXCEPT ![Bed.asset_path] = {materializer.temporary}]
            /\ Goes("rows")
       ELSE UNCHANGED source /\ materializer' = NoMaterializer
    /\ UNCHANGED <<registration, projection, manifest>>

(* Rows, records and base commits; the asset is verified a second time.    *)
SelectRecordsAfresh ==
    /\ materializer.at = "rows"
    /\ materializer' = [materializer EXCEPT !.at = "model", !.task = 1]
    /\ manifest' = {}
    /\ UNCHANGED <<registration, source, projection>>

SelectRecords ==
    /\ materializer.at = "rows"
    /\ IF source[Bed.asset_path] = {Bed.asset_sha256}
       THEN materializer' = [materializer EXCEPT !.at = "model", !.task = 1]
       ELSE materializer' = NoMaterializer
    /\ UNCHANGED material

(* The projections of a task, one file after the other; then the next      *)
(* task; then the manifest.                                                *)
WriteModelProjection ==
    /\ materializer.at = "model"
    /\ projection' = [projection EXCEPT ![TaskAt].model =
           {ModelProjection(Content[Bed.asset_sha256][TaskAt])}]
    /\ Goes("evaluation")
    /\ UNCHANGED <<registration, source, manifest>>

AfterTaskOnceMore ==
    IF materializer.task <= Len(TaskIds)
    THEN materializer' = [materializer EXCEPT !.at = "model", !.task = @ + 1]
    ELSE Goes("manifest")

AfterTask ==
    IF materializer.task < Len(TaskIds)
    THEN materializer' = [materializer EXCEPT !.at = "model", !.task = @ + 1]
    ELSE Goes("manifest")

WriteEvaluationProjection ==
    /\ materializer.at = "evaluation"
    /\ projection' = [projection EXCEPT ![TaskAt].evaluation =
           {EvaluationProjection(Content[Bed.asset_sha256][TaskAt])}]
    /\ AfterTask
    /\ UNCHANGED <<registration, source, manifest>>

WriteManifest ==
    /\ materializer.at = "manifest"
    /\ manifest' = {[version |-> materializer.version, bed |-> materializer.bed]}
    /\ Goes("done")
    /\ UNCHANGED <<registration, source, projection>>

(* Every exception and the death of the process, before any of the steps.  *)
MaterializerStops ==
    /\ materializer.at \notin {"idle", "done"}
    /\ materializer' = NoMaterializer
    /\ UNCHANGED material

(* A newer task-set.json is checked out.                                   *)
Register ==
    /\ registration < Len(Registrations)
    /\ registration' = registration + 1
    /\ UNCHANGED <<source, projection, manifest, materializer>>

MaterialNext ==
    \/ FindBed \/ LoadTaskSet \/ FindAsset \/ Download \/ InstallAsset
    \/ SelectRecords \/ WriteModelProjection \/ WriteEvaluationProjection
    \/ WriteManifest \/ MaterializerStops \/ Register

-----------------------------------------------------------------------------
(* Properties.                                                             *)

(* A run of materialize_bed has ended under the registration in force.     *)
Materialized ==
    /\ materializer.at = "done"
    /\ materializer.bed = registration
    /\ materializer.version = Registrations[registration].version

(* A bed verifies from the moment it has been materialised, whatever       *)
(* earlier runs left in the directory: one that died between two writes,   *)
(* or one of an older registration.  It goes on verifying while it is      *)
(* materialised again, crashes included: only a newer registration ends    *)
(* that.  Readers therefore need no lock against the materialiser.  (This  *)
(* and what follows from it needs RegistrationsMoveOn: a materialiser begun *)
(* under a registration that was replaced, and then came back, overwrites  *)
(* what is in force.)                                                      *)
VerifiesUntilReregistered ==
    [][(Verifies \/ Materialized') /\ registration' = registration => Verifies']_materialVars

=============================================================================
