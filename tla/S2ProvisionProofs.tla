------------------------- MODULE S2ProvisionProofs -------------------------
(***************************************************************************)
(* For any tasks, assets, registrations and provisioners: a materialised   *)
(* bed goes on verifying until a newer registration, what provision_bed    *)
(* returns is what is registered, what it left is accepted the next time,  *)
(* and no work in a checkout is ever lost to it.  The argument: each file  *)
(* and each checkout has one writer at a time that can change it, and what *)
(* the others have checked of it is not what that writer changes; and a    *)
(* materialiser still at work for an older registration writes the same    *)
(* contents wherever a reader can accept them.                             *)
(***************************************************************************)
EXTENDS S2Provision, TLAPS

-----------------------------------------------------------------------------
(* The material.  Where materialize_bed is tells what it has written.      *)
VersionOf(r) == Registrations[r].version

ModelWritten(t) == projection[t].model = {ModelProjection(Content[Bed.asset_sha256][t])}
EvaluationWritten(t) ==
    projection[t].evaluation = {EvaluationProjection(Content[Bed.asset_sha256][t])}

MaterializerWrote ==
    LET m == materializer
    IN  /\ m.at # "idle" => m.bed <= registration
        /\ m.at \notin {"idle", "load"} =>
              \E l \in DOMAIN Registrations :
                  m.bed <= l /\ l <= registration /\ m.version = VersionOf(l)
        /\ m.at = "install" => source[Bed.asset_path] = {}
        /\ m.at \in {"rows", "model", "evaluation", "manifest", "done"} =>
              source[Bed.asset_path] = {Bed.asset_sha256}
        /\ m.at \in {"model", "evaluation"} =>
              \A k \in DOMAIN TaskIds : k < m.task =>
                  ModelWritten(TaskIds[k]) /\ EvaluationWritten(TaskIds[k])
        /\ m.at = "evaluation" => ModelWritten(TaskAt)
        /\ m.at \in {"manifest", "done"} =>
              \A t \in Tasks : ModelWritten(t) /\ EvaluationWritten(t)
        /\ m.at = "done" => manifest = {[version |-> m.version, bed |-> m.bed]}

(* A manifest written no later than now, nor than the start of a           *)
(* materialiser still at work.                                             *)
Dated(m) ==
    \E l \in DOMAIN Registrations :
        /\ m.bed <= l /\ l <= registration /\ m.version = VersionOf(l)
        /\ materializer.at \notin {"idle", "done"} => l <= materializer.bed

ProjectionsAreRegistered ==
    \A t \in Tasks : \A c \in projection[t].evaluation : \E d \in Digests : c = Content[d][t]

MaterialInv ==
    /\ MaterializerWrote
    /\ \A m \in manifest : Dated(m)
    /\ ProjectionsAreRegistered

-----------------------------------------------------------------------------
(* The checkouts.  Which of them a provisioner may change, and what state   *)
(* it has left them in.                                                    *)
Running(p) == provisioner[p].at \notin {"idle", "refused"}

RunsHaveManifests == \A p \in Provisioners : Running(p) => provisioner[p].manifest # {}

Fetched == [exists |-> TRUE, origin |-> "registered", head |-> {}, delta |-> {}]
Cloned(head) == [exists |-> TRUE, origin |-> "local", head |-> head, delta |-> {}]

AtBase(checkout, commit) ==
    checkout.exists /\ checkout.origin = "registered" /\ checkout.head = {commit}

Checked == {"evaluator", "clone", "cloning", "seturl", "recheck", "apply", "resume", "inspect"}
Cloning == {"cloning", "seturl", "recheck", "apply"}

FunctionalTree(t) ==
    /\ functional[t].origin # "local"
    /\ functional[t].head # {} => functional[t].origin = "registered"
    /\ functional[t].head = {} => functional[t].delta = {}
    /\ ~functional[t].exists => functional[t] = Absent

FunctionalOf(p) ==
    /\ At(p, "remote") => functional[Task(p)].exists
    /\ At(p, "fetch") => functional[Task(p)] = Fetched
    /\ provisioner[p].at \in Checked => functional[Task(p)] = Pristine(Base(p))

OneFetches ==
    \A p, q \in Provisioners : p # q /\ At(p, "fetch") /\ At(q, "fetch") => Task(p) # Task(q)

FunctionalInv ==
    /\ \A t \in Tasks : FunctionalTree(t)
    /\ \A p \in Provisioners : FunctionalOf(p)
    /\ OneFetches

EvaluatorTree(t) ==
    /\ ~evaluator[t].exists => evaluator[t] = Absent
    /\ evaluator[t].head = {} => evaluator[t].delta = {}

EvaluatorOf(p) ==
    /\ At(p, "cloning") => evaluator[Task(p)] = Cloned({})
    /\ At(p, "seturl") => evaluator[Task(p)] = Cloned({Base(p)})
    /\ At(p, "recheck") => evaluator[Task(p)] = Pristine(Base(p))
    /\ At(p, "apply") => /\ AtBase(evaluator[Task(p)], Base(p))
                         /\ evaluator[Task(p)].delta \subseteq provisioner[p].patch

OneClones ==
    \A p, q \in Provisioners :
        p # q /\ provisioner[p].at \in Cloning /\ provisioner[q].at \in Cloning
            => Task(p) # Task(q)

EvaluatorInv ==
    /\ \A t \in Tasks : EvaluatorTree(t)
    /\ \A p \in Provisioners : EvaluatorOf(p)
    /\ OneClones

CheckoutInv == FunctionalInv /\ EvaluatorInv

-----------------------------------------------------------------------------
(* What a provisioner knows of the bed, as long as its asset is registered. *)
Loaded == {"functional", "init", "remote", "fetch", "assert"} \cup Checked

Current(m) == SameAsset(m.bed, registration)

ReadOf(p) ==
    \A m \in provisioner[p].manifest :
        /\ Dated(m)
        /\ source[Registrations[m.bed].asset_path] = {Registrations[m.bed].asset_sha256}
        /\ ManifestVerified(m) => \E n \in manifest : ManifestVerified(n)
        /\ Current(m) =>
              \A k \in DOMAIN TaskIds : (At(p, "verify") => k < provisioner[p].task) =>
                  ProjectionsVerified(m, TaskIds[k])
        /\ provisioner[p].at \in Loaded =>
              /\ Current(m) => provisioner[p].patch = RecordIn(m, Task(p)).test_patch
              /\ \E d \in Digests : provisioner[p].patch = Content[d][Task(p)].test_patch

ReadInv == \A p \in Provisioners : ReadOf(p)

(* A task that Inspect has let pass.                                       *)
Accepted(t, record) ==
    /\ Provisioned(t, record)
    /\ record.test_patch # {} => evaluator[t].delta \ Created # {}

Finished(p, k) ==
    \/ At(p, "returned")
    \/ provisioner[p].at \in Loaded \cup {"load"} /\ k < provisioner[p].task

ToInspect(p) ==
    /\ AtBase(evaluator[Task(p)], Base(p))
    /\ provisioner[p].patch \subseteq evaluator[Task(p)].delta
    /\ provisioner[p].patch = {} => evaluator[Task(p)].delta = {}

AcceptedOf(p) ==
    /\ At(p, "inspect") => ToInspect(p)
    /\ \A m \in provisioner[p].manifest : Current(m) =>
          \A k \in DOMAIN TaskIds : Finished(p, k) =>
              Accepted(TaskIds[k], RecordIn(m, TaskIds[k]))

AcceptedInv == \A p \in Provisioners : AcceptedOf(p)

(* A settled bed passes every check.                                       *)
SettledBed(m) ==
    /\ ManifestVerified(m)
    /\ \A t \in Tasks : ProjectionsVerified(m, t) /\ Accepted(t, RecordIn(m, t))

SettledOf(p) ==
    provisioner[p].settled =>
        /\ settled
        /\ provisioner[p].at \in {"verify", "load", "functional", "assert", "evaluator",
                                  "resume", "inspect", "returned"}
        /\ \A m \in provisioner[p].manifest : ManifestVerified(m)

SettledInv ==
    /\ settled => \E m \in manifest : SettledBed(m)
    /\ \A p \in Provisioners : SettledOf(p)

-----------------------------------------------------------------------------
(* Types.                                                                  *)

LEMMA Ordered ==
    /\ DOMAIN TaskIds = 1..Len(TaskIds) /\ Len(TaskIds) \in Nat /\ 1 \in DOMAIN TaskIds
    /\ DOMAIN Registrations = 1..Len(Registrations) /\ Len(Registrations) \in Nat
    /\ 1 \in DOMAIN Registrations
  BY MaterialAssumption

LEMMA Registered ==
    ASSUME NEW r \in DOMAIN Registrations
    PROVE  /\ VersionOf(r) \in Versions
           /\ Registrations[r].asset_path \in AssetPaths
           /\ Registrations[r].asset_sha256 \in Digests
  BY MaterialAssumption DEF VersionOf, Versions, AssetPaths

LEMMA RecordsAreTyped ==
    ASSUME NEW d \in Digests, NEW t \in Tasks
    PROVE  /\ Content[d][t] \in Records
           /\ Content[d][t].base_commit \in Commits
           /\ Content[d][t].test_patch \subseteq Paths
  <1>1. Content[d][t] \in Records
    BY DEF Records
  <1>. QED BY <1>1, ProvisionAssumption DEF Commits

LEMMA TaskIdsAreTasks ==
    /\ \A k \in DOMAIN TaskIds : TaskIds[k] \in Tasks
    /\ \A t \in Tasks : \E k \in DOMAIN TaskIds : t = TaskIds[k]
  BY DEF Tasks

LEMMA NoMaterializerIsTyped ==
    MaterialTypeOK => NoMaterializer \in
        [at: {"idle"}, bed: DOMAIN Registrations, version: Versions,
         temporary: {Garbage}, task: DOMAIN TaskIds]
  BY Ordered, Registered DEF NoMaterializer, VersionOf

LEMMA MaterialTypeStep ==
    MaterialTypeOK /\ MaterialNext => MaterialTypeOK'
  <1>. SUFFICES ASSUME MaterialTypeOK, MaterialNext PROVE MaterialTypeOK'
    OBVIOUS
  <1>. USE Ordered, Registered, TaskIdsAreTasks DEF MaterialTypeOK, VersionOf
  <1>1. NoMaterializer \in
            [at: {"idle"}, bed: DOMAIN Registrations, version: Versions,
             temporary: {Garbage}, task: DOMAIN TaskIds]
    BY NoMaterializerIsTyped
  <1>2. TaskAt \in Tasks /\ Bed = Registrations[materializer.bed]
    BY DEF TaskAt, Bed
  <1>3. CASE FindBed
    BY <1>1, <1>3 DEF FindBed, material
  <1>4. CASE LoadTaskSet
    BY <1>4 DEF LoadTaskSet, material
  <1>5. CASE FindAsset
    BY <1>1, <1>5 DEF FindAsset, Goes, material
  <1>6. CASE Download
    BY <1>2, <1>6 DEF Download, material
  <1>7. CASE InstallAsset
    <2>1. CASE materializer.temporary = Bed.asset_sha256
      <3>1. {materializer.temporary} \in File(Digests \cup {Garbage})
        BY DEF File
      <3>2. source' \in [AssetPaths -> File(Digests \cup {Garbage})]
        BY <1>2, <1>7, <2>1, <3>1 DEF InstallAsset
      <3>. QED BY <1>7, <2>1, <3>2 DEF InstallAsset, Goes
    <2>2. CASE materializer.temporary # Bed.asset_sha256
      BY <1>1, <1>7, <2>2 DEF InstallAsset
    <2>. QED BY <2>1, <2>2
  <1>8. CASE SelectRecords
    BY <1>1, <1>8 DEF SelectRecords, material
  <1>9. CASE WriteModelProjection
    <2>1. Content[Bed.asset_sha256][TaskAt] \in Records
      BY <1>2, RecordsAreTyped
    <2>2. {ModelProjection(Content[Bed.asset_sha256][TaskAt])}
              \in File({ModelProjection(c) : c \in Records})
      BY <2>1 DEF File
    <2>3. projection' \in [Tasks -> Projections]
      BY ZenonT(60), <1>2, <1>9, <2>2 DEF WriteModelProjection, Projections
    <2>. QED BY <1>9, <2>3 DEF WriteModelProjection, Goes
  <1>10. CASE WriteEvaluationProjection
    <2>1. Content[Bed.asset_sha256][TaskAt] \in Records
      BY <1>2, RecordsAreTyped
    <2>2. {EvaluationProjection(Content[Bed.asset_sha256][TaskAt])} \in File(Records)
      BY <2>1 DEF File, EvaluationProjection
    <2>3. projection' \in [Tasks -> Projections]
      BY ZenonT(60), <1>2, <1>10, <2>2 DEF WriteEvaluationProjection, Projections
    <2>4. materializer.task < Len(TaskIds) => materializer.task + 1 \in DOMAIN TaskIds
      OBVIOUS
    <2>5. CASE materializer.task < Len(TaskIds)
      BY ZenonT(60), <1>10, <2>3, <2>4, <2>5 DEF WriteEvaluationProjection, AfterTask
    <2>6. CASE ~(materializer.task < Len(TaskIds))
      BY <1>10, <2>3, <2>6 DEF WriteEvaluationProjection, AfterTask, Goes
    <2>. QED BY <2>5, <2>6
  <1>11. CASE WriteManifest
    BY <1>11 DEF WriteManifest, Goes, ManifestFile, File
  <1>12. CASE MaterializerStops
    BY <1>1, <1>12 DEF MaterializerStops, material
  <1>13. CASE Register
    <2>1. registration' \in DOMAIN Registrations
      BY <1>13 DEF Register
    <2>. QED BY <1>13, <2>1 DEF Register
  <1>. QED
    BY <1>3, <1>4, <1>5, <1>6, <1>7, <1>8, <1>9, <1>10, <1>11, <1>12, <1>13 DEF MaterialNext

(* What a provisioner keeps.                                               *)
Runs == [at: Outside \cup {"verify", "load", "functional", "init", "remote", "fetch",
                           "assert", "evaluator", "clone", "cloning", "seturl",
                           "recheck", "apply", "resume", "inspect"},
         task: DOMAIN TaskIds,
         manifest: ManifestFile,
         patch: SUBSET Paths,
         settled: BOOLEAN]

Typed == TypeOK /\ RunsHaveManifests

LEMMA TypesAreKnown ==
    ASSUME TypeOK
    PROVE  /\ MaterialTypeOK
           /\ functional \in [Tasks -> Checkout] /\ evaluator \in [Tasks -> Checkout]
           /\ provisioner \in [Provisioners -> Runs]
           /\ settled \in BOOLEAN
  BY DEF TypeOK, Runs

LEMMA TypesAre ==
    ASSUME MaterialTypeOK,
           functional \in [Tasks -> Checkout], evaluator \in [Tasks -> Checkout],
           provisioner \in [Provisioners -> Runs],
           settled \in BOOLEAN
    PROVE  TypeOK
  BY DEF TypeOK, Runs

LEMMA ManifestIsOne ==
    ASSUME NEW file \in ManifestFile, file # {}
    PROVE  \E m \in [version: Versions, bed: DOMAIN Registrations] : file = {m}
  BY DEF ManifestFile, File

LEMMA OneIsChosen ==
    ASSUME NEW c
    PROVE  (CHOOSE m \in {c} : TRUE) = c
  OBVIOUS

LEMMA SelectedIs ==
    ASSUME Typed, NEW p \in Provisioners, Running(p)
    PROVE  /\ provisioner[p].manifest = {Selected(p)}
           /\ Selected(p) \in [version: Versions, bed: DOMAIN Registrations]
           /\ Task(p) \in Tasks
           /\ RecordIn(Selected(p), Task(p)) \in Records
           /\ Base(p) \in Commits
  <1>1. provisioner[p] \in Runs
    BY TypesAreKnown DEF Typed
  <1>2. provisioner[p].manifest \in ManifestFile /\ provisioner[p].manifest # {}
    BY <1>1 DEF Typed, RunsHaveManifests, Runs
  <1>3. PICK m \in [version: Versions, bed: DOMAIN Registrations] : provisioner[p].manifest = {m}
    BY <1>2, ManifestIsOne
  <1>4. Selected(p) = m
    BY <1>3, OneIsChosen DEF Selected
  <1>5. Task(p) \in Tasks
    BY <1>1, TaskIdsAreTasks DEF Task, Runs
  <1>6. Registrations[m.bed].asset_sha256 \in Digests
    BY Registered
  <1>. QED BY <1>3, <1>4, <1>5, <1>6, RecordsAreTyped DEF Base, RecordIn

(* A step of one provisioner leaves it in a state of its type, and with    *)
(* the manifest it began with until it ends.                               *)
OneRuns(p) ==
    \E r \in Runs :
        /\ provisioner' = [provisioner EXCEPT ![p] = r]
        /\ r.at \notin {"idle", "refused"} =>
              /\ r.manifest # {}
              /\ \/ r.manifest = provisioner[p].manifest
                 \/ At(p, "idle") /\ r.manifest = manifest

LEMMA RequiresRuns ==
    ASSUME Typed, NEW p \in Provisioners, Running(p), NEW condition, NEW place,
           place \in {"fetch", "evaluator", "cloning", "apply", "inspect"},
           Requires(p, condition, place)
    PROVE  OneRuns(p)
  <1>. provisioner[p] \in Runs /\ provisioner[p].manifest # {}
    BY TypesAreKnown DEF Typed, RunsHaveManifests
  <1>1. CASE condition
    <2>. DEFINE r == [provisioner[p] EXCEPT !.at = place]
    <2>1. r \in Runs /\ r.manifest = provisioner[p].manifest
      BY DEF Runs
    <2>2. provisioner' = [provisioner EXCEPT ![p] = r]
      BY <1>1 DEF Requires
    <2>. HIDE DEF r
    <2>. QED BY <2>1, <2>2 DEF OneRuns
  <1>2. CASE ~condition
    <2>. DEFINE r == Refuse(provisioner[p])
    <2>1. r \in Runs /\ r.at = "refused"
      BY Ordered DEF Runs, Refuse, NotRunning, Outside, ManifestFile, File
    <2>. QED BY <1>2, <2>1 DEF Requires, OneRuns
  <1>. QED BY <1>1, <1>2

LEMMA MovesRuns ==
    ASSUME Typed, NEW p \in Provisioners, Running(p), NEW place,
           place \in {"init", "remote", "assert", "resume", "clone", "seturl", "recheck"},
           Moves(p, place)
    PROVE  OneRuns(p)
  <1>. provisioner[p] \in Runs /\ provisioner[p].manifest # {}
    BY TypesAreKnown DEF Typed, RunsHaveManifests
  <1>. DEFINE r == [provisioner[p] EXCEPT !.at = place]
  <1>1. r \in Runs /\ r.manifest = provisioner[p].manifest
    BY DEF Runs
  <1>2. provisioner' = [provisioner EXCEPT ![p] = r]
    BY DEF Moves
  <1>. HIDE DEF r
  <1>. QED BY <1>1, <1>2 DEF OneRuns

LEMMA CheckoutsAreTyped ==
    ASSUME Typed, NEW p \in Provisioners, Running(p)
    PROVE  /\ [functional[Task(p)] EXCEPT !.exists = TRUE] \in Checkout
           /\ [functional[Task(p)] EXCEPT !.origin = "registered"] \in Checkout
           /\ [functional[Task(p)] EXCEPT !.head = {Base(p)}, !.delta = {}] \in Checkout
           /\ [Absent EXCEPT !.exists = TRUE, !.origin = "local"] \in Checkout
           /\ [evaluator[Task(p)] EXCEPT !.head = functional[Task(p)].head] \in Checkout
           /\ [evaluator[Task(p)] EXCEPT !.origin = "registered"] \in Checkout
           /\ \A path \in Paths :
                 [evaluator[Task(p)] EXCEPT !.delta = @ \cup {path}] \in Checkout
  <1>1. functional[Task(p)] \in Checkout /\ evaluator[Task(p)] \in Checkout
    BY SelectedIs, TypesAreKnown DEF Typed
  <1>2. {Base(p)} \in File(Commits) /\ {} \in File(Commits)
    BY SelectedIs DEF File
  <1>. QED BY <1>1, <1>2 DEF Checkout, Absent

LEMMA OnlyMovesKeeps ==
    ASSUME Typed, OnlyMoves
    PROVE  /\ UNCHANGED materialVars
           /\ functional' \in [Tasks -> Checkout] /\ evaluator' \in [Tasks -> Checkout]
           /\ settled' \in BOOLEAN
  BY TypesAreKnown DEF Typed, OnlyMoves, checkouts

LEMMA ChangeKeeps ==
    ASSUME Typed, NEW p \in Provisioners, Running(p), NEW c \in Checkout,
           ChangesFunctional(Task(p), c) \/ ChangesEvaluator(Task(p), c)
    PROVE  /\ UNCHANGED materialVars
           /\ functional' \in [Tasks -> Checkout] /\ evaluator' \in [Tasks -> Checkout]
           /\ settled' \in BOOLEAN
  BY TypesAreKnown DEF Typed, ChangesFunctional, ChangesEvaluator

(* What is true of every step of a provisioner.                            *)
OneSteps(p) ==
    /\ UNCHANGED materialVars
    /\ functional' \in [Tasks -> Checkout] /\ evaluator' \in [Tasks -> Checkout]
    /\ settled' \in BOOLEAN
    /\ OneRuns(p)

LEMMA ProvisionerSteps ==
    ASSUME Typed, NEW p \in Provisioners, Provisions(p) \/ Exits(p)
    PROVE  OneSteps(p)
  <1>. USE DEF OneSteps
  <1>1. provisioner[p] \in Runs /\ provisioner \in [Provisioners -> Runs]
    BY TypesAreKnown DEF Typed
  <1>2. NotRunning \in Runs /\ NotRunning.at = "idle"
    BY Ordered DEF NotRunning, Runs, Outside, ManifestFile, File
  <1>3. \A r \in Runs : Refuse(r) \in Runs /\ Refuse(r).at = "refused"
    BY <1>2 DEF Refuse, NotRunning, Runs, Outside
  <1>4. Running(p) => provisioner[p].manifest # {}
    BY DEF Typed, RunsHaveManifests
  <1>5. ASSUME NEW r \in Runs, provisioner' = [provisioner EXCEPT ![p] = r],
               r.at \notin {"idle", "refused"} =>
                   /\ r.manifest # {}
                   /\ \/ r.manifest = provisioner[p].manifest
                      \/ At(p, "idle") /\ r.manifest = manifest
        PROVE  OneRuns(p)
    BY <1>5 DEF OneRuns
  <1>6. CASE Begin(p)
    <2>. DEFINE run == [NotRunning EXCEPT !.at = "verify", !.manifest = manifest, !.settled = settled]
    <2>1. run \in Runs /\ run.manifest = manifest
      BY <1>2, TypesAreKnown DEF Typed, Runs, MaterialTypeOK
    <2>2. At(p, "idle") /\ OnlyMoves
      BY <1>6 DEF Begin
    <2>3. CASE \E m \in manifest : ManifestVerified(m)
      <3>1. provisioner' = [provisioner EXCEPT ![p] = run] /\ manifest # {}
        BY <1>6, <2>3 DEF Begin
      <3>. HIDE DEF run
      <3>. QED BY <1>5, <2>1, <2>2, <3>1, OnlyMovesKeeps
    <2>4. CASE ~\E m \in manifest : ManifestVerified(m)
      <3>1. provisioner' = [provisioner EXCEPT ![p] = Refuse(run)]
        BY <1>6, <2>4 DEF Begin
      <3>. HIDE DEF run
      <3>. QED BY <1>3, <1>5, <2>1, <2>2, <3>1, OnlyMovesKeeps
    <2>. QED BY <2>3, <2>4
  <1>7. CASE VerifyTask(p)
    <2>. DEFINE next == IF provisioner[p].task < Len(TaskIds)
                        THEN [provisioner[p] EXCEPT !.task = @ + 1]
                        ELSE [provisioner[p] EXCEPT !.at = "load", !.task = 1]
    <2>1. next \in Runs /\ next.manifest = provisioner[p].manifest
      <3>1. provisioner[p].task < Len(TaskIds) => provisioner[p].task + 1 \in DOMAIN TaskIds
        BY <1>1, Ordered DEF Runs
      <3>2. CASE provisioner[p].task < Len(TaskIds)
        BY <1>1, <3>1, <3>2 DEF Runs
      <3>3. CASE ~(provisioner[p].task < Len(TaskIds))
        BY <1>1, <3>3, Ordered DEF Runs
      <3>. QED BY <3>2, <3>3
    <2>2. OnlyMoves /\ Running(p)
      BY <1>7 DEF VerifyTask, At, Running
    <2>3. CASE ProjectionsVerified(Selected(p), Task(p))
      <3>1. provisioner' = [provisioner EXCEPT ![p] = next]
        BY <1>7, <2>3 DEF VerifyTask
      <3>. HIDE DEF next
      <3>. QED BY <1>4, <1>5, <2>1, <2>2, <3>1, OnlyMovesKeeps
    <2>4. CASE ~ProjectionsVerified(Selected(p), Task(p))
      <3>1. provisioner' = [provisioner EXCEPT ![p] = Refuse(provisioner[p])]
        BY <1>7, <2>4 DEF VerifyTask
      <3>. QED BY <1>1, <1>3, <1>5, <2>2, <3>1, OnlyMovesKeeps
    <2>. QED BY <2>3, <2>4
  <1>8. CASE LoadProjections(p)
    <2>1. OnlyMoves /\ Running(p)
      BY <1>8 DEF LoadProjections, At, Running
    <2>2. PICK evaluation \in projection[Task(p)].evaluation :
              provisioner' = [provisioner EXCEPT ![p].at = "functional",
                                                 ![p].patch = evaluation.test_patch]
      BY <1>8 DEF LoadProjections
    <2>3. projection[Task(p)].evaluation \in File(Records)
      BY <2>1, SelectedIs, TypesAreKnown DEF Typed, MaterialTypeOK, Projections
    <2>4. evaluation.test_patch \subseteq Paths
      BY <2>2, <2>3, ProvisionAssumption DEF File
    <2>. DEFINE r == [provisioner[p] EXCEPT !.at = "functional", !.patch = evaluation.test_patch]
    <2>5. r \in Runs /\ r.manifest = provisioner[p].manifest
      BY <1>1, <2>4 DEF Runs
    <2>6. provisioner' = [provisioner EXCEPT ![p] = r]
      BY <1>1, <2>2
    <2>. HIDE DEF r
    <2>. QED BY <1>4, <1>5, <2>1, <2>5, <2>6, OnlyMovesKeeps
  <1>9. CASE LookForFunctional(p)
    <2>1. OnlyMoves /\ Running(p)
      BY <1>9 DEF LookForFunctional, At, Running
    <2>. QED BY <1>9, <2>1, OnlyMovesKeeps, MovesRuns DEF LookForFunctional
  <1>10. CASE GitInit(p)
    <2>1. Running(p)
      BY <1>10 DEF GitInit, At, Running
    <2>. QED BY <1>10, <2>1, CheckoutsAreTyped, ChangeKeeps, MovesRuns DEF GitInit
  <1>11. CASE GitRemoteAdd(p)
    <2>1. Running(p)
      BY <1>11 DEF GitRemoteAdd, At, Running
    <2>. QED BY <1>11, <2>1, CheckoutsAreTyped, ChangeKeeps, RequiresRuns DEF GitRemoteAdd
  <1>12. CASE GitCheckout(p)
    <2>1. Running(p)
      BY <1>12 DEF GitCheckout, At, Running
    <2>. QED BY <1>12, <2>1, CheckoutsAreTyped, ChangeKeeps, MovesRuns DEF GitCheckout
  <1>13. CASE AssertFunctional(p)
    <2>1. OnlyMoves /\ Running(p)
      BY <1>13 DEF AssertFunctional, At, Running
    <2>. QED BY <1>13, <2>1, OnlyMovesKeeps, RequiresRuns DEF AssertFunctional
  <1>14. CASE LookForEvaluator(p)
    <2>1. OnlyMoves /\ Running(p)
      BY <1>14 DEF LookForEvaluator, At, Running
    <2>. QED BY <1>14, <2>1, OnlyMovesKeeps, MovesRuns DEF LookForEvaluator
  <1>15. CASE BeginClone(p)
    <2>1. Running(p)
      BY <1>15 DEF BeginClone, At, Running
    <2>2. OneRuns(p)
      BY <1>15, <2>1, RequiresRuns DEF BeginClone
    <2>3. OnlyMoves \/ ChangesEvaluator(Task(p), [Absent EXCEPT !.exists = TRUE, !.origin = "local"])
      BY <1>15 DEF BeginClone
    <2>. QED BY <2>1, <2>2, <2>3, CheckoutsAreTyped, ChangeKeeps, OnlyMovesKeeps
  <1>16. CASE EndClone(p)
    <2>1. Running(p)
      BY <1>16 DEF EndClone, At, Running
    <2>. QED BY <1>16, <2>1, CheckoutsAreTyped, ChangeKeeps, MovesRuns DEF EndClone
  <1>17. CASE SetUrl(p)
    <2>1. Running(p)
      BY <1>17 DEF SetUrl, At, Running
    <2>. QED BY <1>17, <2>1, CheckoutsAreTyped, ChangeKeeps, MovesRuns DEF SetUrl
  <1>18. CASE AssertEvaluator(p)
    <2>1. OnlyMoves /\ Running(p)
      BY <1>18 DEF AssertEvaluator, At, Running
    <2>. QED BY <1>18, <2>1, OnlyMovesKeeps, RequiresRuns DEF AssertEvaluator
  <1>19. CASE ApplyPatch(p)
    <2>1. Running(p)
      BY <1>19 DEF ApplyPatch, At, Running
    <2>2. CASE Requires(p, provisioner[p].patch # {}, "inspect") /\ OnlyMoves
      BY <2>1, <2>2, OnlyMovesKeeps, RequiresRuns
    <2>3. CASE \E path \in provisioner[p].patch \ evaluator[Task(p)].delta :
                  /\ ChangesEvaluator(Task(p), [evaluator[Task(p)] EXCEPT !.delta = @ \cup {path}])
                  /\ UNCHANGED provisioner
      <3>1. PICK path \in provisioner[p].patch :
                  ChangesEvaluator(Task(p), [evaluator[Task(p)] EXCEPT !.delta = @ \cup {path}])
        BY <2>3
      <3>2. path \in Paths
        BY <1>1, <3>1 DEF Runs
      <3>3. [evaluator[Task(p)] EXCEPT !.delta = @ \cup {path}] \in Checkout
        BY <2>1, <3>2, CheckoutsAreTyped
      <3>4. provisioner' = [provisioner EXCEPT ![p] = provisioner[p]]
        BY <1>1, <2>3
      <3>5. OneRuns(p)
        BY <1>1, <1>4, <1>5, <2>1, <3>4
      <3>. QED BY <2>1, <3>1, <3>3, <3>5, ChangeKeeps
    <2>. QED BY <1>19, <2>2, <2>3 DEF ApplyPatch
  <1>20. CASE Resume(p)
    <2>1. OnlyMoves /\ Running(p)
      BY <1>20 DEF Resume, At, Running
    <2>. QED BY <1>20, <2>1, OnlyMovesKeeps, RequiresRuns DEF Resume
  <1>21. CASE Inspect(p)
    <2>. DEFINE run == [provisioner[p] EXCEPT !.patch = {}]
                passes == (provisioner[p].patch = {}) <=> (evaluator[Task(p)].delta \ Created = {})
    <2>1. run \in Runs /\ run.manifest = provisioner[p].manifest /\ run.task = provisioner[p].task
      BY <1>1 DEF Runs
    <2>2. Running(p) /\ UNCHANGED <<materialVars, checkouts>> /\ settled' \in BOOLEAN
      BY <1>21 DEF Inspect, At, Running
    <2>3. CASE ~passes
      <3>1. provisioner' = [provisioner EXCEPT ![p] = Refuse(run)]
        BY <1>21, <2>3 DEF Inspect
      <3>. HIDE DEF run
      <3>. QED BY <1>3, <1>5, <2>1, <2>2, <3>1, TypesAreKnown DEF Typed, checkouts
    <2>4. CASE passes /\ run.task = Len(TaskIds)
      <3>. DEFINE r == [run EXCEPT !.at = "returned"]
      <3>1. r \in Runs /\ r.manifest = provisioner[p].manifest
        BY <2>1 DEF Runs, Outside
      <3>2. provisioner' = [provisioner EXCEPT ![p] = r]
        BY <1>21, <2>4 DEF Inspect
      <3>. HIDE DEF r
      <3>. QED BY <1>4, <1>5, <2>2, <3>1, <3>2, TypesAreKnown DEF Typed, checkouts
    <2>5. CASE passes /\ run.task # Len(TaskIds)
      <3>. DEFINE r == [run EXCEPT !.at = "load", !.task = @ + 1]
      <3>1. run.task + 1 \in DOMAIN TaskIds
        BY <2>1, <2>5, Ordered DEF Runs
      <3>2. r \in Runs /\ r.manifest = provisioner[p].manifest
        BY <2>1, <3>1 DEF Runs
      <3>3. provisioner' = [provisioner EXCEPT ![p] = r]
        BY <1>21, <2>5 DEF Inspect
      <3>. HIDE DEF r
      <3>. QED BY <1>4, <1>5, <2>2, <3>2, <3>3, TypesAreKnown DEF Typed, checkouts
    <2>. QED BY <2>3, <2>4, <2>5
  <1>22. CASE Stops(p) \/ Exits(p)
    <2>1. OnlyMoves /\ provisioner' = [provisioner EXCEPT ![p] = NotRunning]
      BY <1>22 DEF Stops, Exits
    <2>. QED BY <1>2, <1>5, <2>1, OnlyMovesKeeps
  <1>. QED
    BY <1>6, <1>7, <1>8, <1>9, <1>10, <1>11, <1>12, <1>13, <1>14, <1>15, <1>16, <1>17, <1>18,
       <1>19, <1>20, <1>21, <1>22 DEF Provisions

(* The step of the bed or of its registration.                             *)
MaterialSteps ==
    /\ MaterialNext
    /\ UNCHANGED <<functional, evaluator>>
    /\ settled' = (settled /\ registration' = registration)
    /\ provisioner' = [p \in Provisioners |->
           [provisioner[p] EXCEPT !.settled = @ /\ registration' = registration]]

LEMMA Steps ==
    ASSUME Typed, [Next]_vars
    PROVE  \/ MaterialSteps
           \/ Edit
           \/ \E p \in Provisioners : (Provisions(p) \/ Exits(p)) /\ OneSteps(p)
           \/ UNCHANGED vars
  BY ProvisionerSteps DEF Next, Material, MaterialSteps, checkouts

LEMMA EditIsTyped ==
    ASSUME Typed, Edit
    PROVE  functional' \in [Tasks -> Checkout] /\ evaluator' \in [Tasks -> Checkout]
  <1>1. functional \in [Tasks -> Checkout] /\ evaluator \in [Tasks -> Checkout]
    BY TypesAreKnown DEF Typed
  <1>2. ASSUME NEW c \in Checkout, NEW path \in Edited
        PROVE  [c EXCEPT !.delta = Toggle(@, path)] \in Checkout
    BY ProvisionAssumption DEF Checkout, Toggle
  <1>. QED BY <1>1, <1>2 DEF Edit

LEMMA TypeInit ==
    Init => Typed
  <1>. SUFFICES ASSUME Init PROVE Typed
    OBVIOUS
  <1>1. MaterialTypeOK
    <2>1. NoMaterializer \in
              [at: {"idle"}, bed: DOMAIN Registrations, version: Versions,
               temporary: {Garbage}, task: DOMAIN TaskIds]
      BY Ordered, Registered DEF NoMaterializer, VersionOf
    <2>. QED BY <2>1, Ordered
          DEF Init, MaterialInit, MaterialTypeOK, File, ManifestFile, Projections
  <1>2. Absent \in Checkout /\ NotRunning \in Runs
    BY Ordered DEF Absent, Checkout, NotRunning, Runs, Outside, ManifestFile, File
  <1>3. TypeOK
    BY <1>1, <1>2, TypesAre DEF Init
  <1>. QED BY <1>3 DEF Init, Typed, RunsHaveManifests, Running, NotRunning

LEMMA TypeStep ==
    Typed /\ [Next]_vars => Typed'
  <1>. SUFFICES ASSUME Typed, [Next]_vars PROVE Typed'
    OBVIOUS
  <1>1. /\ MaterialTypeOK
        /\ functional \in [Tasks -> Checkout] /\ evaluator \in [Tasks -> Checkout]
        /\ provisioner \in [Provisioners -> Runs] /\ settled \in BOOLEAN
        /\ \A p \in Provisioners : Running(p) => provisioner[p].manifest # {}
    BY TypesAreKnown DEF Typed, RunsHaveManifests
  <1>2. ASSUME MaterialTypeOK',
               functional' \in [Tasks -> Checkout], evaluator' \in [Tasks -> Checkout],
               provisioner' \in [Provisioners -> Runs], settled' \in BOOLEAN
        PROVE  TypeOK'
    BY <1>2 DEF TypeOK, Runs
  <1>3. CASE MaterialSteps
    <2>1. MaterialTypeOK' /\ settled' \in BOOLEAN
      BY <1>1, <1>3, MaterialTypeStep DEF MaterialSteps
    <2>2. \A p \in Provisioners :
             [provisioner[p] EXCEPT !.settled = @ /\ registration' = registration] \in Runs
      BY <1>1 DEF Runs
    <2>3. provisioner' \in [Provisioners -> Runs]
      BY <1>3, <2>2 DEF MaterialSteps
    <2>4. \A p \in Provisioners : /\ provisioner'[p].at = provisioner[p].at
                                  /\ provisioner'[p].manifest = provisioner[p].manifest
      BY <1>1, <1>3 DEF MaterialSteps, Runs
    <2>. QED BY <1>1, <1>2, <1>3, <2>1, <2>3, <2>4
          DEF MaterialSteps, Typed, RunsHaveManifests, Running
  <1>4. CASE Edit
    <2>1. UNCHANGED <<materialVars, provisioner>> /\ settled' = FALSE
      BY <1>4 DEF Edit
    <2>2. MaterialTypeOK'
      BY <1>1, <2>1 DEF materialVars, material, MaterialTypeOK
    <2>. QED BY <1>1, <1>2, <1>4, <2>1, <2>2, EditIsTyped DEF Typed, RunsHaveManifests, Running
  <1>5. ASSUME NEW p \in Provisioners, OneSteps(p)
        PROVE  Typed'
    <2>1. MaterialTypeOK'
      BY <1>1, <1>5 DEF OneSteps, materialVars, material, MaterialTypeOK
    <2>2. PICK r \in Runs :
             /\ provisioner' = [provisioner EXCEPT ![p] = r]
             /\ r.at \notin {"idle", "refused"} => r.manifest # {}
      BY <1>5 DEF OneSteps, OneRuns
    <2>3. provisioner' \in [Provisioners -> Runs]
      BY <1>1, <2>2
    <2>4. \A q \in Provisioners : Running(q)' => provisioner'[q].manifest # {}
      BY <1>1, <2>2 DEF Running
    <2>. QED BY <1>2, <1>5, <2>1, <2>3, <2>4 DEF OneSteps, Typed, RunsHaveManifests
  <1>6. CASE UNCHANGED vars
    BY <1>6 DEF vars, materialVars, material, Typed, TypeOK, MaterialTypeOK, RunsHaveManifests,
                Running
  <1>. QED BY <1>3, <1>4, <1>5, <1>6, Steps

(* Whatever is materialised, edited and provisioned, at the same time and  *)
(* with crashes, files, checkouts and processes keep to their types.       *)
THEOREM TypeCorrect == Spec => []TypeOK
  <1>1. Typed => TypeOK
    BY DEF Typed
  <1>. QED BY <1>1, TypeInit, TypeStep, PTL DEF Spec

-----------------------------------------------------------------------------
(* What a step does to the provisioner that takes it, and to the others.   *)

Others(p) == \A q \in Provisioners : q # p => provisioner'[q] = provisioner[q]

Keeps(p) ==
    /\ provisioner'[p].task = provisioner[p].task
    /\ provisioner'[p].manifest = provisioner[p].manifest
    /\ provisioner'[p].settled = provisioner[p].settled

To(p, place) ==
    Keeps(p) /\ provisioner'[p].patch = provisioner[p].patch /\ provisioner'[p].at = place

Refused(p) ==
    /\ provisioner'[p].at = "refused"
    /\ provisioner'[p].settled = provisioner[p].settled
    /\ provisioner'[p].manifest = {}

LEMMA MovesTo ==
    ASSUME Typed, NEW p \in Provisioners, NEW place, Moves(p, place)
    PROVE  Others(p) /\ To(p, place)
  <1>1. provisioner \in [Provisioners -> Runs] /\ provisioner[p] \in Runs
    BY TypesAreKnown DEF Typed
  <1>. QED BY <1>1 DEF Moves, Others, To, Keeps, Runs

LEMMA RequiresTo ==
    ASSUME Typed, NEW p \in Provisioners, NEW condition \in BOOLEAN, NEW place,
           Requires(p, condition, place)
    PROVE  /\ Others(p)
           /\ condition => To(p, place)
           /\ ~condition => Refused(p)
  <1>1. provisioner \in [Provisioners -> Runs] /\ provisioner[p] \in Runs
    BY TypesAreKnown DEF Typed
  <1>2. CASE condition
    <2>1. provisioner' = [provisioner EXCEPT ![p] = [provisioner[p] EXCEPT !.at = place]]
      BY <1>2 DEF Requires
    <2>. QED BY <1>1, <1>2, <2>1 DEF Others, To, Keeps, Runs
  <1>3. CASE ~condition
    <2>1. provisioner' = [provisioner EXCEPT ![p] = Refuse(provisioner[p])]
      BY <1>3 DEF Requires
    <2>. QED BY <1>1, <1>3, <2>1 DEF Others, Refused, Refuse, NotRunning
  <1>. QED BY <1>2, <1>3

LEMMA BeginTo ==
    ASSUME Typed, NEW p \in Provisioners, Begin(p)
    PROVE  /\ Others(p)
           /\ provisioner'[p].settled = settled
           /\ \/ /\ \E m \in manifest : ManifestVerified(m)
                 /\ provisioner'[p].at = "verify" /\ provisioner'[p].task = 1
                 /\ provisioner'[p].manifest = manifest
              \/ /\ ~\E m \in manifest : ManifestVerified(m)
                 /\ provisioner'[p].at = "refused" /\ provisioner'[p].manifest = {}
  <1>1. provisioner \in [Provisioners -> Runs] /\ provisioner[p] \in Runs
    BY TypesAreKnown DEF Typed
  <1>. DEFINE run == [NotRunning EXCEPT !.at = "verify", !.manifest = manifest, !.settled = settled]
  <1>2. /\ run.at = "verify" /\ run.task = 1 /\ run.manifest = manifest /\ run.settled = settled
        /\ Refuse(run).at = "refused" /\ Refuse(run).settled = settled /\ Refuse(run).manifest = {}
    BY DEF NotRunning, Refuse
  <1>3. CASE \E m \in manifest : ManifestVerified(m)
    <2>1. provisioner' = [provisioner EXCEPT ![p] = run]
      BY <1>3 DEF Begin
    <2>. HIDE DEF run
    <2>. QED BY <1>1, <1>2, <1>3, <2>1 DEF Others
  <1>4. CASE ~\E m \in manifest : ManifestVerified(m)
    <2>1. provisioner' = [provisioner EXCEPT ![p] = Refuse(run)]
      BY <1>4 DEF Begin
    <2>. HIDE DEF run
    <2>. QED BY <1>1, <1>2, <1>4, <2>1 DEF Others
  <1>. QED BY <1>3, <1>4

LEMMA VerifyTo ==
    ASSUME Typed, NEW p \in Provisioners, VerifyTask(p)
    PROVE  /\ Others(p)
           /\ \/ Refused(p) /\ ~ProjectionsVerified(Selected(p), Task(p))
              \/ /\ ProjectionsVerified(Selected(p), Task(p))
                 /\ provisioner'[p].manifest = provisioner[p].manifest
                 /\ provisioner'[p].settled = provisioner[p].settled
                 /\ \/ /\ provisioner[p].task < Len(TaskIds) /\ provisioner'[p].at = "verify"
                       /\ provisioner'[p].task = provisioner[p].task + 1
                    \/ /\ ~(provisioner[p].task < Len(TaskIds)) /\ provisioner'[p].at = "load"
                       /\ provisioner'[p].task = 1
  <1>1. provisioner \in [Provisioners -> Runs] /\ provisioner[p] \in Runs
    BY TypesAreKnown DEF Typed
  <1>2. At(p, "verify")
    BY DEF VerifyTask
  <1>3. CASE ~ProjectionsVerified(Selected(p), Task(p))
    <2>1. provisioner' = [provisioner EXCEPT ![p] = Refuse(provisioner[p])]
      BY <1>3 DEF VerifyTask
    <2>. QED BY <1>1, <1>3, <2>1 DEF Others, Refused, Refuse, NotRunning
  <1>4. CASE ProjectionsVerified(Selected(p), Task(p)) /\ provisioner[p].task < Len(TaskIds)
    <2>1. provisioner' = [provisioner EXCEPT ![p] = [provisioner[p] EXCEPT !.task = @ + 1]]
      BY <1>4 DEF VerifyTask
    <2>. QED BY <1>1, <1>2, <1>4, <2>1 DEF Others, Runs, At
  <1>5. CASE ProjectionsVerified(Selected(p), Task(p)) /\ ~(provisioner[p].task < Len(TaskIds))
    <2>1. provisioner' = [provisioner EXCEPT ![p] =
                             [provisioner[p] EXCEPT !.at = "load", !.task = 1]]
      BY <1>5 DEF VerifyTask
    <2>. QED BY <1>1, <1>5, <2>1 DEF Others, Runs
  <1>. QED BY <1>3, <1>4, <1>5

LEMMA LoadTo ==
    ASSUME Typed, NEW p \in Provisioners, LoadProjections(p)
    PROVE  /\ Others(p) /\ Keeps(p)
           /\ provisioner'[p].at = "functional"
           /\ \E evaluation \in projection[Task(p)].evaluation :
                 provisioner'[p].patch = evaluation.test_patch
  <1>1. provisioner \in [Provisioners -> Runs] /\ provisioner[p] \in Runs
    BY TypesAreKnown DEF Typed
  <1>2. PICK evaluation \in projection[Task(p)].evaluation :
            provisioner' = [provisioner EXCEPT ![p].at = "functional",
                                               ![p].patch = evaluation.test_patch]
    BY DEF LoadProjections
  <1>3. provisioner' = [provisioner EXCEPT ![p] =
            [provisioner[p] EXCEPT !.at = "functional", !.patch = evaluation.test_patch]]
    BY <1>1, <1>2
  <1>. QED BY <1>1, <1>3 DEF Others, Keeps, Runs

(* Inspect lets a task pass, or refuses.                                   *)
Passes(p) == (provisioner[p].patch = {}) <=> (evaluator[Task(p)].delta \ Created = {})

LEMMA InspectTo ==
    ASSUME Typed, NEW p \in Provisioners, Inspect(p)
    PROVE  /\ Others(p)
           /\ \/ ~Passes(p) /\ Refused(p)
              \/ /\ Passes(p) /\ provisioner[p].task = Len(TaskIds)
                 /\ provisioner'[p].at = "returned" /\ Keeps(p)
              \/ /\ Passes(p) /\ provisioner[p].task # Len(TaskIds)
                 /\ provisioner'[p].at = "load"
                 /\ provisioner'[p].task = provisioner[p].task + 1
                 /\ provisioner'[p].manifest = provisioner[p].manifest
                 /\ provisioner'[p].settled = provisioner[p].settled
           /\ settled' = (settled \/ (/\ Passes(p) /\ provisioner[p].task = Len(TaskIds)
                                      /\ ManifestVerified(Selected(p))))
  <1>1. provisioner \in [Provisioners -> Runs] /\ provisioner[p] \in Runs
    BY TypesAreKnown DEF Typed
  <1>. DEFINE run == [provisioner[p] EXCEPT !.patch = {}]
  <1>2. /\ run \in Runs
        /\ run.task = provisioner[p].task /\ run.manifest = provisioner[p].manifest
        /\ run.settled = provisioner[p].settled
    BY <1>1 DEF Runs
  <1>3. settled' = (settled \/ (/\ Passes(p) /\ provisioner[p].task = Len(TaskIds)
                                /\ ManifestVerified(Selected(p))))
    BY <1>2 DEF Inspect, Passes
  <1>4. CASE ~Passes(p)
    <2>1. provisioner' = [provisioner EXCEPT ![p] = Refuse(run)]
      BY <1>4 DEF Inspect, Passes
    <2>. HIDE DEF run
    <2>. QED BY <1>1, <1>2, <1>3, <1>4, <2>1 DEF Others, Refused, Refuse, NotRunning
  <1>5. CASE Passes(p) /\ provisioner[p].task = Len(TaskIds)
    <2>1. provisioner' = [provisioner EXCEPT ![p] = [run EXCEPT !.at = "returned"]]
      BY <1>2, <1>5 DEF Inspect, Passes
    <2>. HIDE DEF run
    <2>. QED BY <1>1, <1>2, <1>3, <1>5, <2>1 DEF Others, Keeps, Runs
  <1>6. CASE Passes(p) /\ provisioner[p].task # Len(TaskIds)
    <2>1. provisioner' = [provisioner EXCEPT ![p] = [run EXCEPT !.at = "load", !.task = @ + 1]]
      BY <1>2, <1>6 DEF Inspect, Passes
    <2>. HIDE DEF run
    <2>. QED BY <1>1, <1>2, <1>3, <1>6, <2>1 DEF Others, Runs
  <1>. QED BY <1>4, <1>5, <1>6

LEMMA EndsTo ==
    ASSUME Typed, NEW p \in Provisioners, Stops(p) \/ Exits(p)
    PROVE  Others(p) /\ provisioner'[p] = NotRunning
  BY TypesAreKnown DEF Typed, Stops, Exits, Others

-----------------------------------------------------------------------------
(* The functional checkouts.                                               *)

LEMMA SameRun ==
    ASSUME NEW q \in Provisioners,
           provisioner'[q].manifest = provisioner[q].manifest,
           provisioner'[q].task = provisioner[q].task
    PROVE  Task(q)' = Task(q) /\ Selected(q)' = Selected(q) /\ Base(q)' = Base(q)
  BY DEF Task, Selected, Base, RecordIn

LEMMA OthersRun ==
    ASSUME NEW p \in Provisioners, Others(p), NEW q \in Provisioners, q # p
    PROVE  /\ provisioner'[q] = provisioner[q]
           /\ Task(q)' = Task(q) /\ Selected(q)' = Selected(q) /\ Base(q)' = Base(q)
  BY SameRun DEF Others

LEMMA CheckoutFields ==
    /\ Fetched \in Checkout
    /\ Fetched.exists /\ Fetched.origin = "registered" /\ Fetched.head = {} /\ Fetched.delta = {}
    /\ \A c : /\ c \in Commits => Pristine(c) \in Checkout
              /\ Pristine(c).exists /\ Pristine(c).origin = "registered"
              /\ Pristine(c).head = {c} /\ Pristine(c).delta = {}
    /\ \A h : /\ h \in File(Commits) => Cloned(h) \in Checkout
              /\ Cloned(h).exists /\ Cloned(h).origin = "local"
              /\ Cloned(h).head = h /\ Cloned(h).delta = {}
  BY DEF Fetched, Pristine, Cloned, Checkout, File

LEMMA SameCheckout ==
    ASSUME NEW a \in Checkout, NEW b \in Checkout, a.exists, b.exists,
           a.origin = b.origin, a.head = b.head, a.delta = b.delta
    PROVE  a = b
  BY DEF Checkout

LEMMA FunctionalUntouched ==
    ASSUME FunctionalInv, functional' = functional, NEW p \in Provisioners, Others(p),
           \/ provisioner'[p].at \notin {"remote", "fetch"} \cup Checked
           \/ /\ Keeps(p) /\ provisioner'[p].at \in Checked
              /\ \/ provisioner[p].at \in Checked
                 \/ functional[Task(p)] = Pristine(Base(p))
    PROVE  FunctionalInv'
  <1>1. \A t \in Tasks : FunctionalTree(t)'
    BY DEF FunctionalInv, FunctionalTree
  <1>2. FunctionalOf(p)' /\ ~At(p, "fetch")'
    BY SameRun DEF FunctionalInv, FunctionalOf, Checked, Keeps, At
  <1>3. ASSUME NEW q \in Provisioners, q # p PROVE FunctionalOf(q)'
    BY <1>3, OthersRun DEF FunctionalInv, FunctionalOf, At
  <1>4. OneFetches'
    BY <1>2, OthersRun DEF FunctionalInv, OneFetches, At
  <1>. QED BY <1>1, <1>2, <1>3, <1>4 DEF FunctionalInv

(* A checkout in the making becomes what nobody else relies on.            *)
LEMMA FunctionalTouched ==
    ASSUME Typed, FunctionalInv, NEW p \in Provisioners, Running(p), Others(p),
           NEW c \in Checkout, functional' = [functional EXCEPT ![Task(p)] = c],
           c.exists, c.origin # "local",
           c.head # {} => c.origin = "registered", c.head = {} => c.delta = {},
           \A q \in Provisioners : q # p /\ Task(q) = Task(p) =>
               /\ At(q, "fetch") => c = Fetched
               /\ provisioner[q].at \in Checked => c = Pristine(Base(q)),
           provisioner'[p].task = provisioner[p].task,
           provisioner'[p].at \notin Checked,
           At(p, "fetch")' =>
               /\ c = Fetched
               /\ \A q \in Provisioners : q # p /\ Task(q) = Task(p) => ~At(q, "fetch")
    PROVE  FunctionalInv'
  <1>1. functional \in [Tasks -> Checkout] /\ Task(p) \in Tasks /\ Task(p)' = Task(p)
    BY TypesAreKnown, SelectedIs DEF Typed, Task
  <1>2. ASSUME NEW t \in Tasks PROVE FunctionalTree(t)'
    BY <1>1 DEF FunctionalInv, FunctionalTree
  <1>3. FunctionalOf(p)'
    BY <1>1 DEF FunctionalOf, At
  <1>4. ASSUME NEW q \in Provisioners, q # p PROVE FunctionalOf(q)'
    BY <1>1, <1>4, OthersRun DEF FunctionalInv, FunctionalOf, At
  <1>5. OneFetches'
    BY <1>1, OthersRun DEF FunctionalInv, OneFetches, At
  <1>. QED BY <1>2, <1>3, <1>4, <1>5 DEF FunctionalInv

(* A step of the bed leaves every provisioner where it is.                 *)
LEMMA MaterialKeepsRuns ==
    ASSUME Typed, MaterialSteps, NEW q \in Provisioners
    PROVE  /\ provisioner'[q].at = provisioner[q].at
           /\ provisioner'[q].task = provisioner[q].task
           /\ provisioner'[q].manifest = provisioner[q].manifest
           /\ provisioner'[q].patch = provisioner[q].patch
           /\ provisioner'[q].settled = (provisioner[q].settled /\ registration' = registration)
           /\ Task(q)' = Task(q) /\ Selected(q)' = Selected(q) /\ Base(q)' = Base(q)
  <1>1. provisioner[q] \in Runs
    BY TypesAreKnown DEF Typed
  <1>2. provisioner'[q] =
            [provisioner[q] EXCEPT !.settled = @ /\ registration' = registration]
    BY DEF MaterialSteps
  <1>. QED BY <1>1, <1>2, SameRun DEF Runs

LEMMA FunctionalStep ==
    ASSUME Typed, FunctionalInv, [Next]_vars
    PROVE  FunctionalInv'
  <1>1. CASE MaterialSteps
    <2>1. functional' = functional
      BY <1>1 DEF MaterialSteps
    <2>. QED BY <1>1, <2>1, MaterialKeepsRuns
          DEF FunctionalInv, FunctionalTree, FunctionalOf, OneFetches, At
  <1>2. CASE Edit
    <2>1. UNCHANGED provisioner /\ \A p \in Provisioners : provisioner[p].at = "idle"
      BY <1>2 DEF Edit
    <2>2. \A t \in Tasks : FunctionalTree(t)'
      <3>1. functional \in [Tasks -> Checkout]
        BY TypesAreKnown DEF Typed
      <3>2. CASE functional' = functional
        BY <3>2 DEF FunctionalInv, FunctionalTree
      <3>3. ASSUME NEW t \in Tasks, NEW path \in Edited, functional[t].head # {},
                   functional' = [functional EXCEPT ![t].delta = Toggle(@, path)]
            PROVE  \A u \in Tasks : FunctionalTree(u)'
        <4>1. /\ functional'[t].head = functional[t].head
              /\ functional'[t].origin = functional[t].origin
              /\ functional'[t].exists = functional[t].exists
              /\ \A u \in Tasks : u # t => functional'[u] = functional[u]
          BY <3>1, <3>3 DEF Checkout
        <4>. QED BY <3>3, <4>1 DEF FunctionalInv, FunctionalTree, Absent
      <3>. QED BY <1>2, <3>2, <3>3 DEF Edit
    <2>. QED BY <2>1, <2>2 DEF FunctionalInv, FunctionalOf, OneFetches, At, Checked
  <1>3. ASSUME NEW p \in Provisioners, Provisions(p) \/ Exits(p)
        PROVE  FunctionalInv'
    <2>. USE DEF Checked
    <2>1. functional \in [Tasks -> Checkout] /\ evaluator \in [Tasks -> Checkout]
      BY TypesAreKnown DEF Typed
    <2>2. OnlyMoves => functional' = functional
      BY DEF OnlyMoves, checkouts
    <2>3. CASE Begin(p)
      BY <2>2, <2>3, BeginTo, FunctionalUntouched DEF Begin
    <2>4. CASE VerifyTask(p)
      BY <2>2, <2>4, VerifyTo, FunctionalUntouched DEF VerifyTask, Refused
    <2>5. CASE LoadProjections(p)
      BY <2>2, <2>5, LoadTo, FunctionalUntouched DEF LoadProjections
    <2>6. CASE LookForFunctional(p)
      BY <2>2, <2>6, MovesTo, FunctionalUntouched DEF LookForFunctional, To
    <2>7. CASE GitInit(p)
      <3>1. At(p, "init") /\ Running(p) /\ Others(p) /\ To(p, "remote")
        BY <2>7, MovesTo DEF GitInit, At, Running
      <3>. DEFINE c == [functional[Task(p)] EXCEPT !.exists = TRUE]
      <3>2. functional' = [functional EXCEPT ![Task(p)] = c]
        BY <2>7 DEF GitInit, ChangesFunctional
      <3>3. functional[Task(p)] \in Checkout /\ FunctionalTree(Task(p))
        BY <2>1, <3>1, SelectedIs DEF FunctionalInv
      <3>4. /\ c \in Checkout /\ c.exists /\ c.origin = functional[Task(p)].origin
            /\ c.head = functional[Task(p)].head /\ c.delta = functional[Task(p)].delta
            /\ functional[Task(p)].exists => c = functional[Task(p)]
        BY <3>3 DEF Checkout
      <3>5. \A q \in Provisioners : q # p /\ Task(q) = Task(p) =>
               /\ At(q, "fetch") => c = Fetched
               /\ provisioner[q].at \in Checked => c = Pristine(Base(q))
        BY <3>4 DEF FunctionalInv, FunctionalOf, Fetched, Pristine
      <3>. HIDE DEF c
      <3>6. /\ provisioner'[p].task = provisioner[p].task
            /\ provisioner'[p].at \notin Checked /\ ~At(p, "fetch")'
        BY <3>1 DEF To, Keeps, At
      <3>7. /\ c.origin # "local"
            /\ c.head # {} => c.origin = "registered"
            /\ c.head = {} => c.delta = {}
        BY <3>3, <3>4 DEF FunctionalTree
      <3>. QED BY <3>1, <3>2, <3>4, <3>5, <3>6, <3>7, FunctionalTouched
    <2>8. CASE GitRemoteAdd(p)
      <3>1. /\ At(p, "remote") /\ Running(p) /\ Others(p)
            /\ functional[Task(p)].origin = "none" => To(p, "fetch")
            /\ functional[Task(p)].origin # "none" => Refused(p)
        BY <2>8, RequiresTo DEF GitRemoteAdd, At, Running
      <3>. DEFINE c == [functional[Task(p)] EXCEPT !.origin = "registered"]
      <3>2. functional' = [functional EXCEPT ![Task(p)] = c]
        BY <2>8 DEF GitRemoteAdd, ChangesFunctional
      <3>3. /\ functional[Task(p)] \in Checkout /\ FunctionalTree(Task(p))
            /\ functional[Task(p)].exists
        BY <2>1, <3>1, SelectedIs DEF FunctionalInv, FunctionalOf
      <3>4. CASE functional[Task(p)].origin = "none"
        <4>1. c = Fetched /\ c \in Checkout
          <5>1. functional[Task(p)].head = {} /\ functional[Task(p)].delta = {}
            BY <3>3, <3>4 DEF FunctionalTree
          <5>2. [functional[Task(p)] EXCEPT !.origin = "registered"] = Fetched
            BY ZenonT(60), <3>3, <5>1, CheckoutFields DEF Checkout
          <5>. QED BY <5>2, CheckoutFields
        <4>2. \A q \in Provisioners : q # p /\ Task(q) = Task(p) =>
                 ~At(q, "fetch") /\ provisioner[q].at \notin Checked
          BY <3>4, CheckoutFields DEF FunctionalInv, FunctionalOf
        <4>. HIDE DEF c
        <4>3. /\ provisioner'[p].task = provisioner[p].task
              /\ provisioner'[p].at = "fetch"
          BY <3>1, <3>4 DEF To, Keeps
        <4>. QED BY <3>1, <3>2, <4>1, <4>2, <4>3, CheckoutFields, FunctionalTouched
      <3>5. CASE functional[Task(p)].origin # "none"
        <4>1. c = functional[Task(p)]
          BY <3>3, <3>5 DEF FunctionalTree, Checkout
        <4>. HIDE DEF c
        <4>2. functional' = functional
          BY <2>1, <3>2, <4>1
        <4>. QED BY <3>1, <3>5, <4>2, FunctionalUntouched DEF Refused
      <3>. QED BY <3>4, <3>5
    <2>9. CASE GitCheckout(p)
      <3>1. At(p, "fetch") /\ Running(p) /\ Others(p) /\ To(p, "assert")
        BY <2>9, MovesTo DEF GitCheckout, At, Running
      <3>. DEFINE c == [functional[Task(p)] EXCEPT !.head = {Base(p)}, !.delta = {}]
      <3>2. functional' = [functional EXCEPT ![Task(p)] = c]
        BY <2>9 DEF GitCheckout, ChangesFunctional
      <3>3. functional[Task(p)] = Fetched /\ c \in Checkout
        BY <3>1, CheckoutsAreTyped DEF FunctionalInv, FunctionalOf
      <3>4. /\ c.exists /\ c.origin = "registered" /\ c.head # {}
        BY <3>3 DEF Fetched
      <3>5. \A q \in Provisioners : q # p /\ Task(q) = Task(p) =>
               ~At(q, "fetch") /\ provisioner[q].at \notin Checked
        <4>1. ASSUME NEW q \in Provisioners, q # p, Task(q) = Task(p) PROVE ~At(q, "fetch")
          BY <3>1, <4>1 DEF FunctionalInv, OneFetches
        <4>2. ASSUME NEW q \in Provisioners, Task(q) = Task(p), provisioner[q].at \in Checked
              PROVE  FALSE
          <5>1. Fetched = Pristine(Base(q))
            BY <3>3, <4>2 DEF FunctionalInv, FunctionalOf
          <5>. QED BY <5>1, CheckoutFields
        <4>. QED BY <4>1, <4>2
      <3>. HIDE DEF c
      <3>. QED BY ZenonT(60), <3>1, <3>2, <3>3, <3>4, <3>5, FunctionalTouched DEF To, Keeps, At
    <2>10. CASE AssertFunctional(p)
      BY ZenonT(60), <2>2, <2>10, RequiresTo, FunctionalUntouched
         DEF AssertFunctional, CleanAtBase, Refused, To
    <2>11. CASE LookForEvaluator(p)
      BY <2>2, <2>11, MovesTo, FunctionalUntouched DEF LookForEvaluator, To, At
    <2>12. CASE BeginClone(p)
      BY <2>2, <2>12, RequiresTo, FunctionalUntouched
         DEF BeginClone, ChangesEvaluator, Refused, To, At
    <2>13. CASE EndClone(p)
      BY <2>13, MovesTo, FunctionalUntouched DEF EndClone, ChangesEvaluator, To, At
    <2>14. CASE SetUrl(p)
      BY <2>14, MovesTo, FunctionalUntouched DEF SetUrl, ChangesEvaluator, To, At
    <2>15. CASE AssertEvaluator(p)
      BY <2>2, <2>15, RequiresTo, FunctionalUntouched
         DEF AssertEvaluator, CleanAtBase, Refused, To, At
    <2>16. CASE ApplyPatch(p)
      <3>1. At(p, "apply")
        BY <2>16 DEF ApplyPatch
      <3>2. functional' = functional
        BY <2>2, <2>16 DEF ApplyPatch, ChangesEvaluator
      <3>3. \/ Requires(p, provisioner[p].patch # {}, "inspect")
            \/ UNCHANGED provisioner
        BY <2>16 DEF ApplyPatch
      <3>. QED BY <3>1, <3>2, <3>3, RequiresTo, FunctionalUntouched
            DEF Refused, To, At, Others, Keeps
    <2>17. CASE Resume(p)
      <3>1. At(p, "resume") /\ OnlyMoves /\ Others(p) /\ (To(p, "inspect") \/ Refused(p))
        BY <2>17, RequiresTo DEF Resume
      <3>. QED BY <2>2, <3>1, FunctionalUntouched DEF Refused, To, At
    <2>18. CASE Inspect(p)
      <3>1. functional' = functional
        BY <2>18 DEF Inspect, checkouts
      <3>. QED BY <2>18, <3>1, InspectTo, FunctionalUntouched DEF Refused
    <2>19. CASE Stops(p) \/ Exits(p)
      <3>1. functional' = functional
        BY <2>2, <2>19 DEF Stops, Exits
      <3>. QED BY <2>19, <3>1, EndsTo, FunctionalUntouched DEF NotRunning
    <2>. QED
      BY <1>3, <2>3, <2>4, <2>5, <2>6, <2>7, <2>8, <2>9, <2>10, <2>11, <2>12, <2>13, <2>14,
         <2>15, <2>16, <2>17, <2>18, <2>19 DEF Provisions
  <1>4. CASE UNCHANGED vars
    BY <1>4 DEF vars, FunctionalInv, FunctionalTree, FunctionalOf, OneFetches, At, Task, Base,
                Selected
  <1>. QED BY <1>1, <1>2, <1>3, <1>4, Steps

-----------------------------------------------------------------------------
(* The evaluator's checkouts.                                              *)

LEMMA EvaluatorUntouched ==
    ASSUME EvaluatorInv, evaluator' = evaluator, NEW p \in Provisioners, Others(p),
           \/ provisioner'[p].at \notin Cloning
           \/ To(p, "apply") /\ At(p, "recheck")
    PROVE  EvaluatorInv'
  <1>1. \A t \in Tasks : EvaluatorTree(t)'
    BY DEF EvaluatorInv, EvaluatorTree
  <1>2. EvaluatorOf(p)'
    <2>1. CASE provisioner'[p].at \notin Cloning
      BY <2>1 DEF EvaluatorOf, Cloning, At
    <2>2. CASE To(p, "apply") /\ At(p, "recheck")
      <3>1. AtBase(evaluator[Task(p)], Base(p)) /\ evaluator[Task(p)].delta = {}
        BY ZenonT(60), <2>2, CheckoutFields DEF EvaluatorInv, EvaluatorOf, AtBase
      <3>2. Task(p)' = Task(p) /\ Base(p)' = Base(p) /\ provisioner'[p].at = "apply"
        BY <2>2, SameRun DEF To, Keeps
      <3>. QED BY <3>1, <3>2 DEF EvaluatorOf, AtBase, At
    <2>. QED BY <2>1, <2>2
  <1>3. ASSUME NEW q \in Provisioners, q # p PROVE EvaluatorOf(q)'
    BY <1>3, OthersRun DEF EvaluatorInv, EvaluatorOf, AtBase, At
  <1>4. OneClones'
    <2>1. provisioner'[p].at \in Cloning => provisioner[p].at \in Cloning /\ Task(p)' = Task(p)
      BY SameRun DEF Cloning, To, Keeps, At
    <2>. QED BY <2>1, OthersRun DEF EvaluatorInv, OneClones
  <1>. QED BY <1>1, <1>2, <1>3, <1>4 DEF EvaluatorInv

(* A checkout is cloned and patched by one provisioner.                    *)
LEMMA EvaluatorTouched ==
    ASSUME Typed, EvaluatorInv, NEW p \in Provisioners, Running(p), Others(p), Keeps(p),
           NEW c \in Checkout, evaluator' = [evaluator EXCEPT ![Task(p)] = c],
           c.exists, c.head = {} => c.delta = {},
           At(p, "cloning")' => c = Cloned({}),
           At(p, "seturl")' => c = Cloned({Base(p)}),
           At(p, "recheck")' => c = Pristine(Base(p)),
           At(p, "apply")' => AtBase(c, Base(p)) /\ c.delta \subseteq provisioner'[p].patch,
           \A q \in Provisioners : q # p /\ Task(q) = Task(p) => provisioner[q].at \notin Cloning
    PROVE  EvaluatorInv'
  <1>1. /\ evaluator \in [Tasks -> Checkout] /\ Task(p) \in Tasks
        /\ Task(p)' = Task(p) /\ Base(p)' = Base(p)
    BY TypesAreKnown, SelectedIs, SameRun DEF Typed, Keeps
  <1>2. ASSUME NEW t \in Tasks PROVE EvaluatorTree(t)'
    BY <1>1 DEF EvaluatorInv, EvaluatorTree
  <1>3. EvaluatorOf(p)'
    BY <1>1 DEF EvaluatorOf, AtBase
  <1>4. ASSUME NEW q \in Provisioners, q # p PROVE EvaluatorOf(q)'
    <2>1. /\ provisioner'[q] = provisioner[q]
          /\ Task(q)' = Task(q) /\ Base(q)' = Base(q)
      BY <1>4, OthersRun
    <2>2. CASE provisioner[q].at \in Cloning
      <3>1. Task(q) # Task(p)
        BY <1>4, <2>2
      <3>2. evaluator'[Task(q)] = evaluator[Task(q)]
        <4>1. Task(q) \in Tasks
          BY <2>2, SelectedIs DEF Running, Cloning
        <4>. QED BY <1>1, <3>1, <4>1
      <3>. QED BY <2>1, <3>2 DEF EvaluatorInv, EvaluatorOf, AtBase, At
    <2>3. CASE provisioner[q].at \notin Cloning
      BY <2>1, <2>3 DEF EvaluatorOf, Cloning, At
    <2>. QED BY <2>2, <2>3
  <1>5. OneClones'
    BY <1>1, OthersRun DEF EvaluatorInv, OneClones
  <1>. QED BY <1>2, <1>3, <1>4, <1>5 DEF EvaluatorInv

LEMMA EvaluatorStep ==
    ASSUME Typed, FunctionalInv, EvaluatorInv, [Next]_vars
    PROVE  EvaluatorInv'
  <1>1. CASE MaterialSteps
    <2>1. evaluator' = evaluator
      BY <1>1 DEF MaterialSteps
    <2>. QED BY <1>1, <2>1, MaterialKeepsRuns
          DEF EvaluatorInv, EvaluatorTree, EvaluatorOf, OneClones, AtBase, At
  <1>2. CASE Edit
    <2>1. UNCHANGED provisioner /\ \A p \in Provisioners : provisioner[p].at = "idle"
      BY <1>2 DEF Edit
    <2>2. \A t \in Tasks : EvaluatorTree(t)'
      <3>1. evaluator \in [Tasks -> Checkout]
        BY TypesAreKnown DEF Typed
      <3>2. CASE evaluator' = evaluator
        BY <3>2 DEF EvaluatorInv, EvaluatorTree
      <3>3. ASSUME NEW t \in Tasks, NEW path \in Edited, evaluator[t].head # {},
                   evaluator' = [evaluator EXCEPT ![t].delta = Toggle(@, path)]
            PROVE  \A u \in Tasks : EvaluatorTree(u)'
        <4>1. /\ evaluator'[t].head = evaluator[t].head
              /\ evaluator'[t].exists = evaluator[t].exists
              /\ \A u \in Tasks : u # t => evaluator'[u] = evaluator[u]
          BY <3>1, <3>3 DEF Checkout
        <4>. QED BY <3>3, <4>1 DEF EvaluatorInv, EvaluatorTree, Absent
      <3>. QED BY <1>2, <3>2, <3>3 DEF Edit
    <2>. QED BY <2>1, <2>2 DEF EvaluatorInv, EvaluatorOf, OneClones, At, Cloning
  <1>3. ASSUME NEW p \in Provisioners, Provisions(p) \/ Exits(p)
        PROVE  EvaluatorInv'
    <2>. USE DEF Cloning
    <2>1. functional \in [Tasks -> Checkout] /\ evaluator \in [Tasks -> Checkout]
      BY TypesAreKnown DEF Typed
    <2>2. OnlyMoves => evaluator' = evaluator
      BY DEF OnlyMoves, checkouts
    <2>3. CASE Begin(p)
      BY <2>2, <2>3, BeginTo, EvaluatorUntouched DEF Begin
    <2>4. CASE VerifyTask(p)
      BY <2>2, <2>4, VerifyTo, EvaluatorUntouched DEF VerifyTask, Refused
    <2>5. CASE LoadProjections(p)
      BY <2>2, <2>5, LoadTo, EvaluatorUntouched DEF LoadProjections
    <2>6. CASE LookForFunctional(p)
      BY <2>2, <2>6, MovesTo, EvaluatorUntouched DEF LookForFunctional, To
    <2>7. CASE GitInit(p)
      BY <2>7, MovesTo, EvaluatorUntouched DEF GitInit, ChangesFunctional, To
    <2>8. CASE GitRemoteAdd(p)
      <3>1. Others(p) /\ (To(p, "fetch") \/ Refused(p)) /\ evaluator' = evaluator
        BY <2>8, RequiresTo DEF GitRemoteAdd, ChangesFunctional
      <3>. QED BY <3>1, EvaluatorUntouched DEF Refused, To
    <2>9. CASE GitCheckout(p)
      BY <2>9, MovesTo, EvaluatorUntouched DEF GitCheckout, ChangesFunctional, To
    <2>10. CASE AssertFunctional(p)
      BY ZenonT(60), <2>2, <2>10, RequiresTo, EvaluatorUntouched
         DEF AssertFunctional, CleanAtBase, Refused, To
    <2>11. CASE LookForEvaluator(p)
      BY <2>2, <2>11, MovesTo, EvaluatorUntouched DEF LookForEvaluator, To
    <2>12. CASE BeginClone(p)
      <3>1. /\ At(p, "clone") /\ Running(p) /\ Others(p)
            /\ ~evaluator[Task(p)].exists => To(p, "cloning")
            /\ evaluator[Task(p)].exists => Refused(p)
        <4>1. (~evaluator[Task(p)].exists) \in BOOLEAN
          OBVIOUS
        <4>. QED BY <2>12, <4>1, RequiresTo DEF BeginClone, At, Running
      <3>2. CASE evaluator[Task(p)].exists
        BY <2>2, <2>12, <3>1, <3>2, EvaluatorUntouched DEF BeginClone, Refused
      <3>3. CASE ~evaluator[Task(p)].exists
        <4>. DEFINE c == [Absent EXCEPT !.exists = TRUE, !.origin = "local"]
        <4>1. evaluator' = [evaluator EXCEPT ![Task(p)] = c]
          BY <2>12, <3>3 DEF BeginClone, ChangesEvaluator
        <4>2. c \in Checkout /\ c = Cloned({})
          <5>1. c \in Checkout /\ Cloned({}) \in Checkout
            BY <3>1, CheckoutsAreTyped, CheckoutFields DEF File
          <5>2. c.exists /\ c.origin = "local" /\ c.head = {} /\ c.delta = {}
            BY DEF Absent
          <5>3. /\ Cloned({}).exists /\ Cloned({}).origin = "local"
                /\ Cloned({}).head = {} /\ Cloned({}).delta = {}
            BY CheckoutFields
          <5>. HIDE DEF c
          <5>. QED BY <5>1, <5>2, <5>3, SameCheckout
        <4>3. \A q \in Provisioners : q # p /\ Task(q) = Task(p) => provisioner[q].at \notin Cloning
          <5>1. ASSUME NEW q \in Provisioners, Task(q) = Task(p), provisioner[q].at \in Cloning
                PROVE  evaluator[Task(p)].exists
            <6>1. EvaluatorOf(q)
              BY DEF EvaluatorInv
            <6>. QED BY <5>1, <6>1, CheckoutFields DEF EvaluatorOf, AtBase, At
          <5>. QED BY <3>3, <5>1
        <4>4. Keeps(p) /\ provisioner'[p].at = "cloning"
          BY <3>1, <3>3 DEF To
        <4>. HIDE DEF c
        <4>. QED BY <3>1, <4>1, <4>2, <4>3, <4>4, CheckoutFields, EvaluatorTouched DEF At
      <3>. QED BY <3>2, <3>3
    <2>13. CASE EndClone(p)
      <3>1. At(p, "cloning") /\ Running(p) /\ Others(p) /\ To(p, "seturl")
        BY <2>13, MovesTo DEF EndClone, At, Running
      <3>. DEFINE c == [evaluator[Task(p)] EXCEPT !.head = functional[Task(p)].head]
      <3>2. evaluator' = [evaluator EXCEPT ![Task(p)] = c]
        BY <2>13 DEF EndClone, ChangesEvaluator
      <3>3. c \in Checkout /\ evaluator[Task(p)] \in Checkout
        BY <2>1, <3>1, CheckoutsAreTyped, SelectedIs
      <3>4. evaluator[Task(p)] = Cloned({}) /\ functional[Task(p)] = Pristine(Base(p))
        BY <3>1 DEF EvaluatorInv, EvaluatorOf, FunctionalInv, FunctionalOf, Checked, At
      <3>5. c = Cloned({Base(p)})
        <4>1. c.exists /\ c.origin = "local" /\ c.head = {Base(p)} /\ c.delta = {}
          BY <3>3, <3>4, CheckoutFields DEF Checkout
        <4>2. Cloned({Base(p)}) \in Checkout
          BY <3>1, SelectedIs, CheckoutFields DEF File
        <4>. HIDE DEF c
        <4>. QED BY ZenonT(60), <3>3, <4>1, <4>2, CheckoutFields, SameCheckout
      <3>6. \A q \in Provisioners : q # p /\ Task(q) = Task(p) => provisioner[q].at \notin Cloning
        BY <3>1 DEF EvaluatorInv, OneClones, At
      <3>7. Keeps(p) /\ provisioner'[p].at = "seturl"
        BY <3>1 DEF To
      <3>. HIDE DEF c
      <3>. QED BY <3>1, <3>2, <3>3, <3>5, <3>6, <3>7, CheckoutFields, EvaluatorTouched DEF At
    <2>14. CASE SetUrl(p)
      <3>1. At(p, "seturl") /\ Running(p) /\ Others(p) /\ To(p, "recheck")
        BY <2>14, MovesTo DEF SetUrl, At, Running
      <3>. DEFINE c == [evaluator[Task(p)] EXCEPT !.origin = "registered"]
      <3>2. evaluator' = [evaluator EXCEPT ![Task(p)] = c]
        BY <2>14 DEF SetUrl, ChangesEvaluator
      <3>3. c \in Checkout /\ evaluator[Task(p)] \in Checkout
        BY <2>1, <3>1, CheckoutsAreTyped, SelectedIs
      <3>4. evaluator[Task(p)] = Cloned({Base(p)})
        BY <3>1 DEF EvaluatorInv, EvaluatorOf
      <3>5. c = Pristine(Base(p))
        <4>1. c.exists /\ c.origin = "registered" /\ c.head = {Base(p)} /\ c.delta = {}
          BY <3>3, <3>4, CheckoutFields DEF Checkout
        <4>2. Pristine(Base(p)) \in Checkout
          BY <3>1, SelectedIs, CheckoutFields
        <4>. HIDE DEF c
        <4>. QED BY ZenonT(60), <3>3, <4>1, <4>2, CheckoutFields, SameCheckout
      <3>6. \A q \in Provisioners : q # p /\ Task(q) = Task(p) => provisioner[q].at \notin Cloning
        BY <3>1 DEF EvaluatorInv, OneClones, At
      <3>7. Keeps(p) /\ provisioner'[p].at = "recheck"
        BY <3>1 DEF To
      <3>. HIDE DEF c
      <3>. QED BY <3>1, <3>2, <3>3, <3>5, <3>6, <3>7, CheckoutFields, EvaluatorTouched DEF At
    <2>15. CASE AssertEvaluator(p)
      <3>1. At(p, "recheck") /\ OnlyMoves /\ Others(p) /\ (To(p, "apply") \/ Refused(p))
        BY <2>15, RequiresTo DEF AssertEvaluator, CleanAtBase
      <3>. QED BY <2>2, <3>1, EvaluatorUntouched DEF Refused
    <2>16. CASE ApplyPatch(p)
      <3>1. At(p, "apply") /\ Running(p)
        BY <2>16 DEF ApplyPatch, At, Running
      <3>2. CASE Requires(p, provisioner[p].patch # {}, "inspect") /\ OnlyMoves
        <4>1. Others(p) /\ (To(p, "inspect") \/ Refused(p)) /\ evaluator' = evaluator
          <5>1. (provisioner[p].patch # {}) \in BOOLEAN
            OBVIOUS
          <5>. QED BY <2>2, <3>2, <5>1, RequiresTo
        <4>. QED BY <4>1, EvaluatorUntouched DEF Refused, To
      <3>3. CASE \E path \in provisioner[p].patch \ evaluator[Task(p)].delta :
                  /\ ChangesEvaluator(Task(p), [evaluator[Task(p)] EXCEPT !.delta = @ \cup {path}])
                  /\ UNCHANGED provisioner
        <4>1. PICK path \in provisioner[p].patch :
                  ChangesEvaluator(Task(p), [evaluator[Task(p)] EXCEPT !.delta = @ \cup {path}])
          BY <3>3
        <4>2. path \in Paths
          BY TypesAreKnown DEF Typed, Runs
        <4>. DEFINE c == [evaluator[Task(p)] EXCEPT !.delta = @ \cup {path}]
        <4>3. evaluator' = [evaluator EXCEPT ![Task(p)] = c]
          BY <4>1 DEF ChangesEvaluator
        <4>4. c \in Checkout /\ evaluator[Task(p)] \in Checkout
          BY <2>1, <3>1, <4>2, CheckoutsAreTyped, SelectedIs
        <4>5. AtBase(evaluator[Task(p)], Base(p))
          BY <3>1 DEF EvaluatorInv, EvaluatorOf
        <4>6. AtBase(c, Base(p))
          BY <4>4, <4>5 DEF AtBase, Checkout
        <4>7. \A q \in Provisioners : q # p /\ Task(q) = Task(p) => provisioner[q].at \notin Cloning
          BY <3>1 DEF EvaluatorInv, OneClones, At
        <4>8. Keeps(p) /\ Others(p) /\ provisioner'[p].at = "apply"
          BY <3>1, <3>3 DEF Keeps, Others, At
        <4>. HIDE DEF c
        <4>9. c.exists /\ c.head # {}
          BY <4>6 DEF AtBase
        <4>10. c.delta \subseteq provisioner'[p].patch
          <5>1. provisioner' = provisioner /\ evaluator[Task(p)].delta \subseteq provisioner[p].patch
            BY <3>1, <3>3 DEF EvaluatorInv, EvaluatorOf
          <5>2. c.delta = evaluator[Task(p)].delta \cup {path}
            BY <4>4 DEF c, Checkout
          <5>. QED BY <5>1, <5>2
        <4>. QED BY <3>1, <4>3, <4>4, <4>6, <4>7, <4>8, <4>9, <4>10, EvaluatorTouched DEF At
      <3>. QED BY <2>16, <3>2, <3>3 DEF ApplyPatch
    <2>17. CASE Resume(p)
      <3>1. OnlyMoves /\ Others(p) /\ (To(p, "inspect") \/ Refused(p))
        BY <2>17, RequiresTo DEF Resume
      <3>. QED BY <2>2, <3>1, EvaluatorUntouched DEF Refused, To
    <2>18. CASE Inspect(p)
      <3>1. evaluator' = evaluator
        BY <2>18 DEF Inspect, checkouts
      <3>. QED BY <2>18, <3>1, InspectTo, EvaluatorUntouched DEF Refused
    <2>19. CASE Stops(p) \/ Exits(p)
      <3>1. evaluator' = evaluator
        BY <2>2, <2>19 DEF Stops, Exits
      <3>. QED BY <2>19, <3>1, EndsTo, EvaluatorUntouched DEF NotRunning
    <2>. QED
      BY <1>3, <2>3, <2>4, <2>5, <2>6, <2>7, <2>8, <2>9, <2>10, <2>11, <2>12, <2>13, <2>14,
         <2>15, <2>16, <2>17, <2>18, <2>19 DEF Provisions
  <1>4. CASE UNCHANGED vars
    BY ZenonT(60), <1>4 DEF vars, EvaluatorInv, EvaluatorTree, EvaluatorOf, OneClones, AtBase, At,
                              Task, Base, Selected
  <1>. QED BY <1>1, <1>2, <1>3, <1>4, Steps

LEMMA CheckoutInit ==
    Init => CheckoutInv
  <1>. SUFFICES ASSUME Init PROVE CheckoutInv
    OBVIOUS
  <1>1. /\ \A t \in Tasks : functional[t] = Absent /\ evaluator[t] = Absent
        /\ \A p \in Provisioners : provisioner[p].at = "idle"
    BY DEF Init, NotRunning
  <1>2. /\ ~Absent.exists /\ Absent.origin = "none" /\ Absent.head = {} /\ Absent.delta = {}
    BY DEF Absent
  <1>3. FunctionalInv
    BY <1>1, <1>2 DEF FunctionalInv, FunctionalTree, FunctionalOf, OneFetches, At, Checked
  <1>4. EvaluatorInv
    BY <1>1, <1>2 DEF EvaluatorInv, EvaluatorTree, EvaluatorOf, OneClones, At, Cloning
  <1>. QED BY <1>3, <1>4 DEF CheckoutInv

LEMMA CheckoutStep ==
    Typed /\ CheckoutInv /\ [Next]_vars => CheckoutInv'
  BY FunctionalStep, EvaluatorStep DEF CheckoutInv

-----------------------------------------------------------------------------
(* Nothing is lost.                                                        *)

LEMMA OneIsChanged ==
    ASSUME NEW f, NEW t, NEW c, f \in [Tasks -> Checkout], t \in Tasks, Preserved(f[t], c)
    PROVE  \A u \in Tasks : Preserved(f[u], [f EXCEPT ![t] = c][u])
  BY DEF Preserved

LEMMA StepPreserves ==
    ASSUME Typed, CheckoutInv, NEW p \in Provisioners, Provisions(p) \/ Exits(p), NEW t \in Tasks
    PROVE  Preserved(functional[t], functional'[t]) /\ Preserved(evaluator[t], evaluator'[t])
  <1>1. functional \in [Tasks -> Checkout] /\ evaluator \in [Tasks -> Checkout]
    BY TypesAreKnown DEF Typed
  <1>2. FunctionalInv /\ EvaluatorInv
    BY DEF CheckoutInv
  <1>3. \A c : Preserved(c, c)
    BY DEF Preserved
  <1>4. OnlyMoves \/ UNCHANGED checkouts => functional' = functional /\ evaluator' = evaluator
    BY DEF OnlyMoves, checkouts
  <1>5. ASSUME NEW c, ChangesFunctional(Task(p), c), Running(p), Preserved(functional[Task(p)], c)
        PROVE  Preserved(functional[t], functional'[t]) /\ Preserved(evaluator[t], evaluator'[t])
    BY <1>1, <1>3, <1>5, OneIsChanged, SelectedIs DEF ChangesFunctional
  <1>6. ASSUME NEW c, ChangesEvaluator(Task(p), c), Running(p), Preserved(evaluator[Task(p)], c)
        PROVE  Preserved(functional[t], functional'[t]) /\ Preserved(evaluator[t], evaluator'[t])
    BY <1>1, <1>3, <1>6, OneIsChanged, SelectedIs DEF ChangesEvaluator
  <1>7. CASE GitInit(p)
    <2>1. Running(p)
      BY <1>7 DEF GitInit, At, Running
    <2>2. functional[Task(p)] \in Checkout
      BY <1>1, <2>1, SelectedIs
    <2>3. Preserved(functional[Task(p)], [functional[Task(p)] EXCEPT !.exists = TRUE])
      BY <2>2 DEF Preserved, Checkout
    <2>. QED BY <1>5, <1>7, <2>1, <2>3 DEF GitInit
  <1>8. CASE GitRemoteAdd(p)
    <2>1. Running(p)
      BY <1>8 DEF GitRemoteAdd, At, Running
    <2>2. functional[Task(p)] \in Checkout
      BY <1>1, <2>1, SelectedIs
    <2>3. Preserved(functional[Task(p)], [functional[Task(p)] EXCEPT !.origin = "registered"])
      BY <2>2 DEF Preserved, Checkout
    <2>. QED BY <1>5, <1>8, <2>1, <2>3 DEF GitRemoteAdd
  <1>9. CASE GitCheckout(p)
    <2>1. At(p, "fetch") /\ Running(p)
      BY <1>9 DEF GitCheckout, At, Running
    <2>2. functional[Task(p)] = Fetched
      BY <1>2, <2>1 DEF FunctionalInv, FunctionalOf
    <2>3. ASSUME NEW c PROVE Preserved(Fetched, c)
      BY CheckoutFields DEF Preserved
    <2>. QED BY <1>5, <1>9, <2>1, <2>2, <2>3 DEF GitCheckout
  <1>10. CASE BeginClone(p)
    <2>1. Running(p)
      BY <1>10 DEF BeginClone, At, Running
    <2>2. CASE evaluator[Task(p)].exists
      BY <1>3, <1>4, <1>10, <2>2 DEF BeginClone
    <2>3. CASE ~evaluator[Task(p)].exists
      <3>1. evaluator[Task(p)] = Absent
        BY <1>2, <2>1, <2>3, SelectedIs DEF EvaluatorInv, EvaluatorTree
      <3>2. ASSUME NEW c PROVE Preserved(Absent, c)
        BY DEF Preserved, Absent
      <3>. QED BY <1>6, <1>10, <2>1, <2>3, <3>1, <3>2 DEF BeginClone
    <2>. QED BY <2>2, <2>3
  <1>11. CASE EndClone(p)
    <2>1. At(p, "cloning") /\ Running(p)
      BY <1>11 DEF EndClone, At, Running
    <2>2. evaluator[Task(p)] = Cloned({})
      BY <1>2, <2>1 DEF EvaluatorInv, EvaluatorOf
    <2>3. ASSUME NEW c PROVE Preserved(Cloned({}), c)
      BY CheckoutFields DEF Preserved
    <2>. QED BY <1>6, <1>11, <2>1, <2>2, <2>3 DEF EndClone
  <1>12. CASE SetUrl(p)
    <2>1. Running(p)
      BY <1>12 DEF SetUrl, At, Running
    <2>2. evaluator[Task(p)] \in Checkout
      BY <1>1, <2>1, SelectedIs
    <2>3. Preserved(evaluator[Task(p)], [evaluator[Task(p)] EXCEPT !.origin = "registered"])
      BY <2>2 DEF Preserved, Checkout
    <2>. QED BY <1>6, <1>12, <2>1, <2>3 DEF SetUrl
  <1>13. CASE ApplyPatch(p)
    <2>1. Running(p)
      BY <1>13 DEF ApplyPatch, At, Running
    <2>2. evaluator[Task(p)] \in Checkout
      BY <1>1, <2>1, SelectedIs
    <2>3. \A path : Preserved(evaluator[Task(p)],
                              [evaluator[Task(p)] EXCEPT !.delta = @ \cup {path}])
      BY <2>2 DEF Preserved, Checkout
    <2>. QED BY <1>3, <1>4, <1>6, <1>13, <2>1, <2>3 DEF ApplyPatch
  <1>14. CASE \/ Begin(p) \/ VerifyTask(p) \/ LoadProjections(p) \/ LookForFunctional(p)
              \/ AssertFunctional(p) \/ LookForEvaluator(p) \/ AssertEvaluator(p)
              \/ Resume(p) \/ Inspect(p) \/ Stops(p) \/ Exits(p)
    BY <1>3, <1>4, <1>14
       DEF Begin, VerifyTask, LoadProjections, LookForFunctional, AssertFunctional,
           LookForEvaluator, AssertEvaluator, Resume, Inspect, Stops, Exits
  <1>. QED BY <1>7, <1>8, <1>9, <1>10, <1>11, <1>12, <1>13, <1>14 DEF Provisions

(* Provisioners never lose work: while any of them runs, with crashes of    *)
(* them and of the materialiser at any step, a born HEAD keeps its commit   *)
(* and every path that differed from it goes on differing.                 *)
THEOREM NoWorkIsLost == Spec => WorkIsNeverLost
  <1>. DEFINE A == (\E p \in Provisioners : provisioner[p].at # "idle") =>
                       \A t \in Tasks : /\ Preserved(functional[t], functional'[t])
                                        /\ Preserved(evaluator[t], evaluator'[t])
  <1>1. Typed /\ CheckoutInv /\ [Next]_vars => [A]_vars
    <2>. SUFFICES ASSUME Typed, CheckoutInv, [Next]_vars PROVE [A]_vars
      OBVIOUS
    <2>1. CASE MaterialSteps
      BY <2>1 DEF MaterialSteps, Preserved
    <2>2. CASE Edit
      BY <2>2 DEF Edit
    <2>3. CASE \E p \in Provisioners : Provisions(p) \/ Exits(p)
      BY <2>3, StepPreserves
    <2>4. CASE UNCHANGED vars
      BY <2>4
    <2>. QED BY <2>1, <2>2, <2>3, <2>4, Steps
  <1>. QED BY <1>1, TypeInit, TypeStep, CheckoutInit, CheckoutStep, PTL DEF Spec, WorkIsNeverLost

-----------------------------------------------------------------------------
(* The material: what the materialiser has written, step by step.          *)

Manifests == [version: Versions, bed: DOMAIN Registrations]

LEMMA MaterialStart ==
    MaterialInit => MaterialInv
  BY DEF MaterialInit, MaterialInv, MaterializerWrote, NoMaterializer, ProjectionsAreRegistered

LEMMA ManifestIsTyped ==
    ASSUME MaterialTypeOK, NEW m \in manifest
    PROVE  m \in Manifests
  BY DEF MaterialTypeOK, ManifestFile, File, Manifests

(* Manifests stay dated: a later materialiser starts from a later          *)
(* registration.                                                           *)
LEMMA DatesStay ==
    ASSUME MaterialTypeOK, MaterialNext, NEW m \in Manifests, Dated(m)
    PROVE  Dated(m)'
  <1>. USE Ordered DEF MaterialTypeOK
  <1>1. PICK l \in DOMAIN Registrations :
            /\ m.bed <= l /\ l <= registration /\ m.version = VersionOf(l)
            /\ materializer.at \notin {"idle", "done"} => l <= materializer.bed
    BY DEF Dated
  <1>2. l <= registration' /\ registration' \in Nat
    BY <1>1 DEF MaterialNext, FindBed, LoadTaskSet, FindAsset, Download, InstallAsset, SelectRecords,
           WriteModelProjection, WriteEvaluationProjection, WriteManifest, MaterializerStops,
           Register, material
  <1>3. materializer'.at \notin {"idle", "done"} => l <= materializer'.bed
    <2>1. CASE FindBed
      BY <1>1, <2>1 DEF FindBed, NoMaterializer
    <2>2. CASE LoadTaskSet
      BY <1>1, <2>2 DEF LoadTaskSet
    <2>7. CASE Download
      BY <1>1, <2>7 DEF Download
    <2>8. CASE SelectRecords
      <3>1. \/ materializer' = NoMaterializer
            \/ /\ materializer.at = "rows" /\ materializer'.bed = materializer.bed
        BY <2>8 DEF SelectRecords
      <3>. QED BY <1>1, <3>1 DEF NoMaterializer
    <2>9. CASE MaterializerStops
      BY <1>1, <2>9 DEF MaterializerStops, NoMaterializer
    <2>3. CASE FindAsset \/ InstallAsset
      BY <1>1, <2>3 DEF FindAsset, InstallAsset, Goes, NoMaterializer
    <2>4. CASE WriteModelProjection \/ WriteManifest
      BY <1>1, <2>4 DEF WriteModelProjection, WriteManifest, Goes
    <2>5. CASE WriteEvaluationProjection
      BY <1>1, <2>5 DEF WriteEvaluationProjection, AfterTask, Goes
    <2>6. CASE Register
      BY <1>1, <2>6 DEF Register
    <2>. QED BY <2>1, <2>2, <2>3, <2>4, <2>5, <2>6, <2>7, <2>8, <2>9 DEF MaterialNext
  <1>. QED BY <1>1, <1>2, <1>3 DEF Dated

LEMMA ProjectionsAreOfATask ==
    ASSUME MaterialTypeOK, NEW t \in Tasks
    PROVE  projection[t] \in Projections /\ projection \in [Tasks -> Projections]
  BY DEF MaterialTypeOK

LEMMA MaterialInvStep ==
    ASSUME MaterialTypeOK, MaterialInv, MaterialNext
    PROVE  MaterialInv'
  <1>. USE Ordered, Registered, TaskIdsAreTasks DEF MaterialTypeOK, VersionOf
  <1>1. MaterializerWrote
    BY DEF MaterialInv
  <1>2. Bed = Registrations[materializer.bed] /\ TaskAt \in Tasks /\ Bed.asset_sha256 \in Digests
    BY DEF Bed, TaskAt
  <1>3. NoMaterializer.at = "idle"
    BY DEF NoMaterializer
  <1>4. materializer'.at = "idle" => MaterializerWrote'
    BY DEF MaterializerWrote
  <1>5. \A m \in manifest : Dated(m)'
    BY DatesStay, ManifestIsTyped DEF MaterialInv
  <1>6. ASSUME manifest' = manifest, projection' = projection, MaterializerWrote'
        PROVE  MaterialInv'
    BY <1>5, <1>6 DEF MaterialInv, ProjectionsAreRegistered
  <1>7. CASE FindBed
    <2>1. /\ materializer'.at = "load" /\ materializer'.bed = registration
          /\ registration' = registration
      BY <1>7 DEF FindBed, NoMaterializer, material
    <2>2. MaterializerWrote'
      BY <2>1 DEF MaterializerWrote
    <2>. QED BY <1>6, <1>7, <2>2 DEF FindBed, material
  <1>8. CASE LoadTaskSet
    <2>1. /\ materializer'.at = "acquire" /\ materializer'.bed = materializer.bed
          /\ materializer'.version = VersionOf(registration)
          /\ registration' = registration /\ materializer.bed <= registration
      BY <1>1, <1>8 DEF LoadTaskSet, material, MaterializerWrote
    <2>2. MaterializerWrote'
      BY <2>1 DEF MaterializerWrote
    <2>. QED BY <1>6, <1>8, <2>2 DEF LoadTaskSet, material
  <1>9. CASE FindAsset
    <2>1. CASE source[Bed.asset_path] = {Bed.asset_sha256}
      <3>1. /\ materializer'.at = "rows" /\ materializer'.bed = materializer.bed
            /\ materializer'.version = materializer.version /\ UNCHANGED material
            /\ materializer.at = "acquire"
        BY <1>9, <2>1 DEF FindAsset, Goes
      <3>2. MaterializerWrote'
        BY <1>1, <2>1, <3>1 DEF MaterializerWrote, Bed, material
      <3>. QED BY <1>6, <3>1, <3>2 DEF material
    <2>2. CASE source[Bed.asset_path] # {Bed.asset_sha256}
      BY <1>3, <1>4, <1>6, <1>9, <2>2 DEF FindAsset, material
    <2>. QED BY <2>1, <2>2
  <1>10. CASE Download
    <2>1. /\ materializer'.at = "install" /\ materializer'.bed = materializer.bed
          /\ materializer'.version = materializer.version /\ UNCHANGED material
          /\ materializer.at = "acquire" /\ source[Bed.asset_path] = {}
      BY <1>10 DEF Download
    <2>2. MaterializerWrote'
      BY <1>1, <2>1 DEF MaterializerWrote, Bed, material
    <2>. QED BY <1>6, <2>1, <2>2 DEF material
  <1>11. CASE InstallAsset
    <2>1. CASE materializer.temporary = Bed.asset_sha256
      <3>1. /\ materializer'.at = "rows" /\ materializer'.bed = materializer.bed
            /\ materializer'.version = materializer.version
            /\ UNCHANGED <<registration, projection, manifest>>
            /\ materializer.at = "install"
            /\ source' = [source EXCEPT ![Bed.asset_path] = {materializer.temporary}]
        BY <1>11, <2>1 DEF InstallAsset, Goes
      <3>2. Bed' = Bed /\ source'[Bed.asset_path] = {Bed.asset_sha256}
        BY <1>2, <2>1, <3>1 DEF Bed
      <3>3. MaterializerWrote'
        BY <1>1, <3>1, <3>2 DEF MaterializerWrote
      <3>. QED BY <1>6, <3>1, <3>3
    <2>2. CASE materializer.temporary # Bed.asset_sha256
      BY <1>3, <1>4, <1>6, <1>11, <2>2 DEF InstallAsset
    <2>. QED BY <2>1, <2>2
  <1>12. CASE SelectRecords
    <2>1. CASE source[Bed.asset_path] = {Bed.asset_sha256}
      <3>1. /\ materializer'.at = "model" /\ materializer'.bed = materializer.bed
            /\ materializer'.task = 1
            /\ materializer'.version = materializer.version /\ UNCHANGED material
            /\ materializer.at = "rows"
        BY <1>12, <2>1 DEF SelectRecords
      <3>2. MaterializerWrote'
        BY <1>1, <2>1, <3>1 DEF MaterializerWrote, Bed, material
      <3>. QED BY <1>6, <3>1, <3>2 DEF material
    <2>2. CASE source[Bed.asset_path] # {Bed.asset_sha256}
      BY <1>3, <1>4, <1>6, <1>12, <2>2 DEF SelectRecords, material
    <2>. QED BY <2>1, <2>2
  <1>13. CASE WriteModelProjection
    <2>1. /\ materializer'.at = "evaluation" /\ materializer'.bed = materializer.bed
          /\ materializer'.task = materializer.task
          /\ materializer'.version = materializer.version
          /\ UNCHANGED <<registration, source, manifest>>
          /\ materializer.at = "model"
      BY <1>13 DEF WriteModelProjection, Goes
    <2>2. Bed' = Bed /\ TaskAt' = TaskAt
      BY <2>1 DEF Bed, TaskAt
    <2>3. /\ projection'[TaskAt].model = {ModelProjection(Content[Bed.asset_sha256][TaskAt])}
          /\ \A t \in Tasks : projection'[t].evaluation = projection[t].evaluation
          /\ \A t \in Tasks : t # TaskAt => projection'[t] = projection[t]
      BY <1>2, <1>13 DEF WriteModelProjection, Projections
    <2>4. ModelWritten(TaskAt)'
      BY <2>2, <2>3 DEF ModelWritten
    <2>5. \A t \in Tasks : ModelWritten(t) => ModelWritten(t)'
      BY <2>2, <2>3 DEF ModelWritten
    <2>6. \A t \in Tasks : EvaluationWritten(t) => EvaluationWritten(t)'
      BY <2>2, <2>3 DEF EvaluationWritten
    <2>7. MaterializerWrote'
      BY <1>1, <2>1, <2>2, <2>4, <2>5, <2>6 DEF MaterializerWrote
    <2>8. ProjectionsAreRegistered'
      BY <2>3 DEF MaterialInv, ProjectionsAreRegistered
    <2>. QED BY <1>5, <2>1, <2>7, <2>8 DEF MaterialInv
  <1>14. CASE WriteEvaluationProjection
    <2>1. /\ materializer'.bed = materializer.bed
          /\ materializer'.version = materializer.version
          /\ UNCHANGED <<registration, source, manifest>>
          /\ materializer.at = "evaluation"
          /\ \/ /\ materializer.task < Len(TaskIds)
                /\ materializer'.at = "model" /\ materializer'.task = materializer.task + 1
             \/ /\ ~(materializer.task < Len(TaskIds))
                /\ materializer'.at = "manifest" /\ materializer'.task = materializer.task
      BY <1>14 DEF WriteEvaluationProjection, AfterTask, Goes
    <2>2. Bed' = Bed
      BY <2>1 DEF Bed
    <2>3. /\ projection'[TaskAt].evaluation =
                {EvaluationProjection(Content[Bed.asset_sha256][TaskAt])}
          /\ \A t \in Tasks : projection'[t].model = projection[t].model
          /\ \A t \in Tasks : t # TaskAt => projection'[t] = projection[t]
      BY <1>2, <1>14 DEF WriteEvaluationProjection, Projections
    <2>4. ASSUME NEW t \in Tasks, t = TaskAt PROVE EvaluationWritten(t)' /\ ModelWritten(t)'
      <3>1. ModelWritten(t)
        BY <1>1, <2>1, <2>4 DEF MaterializerWrote
      <3>. QED BY <2>2, <2>3, <2>4, <3>1 DEF EvaluationWritten, ModelWritten
    <2>5. \A t \in Tasks : ModelWritten(t) => ModelWritten(t)'
      BY <2>2, <2>3 DEF ModelWritten
    <2>6. \A t \in Tasks : EvaluationWritten(t) => EvaluationWritten(t)'
      BY <2>2, <2>3 DEF EvaluationWritten
    <2>7. \A k \in DOMAIN TaskIds : k <= materializer.task =>
             ModelWritten(TaskIds[k])' /\ EvaluationWritten(TaskIds[k])'
      <3>1. \A k \in DOMAIN TaskIds : k < materializer.task =>
               ModelWritten(TaskIds[k]) /\ EvaluationWritten(TaskIds[k])
        BY <1>1, <2>1 DEF MaterializerWrote
      <3>2. ASSUME NEW k \in DOMAIN TaskIds, k < materializer.task
            PROVE  ModelWritten(TaskIds[k])' /\ EvaluationWritten(TaskIds[k])'
        BY <2>5, <2>6, <3>1, <3>2
      <3>3. TaskIds[materializer.task] = TaskAt
        BY DEF TaskAt
      <3>4. ASSUME NEW k \in DOMAIN TaskIds, k = materializer.task
            PROVE  ModelWritten(TaskIds[k])' /\ EvaluationWritten(TaskIds[k])'
        BY <2>4, <3>3, <3>4
      <3>. QED BY <3>2, <3>4
    <2>8. materializer'.at = "manifest" =>
             \A t \in Tasks : ModelWritten(t)' /\ EvaluationWritten(t)'
      <3>. SUFFICES ASSUME materializer'.at = "manifest", NEW t \in Tasks
                    PROVE  ModelWritten(t)' /\ EvaluationWritten(t)'
        OBVIOUS
      <3>1. PICK k \in DOMAIN TaskIds : t = TaskIds[k]
        OBVIOUS
      <3>2. k <= materializer.task
        BY <2>1
      <3>. QED BY <2>7, <3>1, <3>2
    <2>9. materializer'.at = "model" => \A k \in DOMAIN TaskIds : k < materializer'.task =>
             ModelWritten(TaskIds[k])' /\ EvaluationWritten(TaskIds[k])'
      BY <2>1, <2>7
    <2>10. MaterializerWrote'
      BY <1>1, <2>1, <2>2, <2>8, <2>9 DEF MaterializerWrote
    <2>11. ProjectionsAreRegistered'
      BY SMTT(30), <1>2, <2>3 DEF MaterialInv, ProjectionsAreRegistered, EvaluationProjection
    <2>. QED BY <1>5, <2>1, <2>10, <2>11 DEF MaterialInv
  <1>15. CASE WriteManifest
    <2>. PICK n : n = [version |-> materializer.version, bed |-> materializer.bed]
      OBVIOUS
    <2>1. /\ materializer'.at = "done" /\ materializer'.bed = materializer.bed
          /\ materializer'.version = materializer.version
          /\ UNCHANGED <<registration, source, projection>>
          /\ materializer.at = "manifest" /\ manifest' = {n}
      BY <1>15 DEF WriteManifest, Goes
    <2>2. Bed' = Bed
      BY <2>1 DEF Bed
    <2>3. MaterializerWrote'
      BY <1>1, <2>1, <2>2 DEF MaterializerWrote, ModelWritten, EvaluationWritten
    <2>4. Dated(n)'
      BY <1>1, <2>1 DEF MaterializerWrote, Dated
    <2>. QED BY <2>1, <2>3, <2>4 DEF MaterialInv, ProjectionsAreRegistered
  <1>16. CASE MaterializerStops
    BY <1>3, <1>4, <1>6, <1>16 DEF MaterializerStops, material
  <1>17. CASE Register
    <2>1. /\ registration' = registration + 1
          /\ UNCHANGED <<source, projection, manifest, materializer>>
      BY <1>17 DEF Register
    <2>2. MaterializerWrote'
      BY <1>1, <2>1 DEF MaterializerWrote, Bed, TaskAt, ModelWritten, EvaluationWritten
    <2>. QED BY <1>6, <2>1, <2>2
  <1>. QED
    BY <1>7, <1>8, <1>9, <1>10, <1>11, <1>12, <1>13, <1>14, <1>15, <1>16, <1>17 DEF MaterialNext

-----------------------------------------------------------------------------
(* A reader that accepts a manifest is not disturbed by the materialiser.  *)

(* Whoever is at work, for whichever registration since, writes the same.  *)
LEMMA SameAsWritten ==
    ASSUME RegistrationsMoveOn, MaterialTypeOK, MaterialInv, NEW m \in Manifests,
           Dated(m), Current(m), materializer.at \notin {"idle", "done"}
    PROVE  /\ SameAsset(materializer.bed, registration)
           /\ Bed.asset_sha256 = Registrations[m.bed].asset_sha256
           /\ Bed.asset_path = Registrations[m.bed].asset_path
           /\ /\ m.version = VersionOf(registration)
              /\ materializer.at \notin {"load"}
              => materializer.version = VersionOf(registration)
  <1>. USE Ordered DEF MaterialTypeOK, Manifests
  <1>1. PICK l \in DOMAIN Registrations :
            m.bed <= l /\ l <= materializer.bed /\ m.version = VersionOf(l)
    BY DEF Dated
  <1>2. materializer.bed <= registration
    BY DEF MaterialInv, MaterializerWrote
  <1>3. m.bed <= materializer.bed
    BY <1>1
  <1>4. SameAsset(materializer.bed, registration)
    BY <1>2, <1>3 DEF RegistrationsMoveOn, Current
  <1>5. ASSUME m.version = VersionOf(registration), materializer.at # "load"
        PROVE  materializer.version = VersionOf(registration)
    <2>1. PICK k \in DOMAIN Registrations :
              /\ materializer.bed <= k /\ k <= registration
              /\ materializer.version = VersionOf(k)
      BY <1>5 DEF MaterialInv, MaterializerWrote
    <2>2. l <= k /\ k <= registration
      BY <1>1, <2>1
    <2>3. registration \in DOMAIN Registrations
      OBVIOUS
    <2>4. VersionOf(l) = VersionOf(registration) => VersionOf(k) = VersionOf(registration)
      BY <2>2, <2>3, Zenon DEF RegistrationsMoveOn, VersionOf
    <2>. QED BY <1>1, <1>5, <2>1, <2>4
  <1>. QED BY <1>4, <1>5 DEF Current, SameAsset, Bed

LEMMA AssetsStay ==
    ASSUME MaterialTypeOK, MaterialInv, MaterialNext, NEW path \in AssetPaths, source[path] # {}
    PROVE  source'[path] = source[path]
  <1>1. CASE InstallAsset
    <2>1. source[Bed.asset_path] = {}
      BY <1>1 DEF InstallAsset, MaterialInv, MaterializerWrote
    <2>. QED BY <1>1, <2>1 DEF InstallAsset, MaterialTypeOK
  <1>2. CASE ~InstallAsset
    BY <1>2 DEF MaterialNext, FindBed, LoadTaskSet, FindAsset, Download, SelectRecords,
       WriteModelProjection, WriteEvaluationProjection, WriteManifest, MaterializerStops,
       Register, material
  <1>. QED BY <1>1, <1>2

LEMMA ProjectionsStay ==
    ASSUME RegistrationsMoveOn, MaterialTypeOK, MaterialInv, MaterialNext,
           NEW m \in Manifests, Dated(m), Current(m),
           NEW t \in Tasks, ProjectionsVerified(m, t)
    PROVE  ProjectionsVerified(m, t)'
  <1>1. TaskAt \in Tasks
    BY TaskIdsAreTasks DEF TaskAt, MaterialTypeOK
  <1>2. projection[t] \in Projections /\ projection \in [Tasks -> Projections]
    BY ProjectionsAreOfATask
  <1>3. CASE WriteModelProjection
    <2>1. Bed.asset_sha256 = Registrations[m.bed].asset_sha256
      BY <1>3, SameAsWritten DEF WriteModelProjection
    <2>2. /\ projection'[t].evaluation = projection[t].evaluation
          /\ \/ projection'[t].model = projection[t].model
             \/ projection'[t].model = {ModelProjection(Content[Bed.asset_sha256][t])}
      BY <1>1, <1>2, <1>3 DEF WriteModelProjection, Projections
    <2>. QED BY <2>1, <2>2 DEF ProjectionsVerified, RecordIn
  <1>4. CASE WriteEvaluationProjection
    <2>1. Bed.asset_sha256 = Registrations[m.bed].asset_sha256
      BY <1>4, SameAsWritten DEF WriteEvaluationProjection
    <2>2. /\ projection'[t].model = projection[t].model
          /\ \/ projection'[t].evaluation = projection[t].evaluation
             \/ projection'[t].evaluation = {EvaluationProjection(Content[Bed.asset_sha256][t])}
      BY <1>1, <1>2, <1>4 DEF WriteEvaluationProjection, Projections
    <2>. QED BY <2>1, <2>2 DEF ProjectionsVerified, RecordIn
  <1>5. CASE ~WriteModelProjection /\ ~WriteEvaluationProjection
    <2>1. projection' = projection
      BY <1>5 DEF MaterialNext, FindBed, LoadTaskSet, FindAsset, Download, InstallAsset,
         SelectRecords, WriteManifest, MaterializerStops, Register, material
    <2>. QED BY <2>1 DEF ProjectionsVerified, RecordIn
  <1>. QED BY <1>3, <1>4, <1>5

(* The manifest that is accepted is replaced by one that is.               *)
LEMMA ManifestsStay ==
    ASSUME RegistrationsMoveOn, MaterialTypeOK, MaterialInv, MaterialNext,
           registration' = registration, NEW m \in manifest, ManifestVerified(m)
    PROVE  \E n \in manifest' :
              /\ ManifestVerified(n)'
              /\ Registrations[n.bed].asset_sha256 = Registrations[m.bed].asset_sha256
  <1>1. m \in Manifests /\ Dated(m) /\ Current(m) /\ m.version = VersionOf(registration)
    BY ManifestIsTyped DEF MaterialInv, ManifestVerified, Current, VersionOf
  <1>2. Registrations[m.bed].asset_path \in AssetPaths
    BY <1>1, Registered DEF Manifests
  <1>3. source'[Registrations[m.bed].asset_path] = {Registrations[m.bed].asset_sha256}
    BY <1>2, AssetsStay DEF ManifestVerified
  <1>4. CASE WriteManifest
    <2>1. PICK n : n = [version |-> materializer.version, bed |-> materializer.bed]
      OBVIOUS
    <2>2. manifest' = {n} /\ materializer.at = "manifest"
      BY <1>4, <2>1 DEF WriteManifest
    <2>3. /\ SameAsset(materializer.bed, registration)
          /\ Bed.asset_sha256 = Registrations[m.bed].asset_sha256
          /\ Bed.asset_path = Registrations[m.bed].asset_path
          /\ materializer.version = VersionOf(registration)
      BY <1>1, <2>2, SameAsWritten
    <2>. QED BY <1>3, <2>1, <2>2, <2>3 DEF ManifestVerified, VersionOf, Bed
  <1>5. CASE ~WriteManifest
    <2>1. manifest' = manifest
      BY <1>5 DEF MaterialNext, FindBed, LoadTaskSet, FindAsset, Download, InstallAsset,
         SelectRecords, WriteModelProjection, WriteEvaluationProjection, MaterializerStops,
         Register, material
    <2>. QED BY <1>3, <2>1 DEF ManifestVerified
  <1>. QED BY <1>4, <1>5

LEMMA MaterializedVerifies ==
    ASSUME MaterialTypeOK, MaterialInv, Materialized
    PROVE  Verifies
  <1>. DEFINE n == [version |-> materializer.version, bed |-> materializer.bed]
  <1>1. n \in manifest /\ n.bed = registration /\ n.version = VersionOf(registration)
    BY DEF Materialized, MaterialInv, MaterializerWrote, VersionOf
  <1>2. source[Bed.asset_path] = {Bed.asset_sha256} /\ Bed = Registrations[n.bed]
    BY DEF Materialized, MaterialInv, MaterializerWrote, Bed
  <1>. HIDE DEF n
  <1>3. ManifestVerified(n)
    BY <1>1, <1>2 DEF ManifestVerified, SameAsset, VersionOf
  <1>4. \A t \in Tasks : ProjectionsVerified(n, t)
    BY <1>2 DEF Materialized, MaterialInv, MaterializerWrote, ModelWritten, EvaluationWritten,
       ProjectionsVerified, RecordIn
  <1>. QED BY <1>1, <1>3, <1>4 DEF Verifies

LEMMA VerifiesStays ==
    ASSUME RegistrationsMoveOn, MaterialTypeOK, MaterialInv, MaterialNext,
           registration' = registration, Verifies
    PROVE  Verifies'
  <1>1. PICK m \in manifest : ManifestVerified(m) /\ \A t \in Tasks : ProjectionsVerified(m, t)
    BY DEF Verifies
  <1>2. m \in Manifests /\ Dated(m) /\ Current(m)
    BY <1>1, ManifestIsTyped DEF MaterialInv, ManifestVerified, Current
  <1>3. PICK n \in manifest' :
            /\ ManifestVerified(n)'
            /\ Registrations[n.bed].asset_sha256 = Registrations[m.bed].asset_sha256
    BY <1>1, ManifestsStay
  <1>4. \A t \in Tasks : ProjectionsVerified(m, t)'
    BY <1>1, <1>2, ProjectionsStay
  <1>5. \A t \in Tasks : ProjectionsVerified(n, t)'
    BY <1>3, <1>4 DEF ProjectionsVerified, RecordIn
  <1>. QED BY <1>3, <1>5 DEF Verifies

LEMMA MaterialInvKept ==
    ASSUME Typed, MaterialInv, [Next]_vars
    PROVE  MaterialInv'
  <1>1. CASE MaterialNext
    BY <1>1, MaterialInvStep, TypesAreKnown DEF Typed
  <1>2. CASE UNCHANGED materialVars
    BY <1>2 DEF materialVars, material, MaterialInv, MaterializerWrote, Dated,
       ProjectionsAreRegistered, Bed, TaskAt, ModelWritten, EvaluationWritten
  <1>3. MaterialNext \/ UNCHANGED materialVars
    BY Steps DEF MaterialSteps, Edit, OneSteps, vars
  <1>. QED BY <1>1, <1>2, <1>3

(* A bed verifies from the end of a materialisation under the registration *)
(* in force until the next registration: materialisations that crash, are  *)
(* begun again or are still at work for an older registration change       *)
(* nothing a reader would notice.                                          *)
THEOREM BedsKeepVerifying ==
    RegistrationsMoveOn => (Spec => VerifiesUntilReregistered)
  <1>. SUFFICES ASSUME RegistrationsMoveOn PROVE Spec => VerifiesUntilReregistered
    OBVIOUS
  <1>. DEFINE A == (Verifies \/ Materialized') /\ registration' = registration => Verifies'
  <1>4. MaterialTypeOK /\ MaterialInv /\ Materialized => Verifies
    BY MaterializedVerifies
  <1>5. MaterialTypeOK' /\ MaterialInv' /\ Materialized' => Verifies'
    BY <1>4, PTL
  <1>1. Typed /\ MaterialInv /\ Typed' /\ MaterialInv' /\ [Next]_vars => [A]_materialVars
    <2>. SUFFICES ASSUME Typed, MaterialInv, Typed', MaterialInv', [Next]_vars,
                         ~(UNCHANGED materialVars), registration' = registration,
                         Verifies \/ Materialized'
                  PROVE  Verifies'
      OBVIOUS
    <2>1. MaterialTypeOK /\ MaterialTypeOK'
      BY DEF Typed, TypeOK
    <2>2. MaterialNext
      BY Steps DEF MaterialSteps, Edit, OneSteps, vars
    <2>3. CASE Verifies
      BY <2>1, <2>2, <2>3, VerifiesStays
    <2>4. CASE Materialized'
      BY <1>5, <2>1, <2>4
    <2>. QED BY <2>3, <2>4
  <1>2. Init => MaterialInv
    BY MaterialStart DEF Init
  <1>3. Typed /\ MaterialInv /\ [Next]_vars => MaterialInv'
    BY MaterialInvKept
  <1>. QED BY <1>1, <1>2, <1>3, TypeInit, TypeStep, PTL DEF Spec, VerifiesUntilReregistered

-----------------------------------------------------------------------------
(* What the provisioners have read.                                        *)

Flow(p) ==
    \/ provisioner'[p].at \in {"idle", "refused"} /\ provisioner'[p].manifest = {}
    \/ /\ provisioner[p].at \in Loaded /\ provisioner'[p].at \in Loaded
       /\ Keeps(p) /\ provisioner'[p].patch = provisioner[p].patch
    \/ Begin(p) /\ provisioner'[p].at = "verify"
    \/ VerifyTask(p) /\ provisioner'[p].at \in {"verify", "load"}
    \/ LoadProjections(p)
    \/ Inspect(p) /\ provisioner'[p].at \in {"load", "returned"}

LEMMA StepsFlow ==
    ASSUME Typed, NEW p \in Provisioners, Provisions(p) \/ Exits(p)
    PROVE  Others(p) /\ Flow(p)
  <1>. USE DEF Flow, Loaded, Checked
  <1>1. ASSUME NEW condition \in BOOLEAN, NEW place, Requires(p, condition, place),
               place \in Loaded, provisioner[p].at \in Loaded
        PROVE  Others(p) /\ Flow(p)
    BY <1>1, RequiresTo DEF Refused, To
  <1>2. ASSUME NEW place, Moves(p, place), place \in Loaded, provisioner[p].at \in Loaded
        PROVE  Others(p) /\ Flow(p)
    BY <1>2, MovesTo DEF To
  <1>3. CASE Begin(p)
    BY <1>3, BeginTo
  <1>4. CASE VerifyTask(p)
    BY <1>4, VerifyTo DEF Refused
  <1>5. CASE LoadProjections(p)
    BY <1>5, LoadTo
  <1>6. CASE Inspect(p)
    BY <1>6, InspectTo DEF Refused
  <1>7. CASE Stops(p) \/ Exits(p)
    BY <1>7, EndsTo DEF NotRunning
  <1>8. CASE LookForFunctional(p) \/ GitInit(p) \/ GitCheckout(p) \/ LookForEvaluator(p)
             \/ EndClone(p) \/ SetUrl(p)
    BY <1>2, <1>8
       DEF LookForFunctional, GitInit, GitCheckout, LookForEvaluator, EndClone, SetUrl, At
  <1>9. CASE GitRemoteAdd(p)
    BY <1>1, <1>9 DEF GitRemoteAdd, At
  <1>10. CASE AssertFunctional(p) \/ AssertEvaluator(p)
    BY <1>1, <1>10 DEF AssertFunctional, AssertEvaluator, CleanAtBase, At
  <1>11. CASE BeginClone(p)
    <2>1. (~evaluator[Task(p)].exists) \in BOOLEAN
      OBVIOUS
    <2>. QED BY <1>1, <1>11, <2>1 DEF BeginClone, At
  <1>12. CASE ApplyPatch(p)
    <2>1. (provisioner[p].patch # {}) \in BOOLEAN
      OBVIOUS
    <2>2. CASE Requires(p, provisioner[p].patch # {}, "inspect")
      BY <1>1, <1>12, <2>1, <2>2 DEF ApplyPatch, At
    <2>3. CASE UNCHANGED provisioner
      BY <1>12, <2>3 DEF ApplyPatch, Others, Keeps, At
    <2>. QED BY <1>12, <2>2, <2>3 DEF ApplyPatch
  <1>13. CASE Resume(p)
    <2>1. Others(p) /\ (To(p, "inspect") \/ Refused(p)) /\ At(p, "resume")
      BY <1>13, RequiresTo DEF Resume
    <2>. QED BY <2>1 DEF To, Refused, At
  <1>. QED BY <1>3, <1>4, <1>5, <1>6, <1>7, <1>8, <1>9, <1>10, <1>11, <1>12, <1>13 DEF Provisions

LEMMA RunManifests ==
    ASSUME Typed, NEW p \in Provisioners, NEW m \in provisioner[p].manifest
    PROVE  /\ m \in Manifests
           /\ Registrations[m.bed].asset_path \in AssetPaths
           /\ Registrations[m.bed].asset_sha256 \in Digests
  <1>1. provisioner[p] \in Runs
    BY TypesAreKnown DEF Typed
  <1>2. m \in Manifests
    BY <1>1 DEF Runs, ManifestFile, File, Manifests
  <1>. QED BY <1>2, Registered DEF Manifests

LEMMA RunsOne ==
    ASSUME Typed, NEW p \in Provisioners, NEW m \in provisioner[p].manifest
    PROVE  m = Selected(p) /\ provisioner[p].manifest = {m}
  <1>1. provisioner[p] \in Runs
    BY TypesAreKnown DEF Typed
  <1>2. PICK c \in Manifests : provisioner[p].manifest = {c}
    BY <1>1, ManifestIsOne DEF Runs, Manifests
  <1>. QED BY <1>2, OneIsChosen DEF Selected

(* A registration that makes a manifest current again would have come back. *)
LEMMA CurrentBefore ==
    ASSUME RegistrationsMoveOn, MaterialTypeOK, MaterialTypeOK', MaterialNext,
           NEW m \in Manifests, Dated(m), Current(m)'
    PROVE  /\ Current(m)
           /\ SameAsset(registration, registration')
           /\ m.version = VersionOf(registration') =>
                 VersionOf(registration) = VersionOf(registration')
  <1>. USE Ordered DEF MaterialTypeOK, Manifests
  <1>1. registration' \in {registration, registration + 1}
    BY DEF MaterialNext, FindBed, LoadTaskSet, FindAsset, Download, InstallAsset, SelectRecords,
           WriteModelProjection, WriteEvaluationProjection, WriteManifest, MaterializerStops,
           Register, material
  <1>2. PICK l \in DOMAIN Registrations :
            m.bed <= l /\ l <= registration /\ m.version = VersionOf(l)
    BY DEF Dated
  <1>3. /\ m.bed <= registration /\ registration <= registration'
        /\ registration \in DOMAIN Registrations /\ registration' \in DOMAIN Registrations
    BY <1>1, <1>2
  <1>4. SameAsset(m.bed, registration')
    BY DEF Current
  <1>5. SameAsset(registration, registration')
    BY <1>3, <1>4, Zenon DEF RegistrationsMoveOn
  <1>6. VersionOf(l) = VersionOf(registration') => VersionOf(registration) = VersionOf(registration')
    BY <1>2, <1>3, Zenon DEF RegistrationsMoveOn, VersionOf
  <1>. QED BY <1>2, <1>4, <1>5, <1>6 DEF SameAsset, Current

LEMMA ReadOnMaterial ==
    ASSUME RegistrationsMoveOn, Typed, Typed', MaterialInv, MaterialSteps,
           NEW p \in Provisioners, ReadOf(p)
    PROVE  ReadOf(p)'
  <1>1. MaterialTypeOK /\ MaterialTypeOK' /\ MaterialNext
    BY DEF Typed, TypeOK, MaterialSteps
  <1>2. /\ provisioner'[p].at = provisioner[p].at
        /\ provisioner'[p].task = provisioner[p].task
        /\ provisioner'[p].manifest = provisioner[p].manifest
        /\ provisioner'[p].patch = provisioner[p].patch
        /\ Task(p)' = Task(p)
    BY MaterialKeepsRuns
  <1>. SUFFICES ASSUME NEW m \in provisioner[p].manifest
                PROVE
        /\ Dated(m)'
        /\ source'[Registrations[m.bed].asset_path] = {Registrations[m.bed].asset_sha256}
        /\ ManifestVerified(m)' => \E n \in manifest' : ManifestVerified(n)'
        /\ Current(m)' =>
              \A k \in DOMAIN TaskIds : (At(p, "verify") => k < provisioner[p].task) =>
                  ProjectionsVerified(m, TaskIds[k])'
        /\ provisioner[p].at \in Loaded =>
              /\ Current(m)' => provisioner[p].patch = RecordIn(m, Task(p)).test_patch
              /\ \E d \in Digests : provisioner[p].patch = Content[d][Task(p)].test_patch
    BY <1>2 DEF ReadOf, RecordIn, At
  <1>3. m \in Manifests /\ Registrations[m.bed].asset_path \in AssetPaths
    BY RunManifests
  <1>4. Dated(m) /\ source[Registrations[m.bed].asset_path] = {Registrations[m.bed].asset_sha256}
    BY DEF ReadOf
  <1>5. Dated(m)'
    BY <1>1, <1>3, <1>4, DatesStay
  <1>6. source'[Registrations[m.bed].asset_path] = {Registrations[m.bed].asset_sha256}
    BY <1>1, <1>3, <1>4, AssetsStay DEF MaterialInv
  <1>7. Current(m)' => Current(m)
    BY <1>1, <1>3, <1>4, CurrentBefore
  <1>8. ASSUME ManifestVerified(m)'
        PROVE  \E n \in manifest' : ManifestVerified(n)'
    <2>1. Current(m)' /\ m.version = VersionOf(registration')
      BY <1>8 DEF ManifestVerified, Current, VersionOf
    <2>2. SameAsset(registration, registration') /\ VersionOf(registration) = VersionOf(registration')
      BY <1>1, <1>3, <1>4, <2>1, CurrentBefore
    <2>3. ManifestVerified(m)
      BY <1>4, <1>7, <2>1, <2>2 DEF ManifestVerified, Current, VersionOf
    <2>4. PICK n \in manifest : ManifestVerified(n)
      BY <2>3 DEF ReadOf
    <2>5. CASE registration' = registration
      BY <1>1, <2>4, <2>5, ManifestsStay
    <2>6. CASE registration' # registration
      <3>1. UNCHANGED <<source, manifest>>
        BY <1>1, <2>6 DEF MaterialNext, FindBed, LoadTaskSet, FindAsset, Download, InstallAsset,
           SelectRecords, WriteModelProjection, WriteEvaluationProjection, WriteManifest,
           MaterializerStops, Register, material
      <3>2. ManifestVerified(n)'
        BY <2>2, <2>4, <3>1 DEF ManifestVerified, SameAsset, VersionOf
      <3>. QED BY <2>4, <3>1, <3>2
    <2>. QED BY <2>5, <2>6
  <1>9. ASSUME Current(m)', NEW k \in DOMAIN TaskIds,
               At(p, "verify") => k < provisioner[p].task
        PROVE  ProjectionsVerified(m, TaskIds[k])'
    <2>1. Current(m) /\ ProjectionsVerified(m, TaskIds[k])
      BY <1>7, <1>9 DEF ReadOf
    <2>. QED BY <1>1, <1>3, <1>4, <2>1, TaskIdsAreTasks, ProjectionsStay
  <1>. QED BY <1>5, <1>6, <1>7, <1>8, <1>9 DEF ReadOf

LEMMA ReadOnSteps ==
    ASSUME Typed, MaterialInv, NEW p \in Provisioners, Provisions(p) \/ Exits(p),
           NEW q \in Provisioners, ReadOf(q)
    PROVE  ReadOf(q)'
  <1>1. Others(p) /\ Flow(p)
    BY StepsFlow
  <1>2. UNCHANGED <<registration, source, projection, manifest, materializer>>
    BY ProvisionerSteps DEF OneSteps, materialVars, material
  <1>3. \A m : /\ Dated(m)' <=> Dated(m)
               /\ Current(m)' <=> Current(m)
               /\ ManifestVerified(m)' <=> ManifestVerified(m)
               /\ \A t : ProjectionsVerified(m, t)' <=> ProjectionsVerified(m, t)
    BY <1>2 DEF Dated, Current, ManifestVerified, ProjectionsVerified, RecordIn
  <1>4. CASE q # p
    <2>1. provisioner'[q] = provisioner[q] /\ Task(q)' = Task(q)
      BY <1>1, <1>4, OthersRun
    <2>. QED BY <1>2, <1>3, <2>1 DEF ReadOf, RecordIn, At
  <1>5. CASE q = p /\ provisioner'[p].manifest = {}
    BY <1>5 DEF ReadOf
  <1>6. CASE q = p /\ provisioner[p].at \in Loaded /\ provisioner'[p].at \in Loaded
             /\ Keeps(p) /\ provisioner'[p].patch = provisioner[p].patch
    <2>1. Task(p)' = Task(p)
      BY <1>6, SameRun DEF Keeps
    <2>2. provisioner[p].at # "verify" /\ provisioner'[p].at # "verify"
      BY <1>6 DEF Loaded, Checked
    <2>. QED BY <1>2, <1>3, <1>6, <2>1, <2>2 DEF ReadOf, RecordIn, Keeps, At
  <1>7. CASE q = p /\ Begin(p) /\ provisioner'[p].at = "verify"
    <2>1. /\ provisioner'[p].task = 1 /\ provisioner'[p].manifest = manifest
          /\ \E m \in manifest : ManifestVerified(m)
      BY <1>7, BeginTo
    <2>2. PICK m \in manifest : ManifestVerified(m)
      BY <2>1
    <2>3. manifest = {m}
      <3>1. manifest \in ManifestFile
        BY TypesAreKnown DEF Typed, MaterialTypeOK
      <3>. QED BY <2>2, <3>1, ManifestIsOne
    <2>4. Dated(m) /\ source[Registrations[m.bed].asset_path] = {Registrations[m.bed].asset_sha256}
      BY <2>2 DEF MaterialInv, ManifestVerified
    <2>5. \A k \in DOMAIN TaskIds : ~(k < 1)
      BY Ordered
    <2>6. provisioner'[p].at \notin Loaded
      BY <1>7 DEF Loaded, Checked
    <2>. QED BY <1>2, <1>3, <1>7, <2>1, <2>2, <2>3, <2>4, <2>5, <2>6 DEF ReadOf, At
  <1>8. CASE q = p /\ VerifyTask(p) /\ provisioner'[p].at \in {"verify", "load"}
    <2>1. /\ ProjectionsVerified(Selected(p), Task(p))
          /\ provisioner'[p].manifest = provisioner[p].manifest
          /\ \/ /\ provisioner[p].task < Len(TaskIds) /\ provisioner'[p].at = "verify"
                /\ provisioner'[p].task = provisioner[p].task + 1
             \/ /\ ~(provisioner[p].task < Len(TaskIds)) /\ provisioner'[p].at = "load"
      BY <1>8, VerifyTo DEF Refused
    <2>2. provisioner'[p].at \notin Loaded /\ At(p, "verify")
      BY <1>8 DEF Loaded, Checked, VerifyTask
    <2>3. ASSUME NEW m \in provisioner[p].manifest, Current(m), NEW k \in DOMAIN TaskIds,
                 At(p, "verify")' => k < provisioner'[p].task
          PROVE  ProjectionsVerified(m, TaskIds[k])
      <3>1. provisioner[p].task \in DOMAIN TaskIds
        BY TypesAreKnown DEF Typed, Runs
      <3>2. k < provisioner[p].task \/ k = provisioner[p].task
        BY <2>1, <2>3, <3>1, Ordered DEF At
      <3>3. CASE k < provisioner[p].task
        BY <1>8, <2>3, <3>3 DEF ReadOf
      <3>4. CASE k = provisioner[p].task
        <4>1. m = Selected(p) /\ Task(p) = TaskIds[k]
          BY <3>4, RunsOne DEF Task
        <4>. QED BY <2>1, <4>1
      <3>. QED BY <3>2, <3>3, <3>4
    <2>4. ASSUME NEW m \in provisioner[p].manifest
          PROVE  /\ Dated(m)
                 /\ source[Registrations[m.bed].asset_path] = {Registrations[m.bed].asset_sha256}
                 /\ ManifestVerified(m) => \E n \in manifest : ManifestVerified(n)
      BY <1>8 DEF ReadOf
    <2>. QED BY <1>2, <1>3, <1>8, <2>1, <2>2, <2>3, <2>4 DEF ReadOf
  <1>9. CASE q = p /\ LoadProjections(p)
    <2>1. At(p, "load") /\ Running(p) /\ Keeps(p) /\ provisioner'[p].at = "functional"
      BY <1>9, LoadTo DEF LoadProjections, Running, At
    <2>2. PICK evaluation \in projection[Task(p)].evaluation :
              provisioner'[p].patch = evaluation.test_patch
      BY <1>9, LoadTo
    <2>3. Task(p) \in Tasks /\ Task(p)' = Task(p)
      BY <2>1, SelectedIs, SameRun DEF Keeps
    <2>4. \E d \in Digests : provisioner'[p].patch = Content[d][Task(p)].test_patch
      BY <2>2, <2>3 DEF MaterialInv, ProjectionsAreRegistered
    <2>5. ASSUME NEW m \in provisioner[p].manifest, Current(m)
          PROVE  /\ provisioner'[p].patch = RecordIn(m, Task(p)).test_patch
                 /\ \A k \in DOMAIN TaskIds : ProjectionsVerified(m, TaskIds[k])
      <3>1. \A k \in DOMAIN TaskIds : ProjectionsVerified(m, TaskIds[k])
        BY <1>9, <2>1, <2>5 DEF ReadOf, At
      <3>2. ProjectionsVerified(m, Task(p))
        BY <2>3, <3>1, TaskIdsAreTasks
      <3>. QED BY <2>2, <3>1, <3>2 DEF ProjectionsVerified, EvaluationProjection
    <2>6. ASSUME NEW m \in provisioner[p].manifest
          PROVE  /\ Dated(m)
                 /\ source[Registrations[m.bed].asset_path] = {Registrations[m.bed].asset_sha256}
                 /\ ManifestVerified(m) => \E n \in manifest : ManifestVerified(n)
      BY <1>9 DEF ReadOf
    <2>. QED BY <1>2, <1>3, <1>9, <2>1, <2>3, <2>4, <2>5, <2>6 DEF ReadOf, RecordIn, Keeps
  <1>10. CASE q = p /\ Inspect(p) /\ provisioner'[p].at \in {"load", "returned"}
    <2>1. provisioner'[p].manifest = provisioner[p].manifest
      BY <1>10, InspectTo DEF Refused, Keeps
    <2>2. /\ provisioner'[p].at \notin Loaded /\ provisioner'[p].at # "verify"
          /\ At(p, "inspect")
      BY <1>10 DEF Loaded, Checked, Inspect
    <2>. QED BY <1>2, <1>3, <1>10, <2>1, <2>2 DEF ReadOf, At
  <1>. QED BY <1>1, <1>4, <1>5, <1>6, <1>7, <1>8, <1>9, <1>10 DEF Flow

LEMMA ReadStep ==
    ASSUME RegistrationsMoveOn, Typed, Typed', MaterialInv, ReadInv, [Next]_vars
    PROVE  ReadInv'
  <1>1. CASE MaterialSteps
    BY <1>1, ReadOnMaterial DEF ReadInv
  <1>2. CASE \E p \in Provisioners : Provisions(p) \/ Exits(p)
    BY <1>2, ReadOnSteps DEF ReadInv
  <1>3. CASE UNCHANGED <<materialVars, provisioner>>
    <2>1. UNCHANGED <<registration, source, projection, manifest, materializer, provisioner>>
      BY <1>3 DEF materialVars, material
    <2>2. \A m : /\ Dated(m)' <=> Dated(m)
                 /\ Current(m)' <=> Current(m)
                 /\ ManifestVerified(m)' <=> ManifestVerified(m)
                 /\ \A t : ProjectionsVerified(m, t)' <=> ProjectionsVerified(m, t)
      BY <2>1 DEF Dated, Current, ManifestVerified, ProjectionsVerified, RecordIn
    <2>. QED BY <2>1, <2>2 DEF ReadInv, ReadOf, RecordIn, Task, At, Selected
  <1>. QED BY <1>1, <1>2, <1>3, Steps DEF Edit, vars

-----------------------------------------------------------------------------
(* What has been accepted stays as it was.                                 *)

(* Accepted, checkout by checkout.                                         *)
Holds(checkout, record) ==
    /\ AtBase(checkout, record.base_commit)
    /\ record.test_patch \subseteq checkout.delta
    /\ record.test_patch = {} => checkout.delta = {}
    /\ record.test_patch # {} => checkout.delta \ Created # {}

LEMMA AcceptedIs ==
    ASSUME Typed, NEW t \in Tasks, NEW record \in Records
    PROVE  Accepted(t, record) <=>
              functional[t] = Pristine(record.base_commit) /\ Holds(evaluator[t], record)
  <1>. DEFINE e == evaluator[t]
              b == [Pristine(record.base_commit) EXCEPT !.delta = e.delta]
  <1>1. e \in Checkout /\ record.base_commit \in Commits
    BY TypesAreKnown DEF Typed, Commits
  <1>2. Pristine(record.base_commit) \in Checkout
    BY <1>1, CheckoutFields
  <1>3. b \in Checkout
    BY <1>1, <1>2 DEF Checkout
  <1>4. /\ b.exists /\ b.origin = "registered" /\ b.head = {record.base_commit}
        /\ b.delta = e.delta
    BY <1>2, CheckoutFields DEF Checkout
  <1>5. ASSUME AtBase(e, record.base_commit) PROVE e = b
    <2>. HIDE DEF e, b
    <2>. QED BY <1>1, <1>3, <1>4, <1>5, SameCheckout DEF AtBase
  <1>6. ASSUME e = b PROVE AtBase(e, record.base_commit)
    <2>. HIDE DEF b
    <2>. QED BY <1>4, <1>6 DEF AtBase
  <1>7. e = b <=> AtBase(e, record.base_commit)
    BY <1>5, <1>6
  <1>. QED BY <1>7 DEF Accepted, Provisioned, Holds

LEMMA AcceptedIsThen ==
    ASSUME NEW t \in Tasks, NEW record \in Records
    PROVE  (Typed => (Accepted(t, record) <=>
               functional[t] = Pristine(record.base_commit) /\ Holds(evaluator[t], record)))'
  <1>1. Typed => (Accepted(t, record) <=>
            functional[t] = Pristine(record.base_commit) /\ Holds(evaluator[t], record))
    BY AcceptedIs
  <1>. QED BY <1>1, PTL

(* The others leave a clean functional checkout as it is ...               *)
LEMMA PristineStays ==
    ASSUME Typed, CheckoutInv, NEW p \in Provisioners, Provisions(p) \/ Exits(p),
           NEW t \in Tasks, NEW c, functional[t] = Pristine(c)
    PROVE  functional'[t] = Pristine(c)
  <1>1. functional \in [Tasks -> Checkout]
    BY TypesAreKnown DEF Typed
  <1>2. Pristine(c) \in Checkout
    BY <1>1
  <1>3. OnlyMoves \/ UNCHANGED checkouts => functional' = functional
    BY DEF OnlyMoves, checkouts
  <1>4. CASE GitInit(p) \/ GitRemoteAdd(p)
    <2>1. \/ functional' = [functional EXCEPT ![Task(p)] =
                               [functional[Task(p)] EXCEPT !.exists = TRUE]]
          \/ functional' = [functional EXCEPT ![Task(p)] =
                               [functional[Task(p)] EXCEPT !.origin = "registered"]]
      BY <1>4 DEF GitInit, GitRemoteAdd, ChangesFunctional
    <2>2. [Pristine(c) EXCEPT !.exists = TRUE] = Pristine(c)
      BY <1>2, CheckoutFields DEF Checkout
    <2>3. [Pristine(c) EXCEPT !.origin = "registered"] = Pristine(c)
      BY <1>2, CheckoutFields DEF Checkout
    <2>4. CASE Task(p) # t
      BY <1>1, <2>1, <2>4
    <2>5. CASE Task(p) = t
      <3>1. \/ functional'[t] = [Pristine(c) EXCEPT !.exists = TRUE]
            \/ functional'[t] = [Pristine(c) EXCEPT !.origin = "registered"]
        BY <1>1, <2>1, <2>5
      <3>. QED BY <2>2, <2>3, <3>1
    <2>. QED BY <2>4, <2>5
  <1>5. CASE GitCheckout(p)
    <2>1. functional[Task(p)] = Fetched
      BY <1>5 DEF GitCheckout, CheckoutInv, FunctionalInv, FunctionalOf
    <2>2. Task(p) # t
      BY <2>1, CheckoutFields
    <2>. QED BY <1>1, <1>5, <2>2 DEF GitCheckout, ChangesFunctional
  <1>6. CASE ~(GitInit(p) \/ GitRemoteAdd(p) \/ GitCheckout(p))
    BY <1>3, <1>6
       DEF Provisions, Begin, VerifyTask, LoadProjections, LookForFunctional, AssertFunctional,
           LookForEvaluator, BeginClone, EndClone, SetUrl, AssertEvaluator, ApplyPatch, Resume,
           Inspect, Stops, Exits, ChangesEvaluator
  <1>. QED BY <1>4, <1>5, <1>6

(* ... and only add their own patch to the evaluator's, which is none if   *)
(* no asset has one.                                                       *)
Unpatched(t) == \E d \in Digests : Content[d][t].test_patch = {}

LEMMA NobodyPatches ==
    ASSUME PatchesAgree, Typed, ReadInv, NEW p \in Provisioners, provisioner[p].at \in Loaded,
           Unpatched(Task(p))
    PROVE  provisioner[p].patch = {}
  <1>1. Running(p)
    BY DEF Running, Loaded, Checked
  <1>2. Task(p) \in Tasks /\ Selected(p) \in provisioner[p].manifest
    BY <1>1, SelectedIs
  <1>3. PICK d \in Digests : provisioner[p].patch = Content[d][Task(p)].test_patch
    BY <1>2 DEF ReadInv, ReadOf
  <1>. QED BY <1>2, <1>3 DEF PatchesAgree, Unpatched

LEMMA PatchedStays ==
    ASSUME PatchesAgree, Typed, CheckoutInv, ReadInv,
           NEW p \in Provisioners, Provisions(p) \/ Exits(p),
           NEW t \in Tasks, NEW c, AtBase(evaluator[t], c)
    PROVE  /\ AtBase(evaluator'[t], c)
           /\ evaluator[t].delta \subseteq evaluator'[t].delta
           /\ Unpatched(t) => evaluator'[t].delta = evaluator[t].delta
  <1>1. evaluator \in [Tasks -> Checkout]
    BY TypesAreKnown DEF Typed
  <1>2. EvaluatorOf(p)
    BY DEF CheckoutInv, EvaluatorInv
  <1>3. OnlyMoves \/ UNCHANGED checkouts => evaluator' = evaluator
    BY DEF OnlyMoves, checkouts
  <1>4. ASSUME evaluator'[t] = evaluator[t]
        PROVE  /\ AtBase(evaluator'[t], c)
               /\ evaluator[t].delta \subseteq evaluator'[t].delta
               /\ Unpatched(t) => evaluator'[t].delta = evaluator[t].delta
    BY <1>4
  <1>5. CASE BeginClone(p)
    <2>1. CASE evaluator[Task(p)].exists
      BY <1>3, <1>4, <1>5, <2>1 DEF BeginClone
    <2>2. CASE ~evaluator[Task(p)].exists
      <3>1. Task(p) # t
        BY <2>2 DEF AtBase
      <3>. QED BY <1>1, <1>4, <1>5, <2>2, <3>1 DEF BeginClone, ChangesEvaluator
    <2>. QED BY <2>1, <2>2
  <1>6. CASE EndClone(p) \/ SetUrl(p)
    <2>1. \E h : evaluator[Task(p)] = Cloned(h)
      BY <1>2, <1>6 DEF EndClone, SetUrl, EvaluatorOf
    <2>2. Task(p) # t
      BY <2>1, CheckoutFields DEF AtBase
    <2>. QED BY <1>1, <1>4, <1>6, <2>2 DEF EndClone, SetUrl, ChangesEvaluator
  <1>7. CASE ApplyPatch(p)
    <2>1. CASE evaluator' = evaluator
      BY <1>4, <2>1
    <2>2. CASE evaluator' # evaluator
      <3>1. PICK path \in provisioner[p].patch :
                evaluator' = [evaluator EXCEPT ![Task(p)] =
                                  [evaluator[Task(p)] EXCEPT !.delta = @ \cup {path}]]
        BY <1>3, <1>7, <2>2 DEF ApplyPatch, ChangesEvaluator
      <3>2. CASE Task(p) # t
        BY <1>1, <1>4, <3>1, <3>2
      <3>3. CASE Task(p) = t
        <4>1. evaluator'[t] = [evaluator[t] EXCEPT !.delta = @ \cup {path}]
          BY <1>1, <3>1, <3>3
        <4>2. /\ evaluator'[t].exists = evaluator[t].exists
              /\ evaluator'[t].origin = evaluator[t].origin
              /\ evaluator'[t].head = evaluator[t].head
              /\ evaluator'[t].delta = evaluator[t].delta \cup {path}
          BY <1>1, <4>1 DEF Checkout
        <4>3. provisioner[p].at \in Loaded
          BY <1>7 DEF ApplyPatch, At, Loaded, Checked
        <4>4. ~Unpatched(t)
          BY <3>1, <3>3, <4>3, NobodyPatches
        <4>. QED BY <4>2, <4>4 DEF AtBase
      <3>. QED BY <3>2, <3>3
    <2>. QED BY <2>1, <2>2
  <1>8. CASE ~(BeginClone(p) \/ EndClone(p) \/ SetUrl(p) \/ ApplyPatch(p))
    BY <1>3, <1>4, <1>8
       DEF Provisions, Begin, VerifyTask, LoadProjections, LookForFunctional, AssertFunctional,
           GitInit, GitRemoteAdd, GitCheckout, LookForEvaluator, AssertEvaluator, Resume,
           Inspect, Stops, Exits, ChangesFunctional
  <1>. QED BY <1>5, <1>6, <1>7, <1>8

LEMMA AcceptedStays ==
    ASSUME PatchesAgree, Typed, Typed', CheckoutInv, ReadInv,
           NEW p \in Provisioners, Provisions(p) \/ Exits(p),
           NEW t \in Tasks, NEW d \in Digests, Accepted(t, Content[d][t])
    PROVE  Accepted(t, Content[d][t])'
  <1>1. PICK record \in Records : record = Content[d][t]
    BY RecordsAreTyped
  <1>2. functional[t] = Pristine(record.base_commit) /\ Holds(evaluator[t], record)
    BY <1>1, AcceptedIs
  <1>3. functional'[t] = Pristine(record.base_commit)
    BY <1>2, PristineStays
  <1>4. /\ AtBase(evaluator'[t], record.base_commit)
        /\ evaluator[t].delta \subseteq evaluator'[t].delta
        /\ Unpatched(t) => evaluator'[t].delta = evaluator[t].delta
    BY <1>2, PatchedStays DEF Holds
  <1>5. record.test_patch = {} => Unpatched(t)
    BY <1>1 DEF Unpatched
  <1>6. Holds(evaluator'[t], record)
    BY <1>2, <1>4, <1>5 DEF Holds
  <1>. QED BY <1>1, <1>3, <1>6, AcceptedIsThen

LEMMA ToInspectStays ==
    ASSUME PatchesAgree, Typed, CheckoutInv, ReadInv,
           NEW p \in Provisioners, Provisions(p) \/ Exits(p), Others(p),
           NEW q \in Provisioners, q # p, At(q, "inspect"), ToInspect(q)
    PROVE  ToInspect(q)'
  <1>1. provisioner'[q] = provisioner[q] /\ Task(q)' = Task(q) /\ Base(q)' = Base(q)
    BY OthersRun
  <1>2. Running(q) /\ provisioner[q].at \in Loaded
    BY DEF At, Running, Loaded, Checked
  <1>3. Task(q) \in Tasks /\ Selected(q) \in provisioner[q].manifest
    BY <1>2, SelectedIs
  <1>4. /\ AtBase(evaluator'[Task(q)], Base(q))
        /\ evaluator[Task(q)].delta \subseteq evaluator'[Task(q)].delta
        /\ Unpatched(Task(q)) => evaluator'[Task(q)].delta = evaluator[Task(q)].delta
    BY <1>3, PatchedStays DEF ToInspect
  <1>5. PICK d \in Digests : provisioner[q].patch = Content[d][Task(q)].test_patch
    BY <1>2, <1>3 DEF ReadInv, ReadOf
  <1>6. provisioner[q].patch = {} => Unpatched(Task(q))
    BY <1>5 DEF Unpatched
  <1>. QED BY <1>1, <1>4, <1>6 DEF ToInspect

(* What git has made of a checkout is what Inspect asks about.             *)
LEMMA BecomesToInspect ==
    ASSUME Typed, CheckoutInv, NEW p \in Provisioners, ApplyPatch(p) \/ Resume(p),
           At(p, "inspect")'
    PROVE  ToInspect(p)'
  <1>1. Running(p)
    BY DEF ApplyPatch, Resume, Running, At
  <1>2. Task(p) \in Tasks
    BY <1>1, SelectedIs
  <1>3. CASE ApplyPatch(p)
    <2>1. At(p, "apply")
      BY <1>3 DEF ApplyPatch
    <2>2. AtBase(evaluator[Task(p)], Base(p))
      BY <2>1 DEF CheckoutInv, EvaluatorInv, EvaluatorOf
    <2>3. /\ provisioner[p].patch \ evaluator[Task(p)].delta = {}
          /\ Requires(p, provisioner[p].patch # {}, "inspect") /\ OnlyMoves
      BY <1>3, <2>1 DEF ApplyPatch, At
    <2>4. (provisioner[p].patch # {}) \in BOOLEAN
      OBVIOUS
    <2>5. provisioner[p].patch # {} /\ To(p, "inspect")
      BY <2>3, <2>4, RequiresTo DEF Refused, At
    <2>6. Task(p)' = Task(p) /\ Base(p)' = Base(p) /\ provisioner'[p].patch = provisioner[p].patch
      BY <2>5, SameRun DEF To, Keeps
    <2>7. evaluator' = evaluator
      BY <2>3 DEF OnlyMoves, checkouts
    <2>. QED BY <2>2, <2>3, <2>5, <2>6, <2>7 DEF ToInspect, AtBase
  <1>4. CASE Resume(p)
    <2>. DEFINE e == evaluator[Task(p)]
                condition == /\ e.origin = "registered" /\ e.head = {Base(p)}
                             /\ IF provisioner[p].patch = {} THEN e.delta = {}
                                ELSE provisioner[p].patch \subseteq e.delta
    <2>1. Requires(p, condition, "inspect") /\ OnlyMoves
      BY <1>4 DEF Resume
    <2>2. condition \in BOOLEAN
      OBVIOUS
    <2>3. condition /\ To(p, "inspect")
      <3>. HIDE DEF condition
      <3>. QED BY <2>1, <2>2, RequiresTo DEF Refused, At
    <2>4. e.exists
      <3>1. ~e.exists => e = Absent
        BY <1>2 DEF CheckoutInv, EvaluatorInv, EvaluatorTree
      <3>. QED BY <2>3, <3>1 DEF Absent
    <2>5. Task(p)' = Task(p) /\ Base(p)' = Base(p) /\ provisioner'[p].patch = provisioner[p].patch
      BY <2>3, SameRun DEF To, Keeps
    <2>6. evaluator' = evaluator
      BY <2>1 DEF OnlyMoves, checkouts
    <2>. QED BY <2>3, <2>4, <2>5, <2>6 DEF ToInspect, AtBase
  <1>. QED BY <1>3, <1>4

LEMMA InspectAccepts ==
    ASSUME Typed, CheckoutInv, ReadInv, NEW p \in Provisioners, At(p, "inspect"), ToInspect(p),
           Passes(p), NEW m \in provisioner[p].manifest, Current(m)
    PROVE  Accepted(Task(p), RecordIn(m, Task(p)))
  <1>1. Running(p) /\ provisioner[p].at \in Loaded /\ provisioner[p].at \in Checked
    BY DEF At, Running, Loaded, Checked
  <1>2. m = Selected(p) /\ Task(p) \in Tasks /\ RecordIn(m, Task(p)) \in Records
    BY <1>1, RunsOne, SelectedIs
  <1>3. /\ functional[Task(p)] = Pristine(RecordIn(m, Task(p)).base_commit)
        /\ AtBase(evaluator[Task(p)], RecordIn(m, Task(p)).base_commit)
    BY <1>1, <1>2 DEF CheckoutInv, FunctionalInv, FunctionalOf, ToInspect, Base
  <1>4. provisioner[p].patch = RecordIn(m, Task(p)).test_patch
    BY <1>1 DEF ReadInv, ReadOf
  <1>5. Holds(evaluator[Task(p)], RecordIn(m, Task(p)))
    BY <1>3, <1>4 DEF Holds, ToInspect, Passes
  <1>. QED BY <1>2, <1>3, <1>5, AcceptedIs

LEMMA AcceptedOnSteps ==
    ASSUME PatchesAgree, Typed, Typed', CheckoutInv, ReadInv, AcceptedInv,
           NEW p \in Provisioners, Provisions(p) \/ Exits(p), NEW q \in Provisioners
    PROVE  AcceptedOf(q)'
  <1>1. Others(p) /\ Flow(p)
    BY StepsFlow
  <1>2. \A m : Current(m)' <=> Current(m)
    BY ProvisionerSteps DEF OneSteps, materialVars, material, Current
  <1>3. ASSUME NEW m \in provisioner[q].manifest, NEW t \in Tasks, Accepted(t, RecordIn(m, t))
        PROVE  Accepted(t, RecordIn(m, t))'
    BY <1>3, RunManifests, AcceptedStays DEF RecordIn
  <1>4. ASSUME provisioner'[q].manifest = provisioner[q].manifest,
               \A k \in DOMAIN TaskIds : Finished(q, k)' =>
                   \/ Finished(q, k)
                   \/ \A m \in provisioner[q].manifest :
                         Current(m) => Accepted(TaskIds[k], RecordIn(m, TaskIds[k])),
               At(q, "inspect")' => ToInspect(q)'
        PROVE  AcceptedOf(q)'
    <2>. SUFFICES ASSUME NEW m \in provisioner[q].manifest, Current(m),
                         NEW k \in DOMAIN TaskIds, Finished(q, k)'
                  PROVE  Accepted(TaskIds[k], RecordIn(m, TaskIds[k]))'
      BY <1>2, <1>4 DEF AcceptedOf
    <2>1. Accepted(TaskIds[k], RecordIn(m, TaskIds[k]))
      BY <1>4 DEF AcceptedInv, AcceptedOf
    <2>. QED BY <1>3, <2>1, TaskIdsAreTasks
  <1>5. CASE q # p
    <2>1. provisioner'[q] = provisioner[q]
      BY <1>1, <1>5, OthersRun
    <2>2. At(q, "inspect")' => ToInspect(q)'
      BY <1>1, <1>5, <2>1, ToInspectStays DEF AcceptedInv, AcceptedOf, At
    <2>3. \A k \in DOMAIN TaskIds : Finished(q, k)' => Finished(q, k)
      BY <2>1 DEF Finished, At
    <2>. QED BY <1>4, <2>1, <2>2, <2>3
  <1>. USE DEF Loaded, Checked
  <1>6. CASE q = p /\ provisioner'[p].at \in {"idle", "refused"} /\ provisioner'[p].manifest = {}
    BY <1>6 DEF AcceptedOf, At
  <1>7. CASE q = p /\ provisioner[p].at \in Loaded /\ provisioner'[p].at \in Loaded
             /\ Keeps(p) /\ provisioner'[p].patch = provisioner[p].patch
    <2>1. ApplyPatch(p) \/ Resume(p) \/ ~At(p, "inspect")'
      <3>1. ASSUME NEW place, Moves(p, place), place # "inspect" PROVE ~At(p, "inspect")'
        BY <3>1, MovesTo DEF To, At
      <3>2. ASSUME NEW condition \in BOOLEAN, NEW place, Requires(p, condition, place),
                   place # "inspect"
            PROVE  ~At(p, "inspect")'
        BY <3>2, RequiresTo DEF To, Refused, At
      <3>3. CASE LookForFunctional(p) \/ GitInit(p) \/ GitCheckout(p) \/ LookForEvaluator(p)
                 \/ EndClone(p) \/ SetUrl(p)
        BY <3>1, <3>3 DEF LookForFunctional, GitInit, GitCheckout, LookForEvaluator, EndClone, SetUrl
      <3>4. CASE GitRemoteAdd(p) \/ AssertFunctional(p) \/ AssertEvaluator(p)
        BY <3>2, <3>4 DEF GitRemoteAdd, AssertFunctional, AssertEvaluator, CleanAtBase
      <3>5. CASE BeginClone(p)
        <4>1. (~evaluator[Task(p)].exists) \in BOOLEAN
          OBVIOUS
        <4>. QED BY <3>2, <3>5, <4>1 DEF BeginClone
      <3>6. CASE Begin(p) \/ VerifyTask(p) \/ LoadProjections(p)
        BY <1>7, <3>6 DEF Begin, VerifyTask, LoadProjections, At
      <3>7. CASE Inspect(p) \/ Stops(p) \/ Exits(p)
        BY <3>7, InspectTo, EndsTo DEF Refused, NotRunning, At
      <3>. QED BY <3>3, <3>4, <3>5, <3>6, <3>7 DEF Provisions
    <2>2. At(p, "inspect")' => ToInspect(p)'
      BY <2>1, BecomesToInspect
    <2>3. \A k \in DOMAIN TaskIds : Finished(p, k)' => Finished(p, k)
      BY <1>7 DEF Finished, Keeps, At
    <2>. QED BY <1>4, <1>7, <2>2, <2>3 DEF Keeps
  <1>8. CASE q = p /\ Begin(p) /\ provisioner'[p].at = "verify"
    BY <1>8 DEF AcceptedOf, Finished, At
  <1>9. CASE q = p /\ VerifyTask(p) /\ provisioner'[p].at \in {"verify", "load"}
    <2>1. /\ provisioner'[p].manifest = provisioner[p].manifest
          /\ provisioner'[p].at = "load" => provisioner'[p].task = 1
      BY <1>9, VerifyTo DEF Refused
    <2>2. \A k \in DOMAIN TaskIds : ~Finished(p, k)'
      BY <1>9, <2>1, Ordered DEF Finished, At
    <2>. QED BY <1>9, <2>2 DEF AcceptedOf, At
  <1>10. CASE q = p /\ LoadProjections(p)
    <2>1. Keeps(p) /\ provisioner'[p].at = "functional" /\ At(p, "load")
      BY <1>10, LoadTo DEF LoadProjections
    <2>2. \A k \in DOMAIN TaskIds : Finished(p, k)' => Finished(p, k)
      BY <2>1 DEF Finished, Keeps, At
    <2>. QED BY <1>4, <1>10, <2>1, <2>2 DEF Keeps, At
  <1>11. CASE q = p /\ Inspect(p) /\ provisioner'[p].at \in {"load", "returned"}
    <2>1. /\ Passes(p) /\ At(p, "inspect")
          /\ provisioner'[p].manifest = provisioner[p].manifest
          /\ \/ /\ provisioner[p].task = Len(TaskIds) /\ provisioner'[p].at = "returned"
             \/ /\ provisioner'[p].at = "load"
                /\ provisioner'[p].task = provisioner[p].task + 1
      BY <1>11, InspectTo DEF Refused, Keeps, Inspect
    <2>2. ToInspect(p)
      BY <2>1 DEF AcceptedInv, AcceptedOf
    <2>3. ASSUME NEW k \in DOMAIN TaskIds, Finished(p, k)'
          PROVE  Finished(p, k) \/ k = provisioner[p].task
      <3>1. provisioner[p].task \in DOMAIN TaskIds
        BY TypesAreKnown DEF Typed, Runs
      <3>. QED BY <2>1, <2>3, <3>1, Ordered DEF Finished, At
    <2>4. TaskIds[provisioner[p].task] = Task(p)
      BY DEF Task
    <2>5. \A m \in provisioner[p].manifest :
             Current(m) => Accepted(Task(p), RecordIn(m, Task(p)))
      BY <2>1, <2>2, InspectAccepts
    <2>. QED BY <1>4, <1>11, <2>1, <2>3, <2>4, <2>5 DEF At
  <1>. QED BY <1>1, <1>5, <1>6, <1>7, <1>8, <1>9, <1>10, <1>11 DEF Flow

LEMMA AcceptedStep ==
    ASSUME RegistrationsMoveOn, PatchesAgree, Typed, Typed', CheckoutInv, MaterialInv, ReadInv,
           AcceptedInv, [Next]_vars
    PROVE  AcceptedInv'
  <1>1. CASE MaterialSteps
    <2>1. MaterialTypeOK /\ MaterialTypeOK' /\ MaterialNext
      BY <1>1 DEF Typed, TypeOK, MaterialSteps
    <2>2. UNCHANGED <<functional, evaluator>>
      BY <1>1 DEF MaterialSteps
    <2>. SUFFICES ASSUME NEW p \in Provisioners PROVE AcceptedOf(p)'
      BY DEF AcceptedInv
    <2>3. \A m \in provisioner[p].manifest : Current(m)' => Current(m)
      BY <2>1, RunManifests, CurrentBefore DEF ReadInv, ReadOf
    <2>4. \A t, r : Accepted(t, r)' <=> Accepted(t, r)
      BY <2>2 DEF Accepted, Provisioned
    <2>. QED BY <1>1, <2>2, <2>3, <2>4, MaterialKeepsRuns
          DEF AcceptedInv, AcceptedOf, ToInspect, AtBase, Finished, RecordIn, At
  <1>2. CASE Edit
    <2>1. UNCHANGED provisioner /\ \A p \in Provisioners : provisioner[p].at = "idle"
      BY <1>2 DEF Edit
    <2>. QED BY <2>1 DEF AcceptedInv, AcceptedOf, Finished, Loaded, Checked, At
  <1>3. CASE \E p \in Provisioners : Provisions(p) \/ Exits(p)
    BY <1>3, AcceptedOnSteps DEF AcceptedInv
  <1>4. CASE UNCHANGED vars
    <2>1. UNCHANGED <<registration, functional, evaluator, provisioner>>
      BY <1>4 DEF vars, materialVars, material
    <2>2. \A t, r : Accepted(t, r)' <=> Accepted(t, r)
      BY <2>1 DEF Accepted, Provisioned
    <2>3. \A p \in Provisioners : Task(p)' = Task(p) /\ Base(p)' = Base(p)
      BY <2>1, SameRun
    <2>. QED BY <2>1, <2>2, <2>3
          DEF AcceptedInv, AcceptedOf, ToInspect, AtBase, Finished, Current, RecordIn, At
  <1>. QED BY <1>1, <1>2, <1>3, <1>4, Steps

-----------------------------------------------------------------------------
(* A settled bed is never refused.                                         *)

(* Two manifests that verify select the same records.                      *)
LEMMA OneAsset ==
    ASSUME NEW m, NEW n, ManifestVerified(m), ManifestVerified(n)
    PROVE  /\ \A t : RecordIn(m, t) = RecordIn(n, t)
           /\ \A t : ProjectionsVerified(m, t) <=> ProjectionsVerified(n, t)
  BY DEF ManifestVerified, SameAsset, RecordIn, ProjectionsVerified

LEMMA SettledOnMaterial ==
    ASSUME RegistrationsMoveOn, Typed, MaterialInv, ReadInv, SettledInv, MaterialSteps
    PROVE  SettledInv'
  <1>1. /\ MaterialTypeOK /\ MaterialNext /\ UNCHANGED <<functional, evaluator>>
        /\ settled' = (settled /\ registration' = registration)
    BY DEF Typed, TypeOK, MaterialSteps
  <1>2. \A t, r : Accepted(t, r)' <=> Accepted(t, r)
    BY <1>1 DEF Accepted, Provisioned
  <1>3. ASSUME settled'
        PROVE  \E n \in manifest' : SettledBed(n)'
    <2>1. PICK m \in manifest : SettledBed(m)
      BY <1>1, <1>3 DEF SettledInv
    <2>2. m \in Manifests /\ Dated(m) /\ Current(m)
      BY <1>1, <2>1, ManifestIsTyped DEF MaterialInv, SettledBed, ManifestVerified, Current
    <2>3. PICK n \in manifest' :
              /\ ManifestVerified(n)'
              /\ Registrations[n.bed].asset_sha256 = Registrations[m.bed].asset_sha256
      BY <1>1, <1>3, <2>1, ManifestsStay DEF SettledBed
    <2>4. \A t \in Tasks : ProjectionsVerified(m, t)'
      BY <1>1, <2>1, <2>2, ProjectionsStay DEF SettledBed
    <2>5. \A t \in Tasks : ProjectionsVerified(n, t)'
      BY <2>3, <2>4 DEF ProjectionsVerified, RecordIn
    <2>6. \A t \in Tasks : Accepted(t, RecordIn(n, t))'
      BY <1>2, <2>1, <2>3 DEF SettledBed, RecordIn
    <2>. QED BY <2>3, <2>5, <2>6 DEF SettledBed
  <1>4. ASSUME NEW p \in Provisioners
        PROVE  SettledOf(p)'
    <2>1. /\ provisioner'[p].at = provisioner[p].at
          /\ provisioner'[p].manifest = provisioner[p].manifest
          /\ provisioner'[p].settled = (provisioner[p].settled /\ registration' = registration)
      BY MaterialKeepsRuns
    <2>2. ASSUME provisioner[p].settled, registration' = registration,
                 NEW m \in provisioner[p].manifest
          PROVE  ManifestVerified(m)'
      <3>1. ManifestVerified(m)
        BY <2>2 DEF SettledInv, SettledOf
      <3>2. source'[Registrations[m.bed].asset_path] = source[Registrations[m.bed].asset_path]
        BY <1>1, <3>1, RunManifests, AssetsStay DEF ManifestVerified
      <3>. QED BY <2>2, <3>1, <3>2 DEF ManifestVerified
    <2>. QED BY <1>1, <2>1, <2>2 DEF SettledInv, SettledOf
  <1>. QED BY <1>3, <1>4 DEF SettledInv

(* What a run that began on a settled bed relies on.                       *)
LEMMA SettledRuns ==
    ASSUME Typed, ReadInv, SettledInv, NEW p \in Provisioners, provisioner[p].settled
    PROVE  /\ Running(p) /\ settled
           /\ \A t \in Tasks : /\ ProjectionsVerified(Selected(p), t)
                               /\ Accepted(t, RecordIn(Selected(p), t))
           /\ provisioner[p].at \in Loaded =>
                 provisioner[p].patch = RecordIn(Selected(p), Task(p)).test_patch
  <1>1. /\ settled /\ Running(p)
        /\ \A m \in provisioner[p].manifest : ManifestVerified(m)
    BY DEF SettledInv, SettledOf, Running
  <1>2. Selected(p) \in provisioner[p].manifest
    BY <1>1, SelectedIs
  <1>3. PICK m \in manifest : SettledBed(m)
    BY <1>1 DEF SettledInv
  <1>4. ManifestVerified(m) /\ ManifestVerified(Selected(p))
    BY <1>1, <1>2, <1>3 DEF SettledBed
  <1>5. \A t \in Tasks : /\ ProjectionsVerified(Selected(p), t)
                         /\ Accepted(t, RecordIn(Selected(p), t))
    BY <1>3, <1>4, OneAsset DEF SettledBed
  <1>6. Current(Selected(p))
    BY <1>4 DEF ManifestVerified, Current
  <1>7. provisioner[p].at \in Loaded =>
            provisioner[p].patch = RecordIn(Selected(p), Task(p)).test_patch
    BY <1>2, <1>6 DEF ReadInv, ReadOf
  <1>. QED BY <1>1, <1>5, <1>7

LEMMA SettledOnSteps ==
    ASSUME PatchesAgree, Typed, Typed', CheckoutInv, ReadInv, AcceptedInv', ReadInv', SettledInv,
           NEW p \in Provisioners, Provisions(p) \/ Exits(p)
    PROVE  SettledInv'
  <1>. DEFINE places == {"verify", "load", "functional", "assert", "evaluator",
                         "resume", "inspect", "returned"}
  <1>1. Others(p)
    BY StepsFlow
  <1>2. UNCHANGED <<registration, source, projection, manifest>>
    BY ProvisionerSteps DEF OneSteps, materialVars, material
  <1>3. \A m : /\ ManifestVerified(m)' <=> ManifestVerified(m)
               /\ \A t : ProjectionsVerified(m, t)' <=> ProjectionsVerified(m, t)
    BY <1>2 DEF ManifestVerified, ProjectionsVerified, RecordIn
  <1>4. settled => settled'
    BY DEF Provisions, Begin, VerifyTask, LoadProjections, LookForFunctional, GitInit,
           GitRemoteAdd, GitCheckout, AssertFunctional, LookForEvaluator, BeginClone, EndClone,
           SetUrl, AssertEvaluator, ApplyPatch, Resume, Inspect, Stops, Exits, OnlyMoves,
           ChangesFunctional, ChangesEvaluator
  <1>5. ASSUME settled
        PROVE  \E n \in manifest' : SettledBed(n)'
    <2>1. PICK m \in manifest : SettledBed(m)
      BY <1>5 DEF SettledInv
    <2>2. Registrations[m.bed].asset_sha256 \in Digests
      BY ManifestIsTyped, Registered DEF Typed, TypeOK, Manifests
    <2>3. \A t \in Tasks : Accepted(t, RecordIn(m, t))'
      BY <2>1, <2>2, AcceptedStays DEF SettledBed, RecordIn
    <2>. QED BY <1>2, <1>3, <2>1, <2>3 DEF SettledBed
  <1>6. ASSUME settled', ~settled
        PROVE  \E n \in manifest' : SettledBed(n)'
    <2>1. Inspect(p)
      BY <1>6 DEF Provisions, Begin, VerifyTask, LoadProjections, LookForFunctional, GitInit,
           GitRemoteAdd, GitCheckout, AssertFunctional, LookForEvaluator, BeginClone, EndClone,
           SetUrl, AssertEvaluator, ApplyPatch, Resume, Stops, Exits, OnlyMoves,
           ChangesFunctional, ChangesEvaluator
    <2>2. /\ Passes(p) /\ provisioner[p].task = Len(TaskIds) /\ ManifestVerified(Selected(p))
          /\ provisioner'[p].at = "returned" /\ Keeps(p)
      BY <1>6, <2>1, InspectTo
    <2>3. Running(p)
      BY <2>1 DEF Inspect, Running, At
    <2>4. PICK m \in provisioner[p].manifest : m = Selected(p)
      BY <2>3, SelectedIs
    <2>5. /\ m \in provisioner'[p].manifest /\ ManifestVerified(m) /\ ManifestVerified(m)'
          /\ Current(m)'
      BY <1>2, <1>3, <2>2, <2>4 DEF Keeps, ManifestVerified, Current
    <2>6. \A k \in DOMAIN TaskIds : Accepted(TaskIds[k], RecordIn(m, TaskIds[k]))'
      BY <2>2, <2>5 DEF AcceptedInv, AcceptedOf, Finished, At
    <2>7. \A k \in DOMAIN TaskIds : ProjectionsVerified(m, TaskIds[k])'
      BY <2>2, <2>5 DEF ReadInv, ReadOf, At
    <2>8. PICK n \in manifest' : ManifestVerified(n)'
      BY <2>5 DEF ReadInv, ReadOf
    <2>9. ManifestVerified(n)
      BY <1>3, <2>8
    <2>10. /\ \A t : RecordIn(m, t) = RecordIn(n, t)
           /\ \A t : ProjectionsVerified(m, t) <=> ProjectionsVerified(n, t)
      BY <2>5, <2>9, OneAsset
    <2>11. ASSUME NEW t \in Tasks
           PROVE  ProjectionsVerified(n, t)' /\ Accepted(t, RecordIn(n, t))'
      <3>1. ProjectionsVerified(m, t)' /\ Accepted(t, RecordIn(m, t))'
        BY <2>6, <2>7, TaskIdsAreTasks
      <3>. QED BY <1>3, <2>10, <3>1 DEF RecordIn
    <2>. QED BY <2>8, <2>11 DEF SettledBed
  <1>7. ASSUME NEW q \in Provisioners, q # p
        PROVE  SettledOf(q)'
    BY <1>1, <1>3, <1>4, <1>7, OthersRun DEF SettledInv, SettledOf
  <1>8. ASSUME provisioner[p].settled, provisioner'[p].at \in places,
               provisioner'[p].manifest = provisioner[p].manifest
        PROVE  SettledOf(p)'
    BY <1>3, <1>4, <1>8 DEF SettledInv, SettledOf
  <1>9. ASSUME ~provisioner'[p].settled
        PROVE  SettledOf(p)'
    BY <1>9 DEF SettledOf
  <1>10. SettledOf(p)'
    <2>1. CASE Begin(p)
      <3>1. CASE settled
        <4>1. PICK m \in manifest : ManifestVerified(m)
          BY <3>1 DEF SettledInv, SettledBed
        <4>2. manifest = {m}
          <5>1. manifest \in ManifestFile
            BY TypesAreKnown DEF Typed, MaterialTypeOK
          <5>. QED BY <5>1, ManifestIsOne
        <4>3. provisioner'[p].at = "verify" /\ provisioner'[p].manifest = {m}
          BY <2>1, <4>1, <4>2, BeginTo
        <4>. QED BY <1>3, <1>4, <3>1, <4>1, <4>3 DEF SettledOf
      <3>2. CASE ~settled
        BY <1>9, <2>1, <3>2, BeginTo
      <3>. QED BY <3>1, <3>2
    <2>2. CASE Stops(p) \/ Exits(p)
      BY <1>9, <2>2, EndsTo DEF NotRunning
    <2>3. CASE ~Begin(p) /\ ~Stops(p) /\ ~Exits(p) /\ ~provisioner[p].settled
      <3>1. provisioner'[p].settled = provisioner[p].settled
        <4>1. ASSUME NEW place, Moves(p, place)
              PROVE  provisioner'[p].settled = provisioner[p].settled
          BY <4>1, MovesTo DEF To, Keeps
        <4>2. ASSUME NEW condition \in BOOLEAN, NEW place, Requires(p, condition, place)
              PROVE  provisioner'[p].settled = provisioner[p].settled
          BY <4>2, RequiresTo DEF To, Refused, Keeps
        <4>3. CASE VerifyTask(p) \/ LoadProjections(p) \/ Inspect(p)
          BY <4>3, VerifyTo, LoadTo, InspectTo DEF Refused, Keeps
        <4>4. CASE LookForFunctional(p) \/ GitInit(p) \/ GitCheckout(p) \/ LookForEvaluator(p)
                   \/ EndClone(p) \/ SetUrl(p)
          BY <4>1, <4>4
             DEF LookForFunctional, GitInit, GitCheckout, LookForEvaluator, EndClone, SetUrl
        <4>5. CASE GitRemoteAdd(p) \/ AssertFunctional(p) \/ AssertEvaluator(p)
          BY <4>2, <4>5 DEF GitRemoteAdd, AssertFunctional, AssertEvaluator, CleanAtBase
        <4>6. CASE BeginClone(p)
          <5>1. (~evaluator[Task(p)].exists) \in BOOLEAN
            OBVIOUS
          <5>. QED BY <4>2, <4>6, <5>1 DEF BeginClone
        <4>7. CASE ApplyPatch(p)
          <5>1. (provisioner[p].patch # {}) \in BOOLEAN
            OBVIOUS
          <5>. QED BY <4>2, <4>7, <5>1 DEF ApplyPatch
        <4>8. CASE Resume(p)
          BY <4>8, RequiresTo DEF Resume, To, Refused, Keeps
        <4>. QED BY <2>3, <4>3, <4>4, <4>5, <4>6, <4>7, <4>8 DEF Provisions
      <3>. QED BY <1>9, <2>3, <3>1
    <2>4. CASE ~Begin(p) /\ ~Stops(p) /\ ~Exits(p) /\ provisioner[p].settled
      <3>1. /\ Running(p) /\ provisioner[p].at \in places
            /\ \A t \in Tasks : /\ ProjectionsVerified(Selected(p), t)
                                /\ Accepted(t, RecordIn(Selected(p), t))
            /\ provisioner[p].at \in Loaded =>
                 provisioner[p].patch = RecordIn(Selected(p), Task(p)).test_patch
        BY <2>4, SettledRuns DEF SettledInv, SettledOf
      <3>2. Task(p) \in Tasks /\ RecordIn(Selected(p), Task(p)) \in Records
        BY <3>1, SelectedIs
      <3>3. /\ functional[Task(p)] = Pristine(Base(p))
            /\ Holds(evaluator[Task(p)], RecordIn(Selected(p), Task(p)))
        BY <3>1, <3>2, AcceptedIs DEF Base
      <3>4. ASSUME NEW place \in places, To(p, place)
            PROVE  SettledOf(p)'
        BY <1>8, <2>4, <3>4 DEF To, Keeps
      <3>5. CASE VerifyTask(p)
        BY <1>8, <2>4, <3>1, <3>2, <3>5, VerifyTo
      <3>6. CASE LoadProjections(p)
        BY <1>8, <2>4, <3>6, LoadTo DEF Keeps
      <3>7. CASE LookForFunctional(p)
        <4>1. functional[Task(p)].exists
          BY <3>3, CheckoutFields
        <4>2. Moves(p, "assert")
          BY <3>7, <4>1 DEF LookForFunctional
        <4>. QED BY <3>4, <4>2, MovesTo
      <3>8. CASE AssertFunctional(p)
        <4>1. To(p, "evaluator")
          BY <3>3, <3>8, RequiresTo DEF AssertFunctional, CleanAtBase
        <4>. QED BY <3>4, <4>1
      <3>9. CASE LookForEvaluator(p)
        <4>1. evaluator[Task(p)].exists
          BY <3>3 DEF Holds, AtBase
        <4>2. Moves(p, "resume")
          BY <3>9, <4>1 DEF LookForEvaluator
        <4>. QED BY <3>4, <4>2, MovesTo
      <3>10. CASE Resume(p)
        <4>1. provisioner[p].patch = RecordIn(Selected(p), Task(p)).test_patch
          BY <3>1, <3>10 DEF Resume, At, Loaded, Checked
        <4>2. /\ evaluator[Task(p)].origin = "registered"
              /\ evaluator[Task(p)].head = {Base(p)}
              /\ IF provisioner[p].patch = {}
                 THEN evaluator[Task(p)].delta = {}
                 ELSE provisioner[p].patch \subseteq evaluator[Task(p)].delta
          BY <3>3, <4>1 DEF Holds, AtBase, Base
        <4>3. To(p, "inspect")
          BY <3>10, <4>2, RequiresTo DEF Resume
        <4>. QED BY <3>4, <4>3
      <3>11. CASE Inspect(p)
        <4>1. provisioner[p].patch = RecordIn(Selected(p), Task(p)).test_patch
          BY <3>1, <3>11 DEF Inspect, At, Loaded, Checked
        <4>2. Passes(p)
          BY <3>3, <4>1 DEF Holds, Passes
        <4>. QED BY <1>8, <2>4, <3>11, <4>2, InspectTo DEF Keeps
      <3>12. CASE \/ GitInit(p) \/ GitRemoteAdd(p) \/ GitCheckout(p) \/ BeginClone(p)
                  \/ EndClone(p) \/ SetUrl(p) \/ AssertEvaluator(p) \/ ApplyPatch(p)
        BY <3>1, <3>12
           DEF GitInit, GitRemoteAdd, GitCheckout, BeginClone, EndClone, SetUrl, AssertEvaluator,
               ApplyPatch, At
      <3>. QED BY <2>4, <3>5, <3>6, <3>7, <3>8, <3>9, <3>10, <3>11, <3>12 DEF Provisions
    <2>. QED BY <2>1, <2>2, <2>3, <2>4
  <1>. QED BY <1>5, <1>6, <1>7, <1>10 DEF SettledInv

LEMMA SettledStep ==
    ASSUME RegistrationsMoveOn, PatchesAgree, Typed, Typed', CheckoutInv, MaterialInv, ReadInv,
           ReadInv', AcceptedInv', SettledInv, [Next]_vars
    PROVE  SettledInv'
  <1>1. CASE MaterialSteps
    BY <1>1, SettledOnMaterial
  <1>2. CASE Edit
    <2>1. /\ UNCHANGED provisioner /\ settled' = FALSE
          /\ \A p \in Provisioners : provisioner[p].at = "idle"
      BY <1>2 DEF Edit
    <2>2. \A p \in Provisioners : ~provisioner[p].settled
      BY <2>1 DEF SettledInv, SettledOf
    <2>. QED BY <2>1, <2>2 DEF SettledInv, SettledOf
  <1>3. CASE \E p \in Provisioners : Provisions(p) \/ Exits(p)
    BY <1>3, SettledOnSteps
  <1>4. CASE UNCHANGED vars
    <2>1. /\ UNCHANGED <<registration, source, projection, manifest>>
          /\ UNCHANGED <<functional, evaluator, provisioner, settled>>
      BY <1>4 DEF vars, materialVars, material
    <2>2. \A t, r : Accepted(t, r)' <=> Accepted(t, r)
      BY <2>1 DEF Accepted, Provisioned
    <2>3. \A m : /\ ManifestVerified(m)' <=> ManifestVerified(m)
                 /\ \A t : ProjectionsVerified(m, t)' <=> ProjectionsVerified(m, t)
      BY <2>1 DEF ManifestVerified, ProjectionsVerified, RecordIn
    <2>. QED BY <2>1, <2>2, <2>3 DEF SettledInv, SettledOf, SettledBed, RecordIn
  <1>. QED BY <1>1, <1>2, <1>3, <1>4, Steps

-----------------------------------------------------------------------------
(* A checkout that is made holds its patch.                                *)

(* Only the last step of a patch leads from "apply" to "inspect".          *)
LEMMA PatchIsComplete ==
    ASSUME Typed, CheckoutInv, NEW p \in Provisioners, Provisions(p) \/ Exits(p),
           At(p, "apply"), provisioner'[p].at = "inspect"
    PROVE  evaluator' = evaluator /\ provisioner[p].patch \subseteq evaluator[Task(p)].delta
  <1>1. ApplyPatch(p) \/ Stops(p)
    BY DEF Provisions, Begin, VerifyTask, LoadProjections, LookForFunctional, GitInit,
           GitRemoteAdd, GitCheckout, AssertFunctional, LookForEvaluator, BeginClone, EndClone,
           SetUrl, AssertEvaluator, Resume, Inspect, Exits, At
  <1>2. ~Stops(p)
    BY EndsTo DEF NotRunning
  <1>3. provisioner' # provisioner
    BY DEF At
  <1>. QED BY <1>1, <1>2, <1>3 DEF ApplyPatch, OnlyMoves, checkouts

(* A checkout that one provisioner clones and patches has its whole patch  *)
(* and nothing else when it is ready, for any number of provisioners, with *)
(* crashes anywhere and any edits between their calls.                     *)
THEOREM FreshIsOnlyPatched == Spec => FreshHoldsOnlyThePatch
  <1>. DEFINE A == \A p \in Provisioners :
                      At(p, "apply") /\ provisioner'[p].at = "inspect" =>
                          evaluator'[Task(p)] =
                              [Pristine(Base(p)) EXCEPT !.delta = provisioner[p].patch]
  <1>1. Typed /\ CheckoutInv /\ [Next]_vars => [A]_vars
    <2>. SUFFICES ASSUME Typed, CheckoutInv, [Next]_vars, NEW p \in Provisioners,
                         At(p, "apply"), provisioner'[p].at = "inspect"
                  PROVE  evaluator'[Task(p)] =
                             [Pristine(Base(p)) EXCEPT !.delta = provisioner[p].patch]
      OBVIOUS
    <2>1. Provisions(p) \/ Exits(p)
      <3>1. CASE MaterialSteps
        BY <3>1, MaterialKeepsRuns DEF At
      <3>2. CASE Edit
        BY <3>2 DEF Edit, At
      <3>3. CASE \E q \in Provisioners : Provisions(q) \/ Exits(q)
        BY <3>3, StepsFlow DEF Others, At
      <3>4. CASE UNCHANGED vars
        BY <3>4 DEF vars, At
      <3>. QED BY <3>1, <3>2, <3>3, <3>4, Steps
    <2>2. /\ evaluator' = evaluator
          /\ provisioner[p].patch \subseteq evaluator[Task(p)].delta
      BY <2>1, PatchIsComplete
    <2>3. /\ AtBase(evaluator[Task(p)], Base(p))
          /\ evaluator[Task(p)].delta = provisioner[p].patch
      BY <2>2 DEF CheckoutInv, EvaluatorInv, EvaluatorOf
    <2>4. evaluator[Task(p)] \in Checkout
      BY TypesAreKnown, SelectedIs DEF Typed, Running, At
    <2>. DEFINE c == [Pristine(Base(p)) EXCEPT !.delta = provisioner[p].patch]
    <2>5. Base(p) \in Commits /\ provisioner[p].patch \subseteq Paths
      BY TypesAreKnown, SelectedIs DEF Typed, Running, At, Runs
    <2>6. Pristine(Base(p)) \in Checkout
      BY <2>5, CheckoutFields
    <2>7. /\ c \in Checkout /\ c.exists /\ c.origin = "registered"
          /\ c.head = {Base(p)} /\ c.delta = provisioner[p].patch
      BY <2>5, <2>6, CheckoutFields DEF Checkout
    <2>. HIDE DEF c
    <2>8. evaluator[Task(p)] = c
      BY <2>3, <2>4, <2>7, SameCheckout DEF AtBase
    <2>. QED BY <2>2, <2>8 DEF c
  <1>. QED
    BY <1>1, TypeInit, TypeStep, CheckoutInit, CheckoutStep, PTL
       DEF Spec, FreshHoldsOnlyThePatch

-----------------------------------------------------------------------------
(* The inductive invariant, and what it says of a provisioned bed.         *)

BedInv ==
    /\ Typed /\ CheckoutInv /\ MaterialInv
    /\ ReadInv /\ AcceptedInv /\ SettledInv

LEMMA BedInit ==
    Init => BedInv
  <1>. SUFFICES ASSUME Init PROVE BedInv
    OBVIOUS
  <1>1. /\ \A p \in Provisioners : provisioner[p] = NotRunning
        /\ NotRunning.at = "idle" /\ NotRunning.manifest = {} /\ NotRunning.settled = FALSE
        /\ settled = FALSE
    BY DEF Init, NotRunning
  <1>2. ReadInv /\ AcceptedInv /\ SettledInv
    BY <1>1 DEF ReadInv, ReadOf, AcceptedInv, AcceptedOf, SettledInv, SettledOf, At
  <1>. QED BY <1>2, TypeInit, CheckoutInit, MaterialStart DEF BedInv, Init

LEMMA BedStep ==
    ASSUME RegistrationsMoveOn, PatchesAgree
    PROVE  BedInv /\ [Next]_vars => BedInv'
  <1>. SUFFICES ASSUME BedInv, [Next]_vars PROVE BedInv'
    OBVIOUS
  <1>1. Typed' /\ CheckoutInv'
    BY TypeStep, CheckoutStep DEF BedInv
  <1>2. MaterialInv'
    BY MaterialInvKept DEF BedInv
  <1>3. ReadInv'
    BY <1>1, ReadStep DEF BedInv
  <1>4. AcceptedInv'
    BY <1>1, AcceptedStep DEF BedInv
  <1>5. SettledInv'
    BY <1>1, <1>3, <1>4, SettledStep DEF BedInv
  <1>. QED BY <1>1, <1>2, <1>3, <1>4, <1>5 DEF BedInv

LEMMA BedIsReturned ==
    BedInv => ReturnedIsProvisioned
  <1>. SUFFICES ASSUME BedInv, NEW p \in Provisioners, At(p, "returned"),
                       ManifestVerified(Selected(p)), NEW t \in Tasks
                PROVE  Provisioned(t, RecordIn(Selected(p), t))
    BY DEF ReturnedIsProvisioned
  <1>1. Running(p)
    BY DEF Running, At
  <1>2. Selected(p) \in provisioner[p].manifest /\ Current(Selected(p))
    BY <1>1, SelectedIs DEF BedInv, ManifestVerified, Current
  <1>3. PICK k \in DOMAIN TaskIds : t = TaskIds[k]
    BY TaskIdsAreTasks
  <1>4. Accepted(t, RecordIn(Selected(p), t))
    BY <1>2, <1>3 DEF BedInv, AcceptedInv, AcceptedOf, Finished
  <1>. QED BY <1>4 DEF Accepted

LEMMA BedIsAccepted ==
    BedInv => SettledIsNotRefused
  BY DEF BedInv, SettledInv, SettledOf, SettledIsNotRefused, At

(* Whatever provisioners, materialisers and crashes came before or are     *)
(* still at work: when provision_bed returns for the registration in       *)
(* force, every checkout is the registered one, the evaluator's with the   *)
(* whole of its test patch.                                                *)
THEOREM ReturnsProvisioned ==
    RegistrationsMoveOn /\ PatchesAgree => (Spec => []ReturnedIsProvisioned)
  <1>. SUFFICES ASSUME RegistrationsMoveOn, PatchesAgree PROVE Spec => []ReturnedIsProvisioned
    OBVIOUS
  <1>1. BedInv /\ [Next]_vars => BedInv'
    BY BedStep
  <1>. QED BY <1>1, BedInit, BedIsReturned, PTL DEF Spec

(* The checks of a later call accept what an earlier call accepted or made *)
(* and nobody edited, other calls and materialisations notwithstanding.    *)
THEOREM SettledIsAccepted ==
    RegistrationsMoveOn /\ PatchesAgree => (Spec => []SettledIsNotRefused)
  <1>. SUFFICES ASSUME RegistrationsMoveOn, PatchesAgree PROVE Spec => []SettledIsNotRefused
    OBVIOUS
  <1>1. BedInv /\ [Next]_vars => BedInv'
    BY BedStep
  <1>. QED BY <1>1, BedInit, BedIsAccepted, PTL DEF Spec
=============================================================================
