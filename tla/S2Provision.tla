---------------------------- MODULE S2Provision ----------------------------
(***************************************************************************)
(* The two checkouts of each S2 task (benchmarks/s2/provision.py): the     *)
(* functional one, exactly the registered base commit, and the evaluator's *)
(* one, the same with the registered test patch applied.  provision_bed    *)
(* verifies the materialised bed, which a materialiser may be rewriting at *)
(* the same time, reads the projections once more, and then makes or       *)
(* re-examines the checkouts, one git command after the other.  Several    *)
(* provisioners may work in the same directory; each may die, or have a    *)
(* git command fail, at any step.                                          *)
(*                                                                         *)
(* A checkout is what the code can ask git about it.  A working tree is    *)
(* the set of the paths that differ from HEAD; Created are the paths HEAD  *)
(* does not know, which `git status` lists and `git diff` does not.        *)
(***************************************************************************)
EXTENDS S2Materialize, FiniteSets

CONSTANTS
    Provisioners,   \* processes that run provision_bed
    Paths,          \* files that a patch or a person may change
    Created,        \* those of them that are not in the base commit
    Edited          \* those of them that are changed between two calls

Commits == {c.base_commit : c \in Records}

ASSUME ProvisionAssumption ==
    /\ Created \subseteq Paths /\ Edited \subseteq Paths
    /\ \A c \in Records : c.test_patch \subseteq Paths

(* A task has a test patch in every asset, or in none.                     *)
PatchesAgree ==
    \A c, d \in Digests, t \in Tasks :
        Content[c][t].test_patch = {} <=> Content[d][t].test_patch = {}

VARIABLES
    functional,     \* for each task, the checkout functional-model
    evaluator,      \* for each task, the checkout official-evaluator
    provisioner,    \* for each provisioner, where it is and what it read
    settled         \* history: a bed was provisioned and neither edited nor
                    \* registered anew since; a provisioner notes it as it begins

checkouts == <<functional, evaluator>>
vars == <<materialVars, functional, evaluator, provisioner, settled>>

(* A directory that is there; its remote origin; HEAD, if it is born; the  *)
(* paths that differ from HEAD.                                            *)
Checkout == [exists: BOOLEAN,
             origin: {"none", "local", "registered"},
             head: File(Commits),
             delta: SUBSET Paths]

Absent == [exists |-> FALSE, origin |-> "none", head |-> {}, delta |-> {}]

Pristine(commit) ==
    [exists |-> TRUE, origin |-> "registered", head |-> {commit}, delta |-> {}]

Outside == {"idle", "returned", "refused"}

TypeOK ==
    /\ MaterialTypeOK
    /\ functional \in [Tasks -> Checkout]
    /\ evaluator \in [Tasks -> Checkout]
    /\ provisioner \in [Provisioners ->
           [at: Outside \cup {"verify", "load", "functional", "init", "remote", "fetch",
                              "assert", "evaluator", "clone", "cloning", "seturl",
                              "recheck", "apply", "resume", "inspect"},
            task: DOMAIN TaskIds,
            manifest: ManifestFile,
            patch: SUBSET Paths,
            settled: BOOLEAN]]
    /\ settled \in BOOLEAN

(* A process that is not running keeps nothing.                            *)
NotRunning ==
    [at |-> "idle", task |-> 1, manifest |-> {}, patch |-> {}, settled |-> FALSE]

Init ==
    /\ MaterialInit
    /\ functional = [t \in Tasks |-> Absent]
    /\ evaluator = [t \in Tasks |-> Absent]
    /\ provisioner = [p \in Provisioners |-> NotRunning]
    /\ settled = FALSE

-----------------------------------------------------------------------------
(* Helpers.                                                                *)

At(p, place) == provisioner[p].at = place
Moves(p, place) == provisioner' = [provisioner EXCEPT ![p].at = place]

Selected(p) == CHOOSE m \in provisioner[p].manifest : TRUE
Task(p) == TaskIds[provisioner[p].task]
Base(p) == RecordIn(Selected(p), Task(p)).base_commit

(* A check that holds leads on, one that fails is refused.                 *)
Refuse(run) == [NotRunning EXCEPT !.at = "refused", !.settled = run.settled]

Requires(p, condition, place) ==
    provisioner' = [provisioner EXCEPT
        ![p] = IF condition THEN [@ EXCEPT !.at = place] ELSE Refuse(@)]

OnlyMoves == UNCHANGED <<materialVars, checkouts, settled>>

ChangesFunctional(t, checkout) ==
    /\ functional' = [functional EXCEPT ![t] = checkout]
    /\ UNCHANGED <<materialVars, evaluator, settled>>

ChangesEvaluator(t, checkout) ==
    /\ evaluator' = [evaluator EXCEPT ![t] = checkout]
    /\ UNCHANGED <<materialVars, functional, settled>>

(* _assert_clean_base                                                      *)
CleanAtBase(checkout, commit) == checkout = Pristine(commit)

-----------------------------------------------------------------------------
(* Verification, and the second reading of the projections.                *)

Begin(p) ==
    LET run == [NotRunning EXCEPT !.at = "verify", !.manifest = manifest, !.settled = settled]
    IN  /\ At(p, "idle")
        /\ provisioner' = [provisioner EXCEPT ![p] =
               IF \E m \in manifest : ManifestVerified(m) THEN run ELSE Refuse(run)]
        /\ OnlyMoves

VerifyTask(p) ==
    LET run == provisioner[p]
        next == IF run.task < Len(TaskIds)
                THEN [run EXCEPT !.task = @ + 1]
                ELSE [run EXCEPT !.at = "load", !.task = 1]
    IN  /\ At(p, "verify")
        /\ provisioner' = [provisioner EXCEPT ![p] =
               IF ProjectionsVerified(Selected(p), Task(p)) THEN next ELSE Refuse(run)]
        /\ OnlyMoves

(* Repository and commit come from the manifest, the test patch from the   *)
(* projection as it is now.                                                *)
LoadProjections(p) ==
    /\ At(p, "load")
    /\ \E evaluation \in projection[Task(p)].evaluation :
          provisioner' = [provisioner EXCEPT ![p].at = "functional",
                                             ![p].patch = evaluation.test_patch]
    /\ OnlyMoves

-----------------------------------------------------------------------------
(* _clone_at_base                                                          *)

LookForCleanFunctional(p) ==
    /\ At(p, "functional")
    /\ Moves(p, IF ~functional[Task(p)].exists THEN "init"
                ELSE IF CleanAtBase(functional[Task(p)], Base(p)) THEN "assert" ELSE "fetch")
    /\ OnlyMoves

LookForFunctional(p) ==
    /\ At(p, "functional")
    /\ Moves(p, IF functional[Task(p)].exists THEN "assert" ELSE "init")
    /\ OnlyMoves

(* `git init` succeeds in a directory that is there.                       *)
GitInit(p) ==
    /\ At(p, "init")
    /\ Moves(p, "remote")
    /\ ChangesFunctional(Task(p), [functional[Task(p)] EXCEPT !.exists = TRUE])

GitRemoteAdd(p) ==
    /\ At(p, "remote")
    /\ Requires(p, functional[Task(p)].origin = "none", "fetch")
    /\ ChangesFunctional(Task(p), [functional[Task(p)] EXCEPT !.origin = "registered"])

(* The commit is fetched and checked out: HEAD is born last.               *)
GitCheckout(p) ==
    /\ At(p, "fetch")
    /\ Moves(p, "assert")
    /\ ChangesFunctional(Task(p), [functional[Task(p)] EXCEPT !.head = {Base(p)}, !.delta = {}])

AssertFunctional(p) ==
    /\ At(p, "assert")
    /\ Requires(p, CleanAtBase(functional[Task(p)], Base(p)), "evaluator")
    /\ OnlyMoves

-----------------------------------------------------------------------------
(* _evaluation_checkout                                                    *)

LookForEvaluator(p) ==
    /\ At(p, "evaluator")
    /\ Moves(p, IF evaluator[Task(p)].exists THEN "resume" ELSE "clone")
    /\ OnlyMoves

(* `git clone` refuses a directory that is there, and is not over at once. *)
BeginClone(p) ==
    /\ At(p, "clone")
    /\ Requires(p, ~evaluator[Task(p)].exists, "cloning")
    /\ IF evaluator[Task(p)].exists
       THEN OnlyMoves
       ELSE ChangesEvaluator(Task(p), [Absent EXCEPT !.exists = TRUE, !.origin = "local"])

EndClone(p) ==
    /\ At(p, "cloning")
    /\ Moves(p, "seturl")
    /\ ChangesEvaluator(Task(p), [evaluator[Task(p)] EXCEPT !.head = functional[Task(p)].head])

SetUrl(p) ==
    /\ At(p, "seturl")
    /\ Moves(p, "recheck")
    /\ ChangesEvaluator(Task(p), [evaluator[Task(p)] EXCEPT !.origin = "registered"])

AssertEvaluator(p) ==
    /\ At(p, "recheck")
    /\ Requires(p, CleanAtBase(evaluator[Task(p)], Base(p)), "apply")
    /\ OnlyMoves

(* The files of a patch are written one by one, in any order.  `git apply` *)
(* refuses an empty patch.                                                 *)
ApplyPatch(p) ==
    LET rest == provisioner[p].patch \ evaluator[Task(p)].delta
    IN  /\ At(p, "apply")
        /\ \/ /\ rest = {}
              /\ Requires(p, provisioner[p].patch # {}, "inspect")
              /\ OnlyMoves
           \/ \E path \in rest :
                /\ ChangesEvaluator(Task(p), [evaluator[Task(p)] EXCEPT !.delta = @ \cup {path}])
                /\ UNCHANGED provisioner

(* A checkout that is there must be at the base commit, and its patch must *)
(* be one that could be taken out again.                                   *)
ResumeUnpatched(p) ==
    /\ At(p, "resume")
    /\ Requires(p, /\ evaluator[Task(p)].origin = "registered"
                   /\ evaluator[Task(p)].head = {Base(p)}, "inspect")
    /\ OnlyMoves

ResumeForward(p) ==
    /\ At(p, "resume")
    /\ Requires(p, /\ evaluator[Task(p)].origin = "registered"
                   /\ evaluator[Task(p)].head = {Base(p)}
                   /\ provisioner[p].patch \cap evaluator[Task(p)].delta = {}, "inspect")
    /\ OnlyMoves

ResumeByApplying(p) ==
    /\ At(p, "resume")
    /\ Requires(p, /\ evaluator[Task(p)].origin = "registered"
                   /\ evaluator[Task(p)].head = {Base(p)},
                IF provisioner[p].patch \subseteq evaluator[Task(p)].delta
                THEN "inspect" ELSE "apply")
    /\ OnlyMoves

Resume(p) ==
    /\ At(p, "resume")
    /\ Requires(p, /\ evaluator[Task(p)].origin = "registered"
                   /\ evaluator[Task(p)].head = {Base(p)}
                   /\ IF provisioner[p].patch = {}
                      THEN evaluator[Task(p)].delta = {}
                      ELSE provisioner[p].patch \subseteq evaluator[Task(p)].delta,
                "inspect")
    /\ OnlyMoves

(* What `git diff` lists must be nothing for an empty patch, and something *)
(* for any other.  Then comes the next task.                               *)
Inspect(p) ==
    LET run == [provisioner[p] EXCEPT !.patch = {}]
        changed == evaluator[Task(p)].delta \ Created
        passes == (provisioner[p].patch = {}) <=> (changed = {})
        last == run.task = Len(TaskIds)
    IN  /\ At(p, "inspect")
        /\ provisioner' = [provisioner EXCEPT ![p] =
               IF ~passes THEN Refuse(run)
               ELSE IF last THEN [run EXCEPT !.at = "returned"]
               ELSE [run EXCEPT !.at = "load", !.task = @ + 1]]
        /\ settled' = (settled \/ (passes /\ last /\ ManifestVerified(Selected(p))))
        /\ UNCHANGED <<materialVars, checkouts>>

(* A git command that fails or takes too long, or the death of the         *)
(* process.                                                                *)
Stops(p) ==
    /\ provisioner[p].at \notin Outside
    /\ provisioner' = [provisioner EXCEPT ![p] = NotRunning]
    /\ OnlyMoves

Provisions(p) ==
    \/ Begin(p) \/ VerifyTask(p) \/ LoadProjections(p)
    \/ LookForFunctional(p) \/ GitInit(p) \/ GitRemoteAdd(p) \/ GitCheckout(p)
    \/ AssertFunctional(p)
    \/ LookForEvaluator(p) \/ BeginClone(p) \/ EndClone(p) \/ SetUrl(p)
    \/ AssertEvaluator(p) \/ ApplyPatch(p)
    \/ Resume(p) \/ Inspect(p) \/ Stops(p)

-----------------------------------------------------------------------------
(* Between two calls of provision_bed the checkouts are worked in: a file  *)
(* is changed or put back.                                                 *)
Toggle(delta, path) == IF path \in delta THEN delta \ {path} ELSE delta \cup {path}

Edit ==
    /\ \A p \in Provisioners : provisioner[p].at = "idle"
    /\ \E t \in Tasks, path \in Edited :
          \/ /\ functional[t].head # {}
             /\ functional' = [functional EXCEPT ![t].delta = Toggle(@, path)]
             /\ UNCHANGED evaluator
          \/ /\ evaluator[t].head # {}
             /\ evaluator' = [evaluator EXCEPT ![t].delta = Toggle(@, path)]
             /\ UNCHANGED functional
    /\ settled' = FALSE
    /\ UNCHANGED <<materialVars, provisioner>>

Exits(p) ==
    /\ provisioner[p].at \in {"returned", "refused"}
    /\ provisioner' = [provisioner EXCEPT ![p] = NotRunning]
    /\ OnlyMoves

Material ==
    /\ MaterialNext
    /\ settled' = (settled /\ registration' = registration)
    /\ provisioner' = [p \in Provisioners |->
           [provisioner[p] EXCEPT !.settled = @ /\ registration' = registration]]
    /\ UNCHANGED checkouts

Next ==
    \/ Material
    \/ Edit
    \/ \E p \in Provisioners : Provisions(p) \/ Exits(p)

Spec == Init /\ [][Next]_vars

-----------------------------------------------------------------------------
(* Properties.                                                             *)

(* The checkouts of a task, as a record asks for them.                     *)
Provisioned(t, record) ==
    /\ functional[t] = Pristine(record.base_commit)
    /\ evaluator[t] = [Pristine(record.base_commit) EXCEPT !.delta = evaluator[t].delta]
    /\ record.test_patch \subseteq evaluator[t].delta
    /\ record.test_patch = {} => evaluator[t].delta = {}

(* When provision_bed returns, and the registration it verified is still   *)
(* in force, every functional checkout is the registered commit and        *)
(* nothing else, and every evaluator checkout is at that commit with at    *)
(* least the registered test patch: no checkout is accepted half made,     *)
(* whether a crash left it so or another provisioner is at work in it.     *)
(* The evaluator's is promised to have nothing else (see                   *)
(* EvaluatorHoldsOnlyThePatch), which the code does not ask of a checkout  *)
(* that it finds, unless the patch is empty.                               *)
ReturnedIsProvisioned ==
    \A p \in Provisioners :
        At(p, "returned") /\ ManifestVerified(Selected(p)) =>
            \A t \in Tasks : Provisioned(t, RecordIn(Selected(p), t))

(* "The separate evaluator checkout has only the registered test patch     *)
(* applied", when provision_bed returns for the registration in force.     *)
EvaluatorHoldsOnlyThePatch ==
    \A p \in Provisioners :
        At(p, "returned") /\ ManifestVerified(Selected(p)) =>
            \A t \in Tasks : evaluator[t].delta = RecordIn(Selected(p), t).test_patch

(* It is so of a checkout that is made now: the provisioner that cloned it *)
(* and applied the patch it had read leaves the registered commit with     *)
(* that patch, all of it and nothing else, whoever else found no checkout  *)
(* when it did.                                                            *)
FreshHoldsOnlyThePatch ==
    [][\A p \in Provisioners :
          At(p, "apply") /\ provisioner'[p].at = "inspect" =>
              evaluator'[Task(p)] =
                  [Pristine(Base(p)) EXCEPT !.delta = provisioner[p].patch]]_vars

(* A bed that was provisioned, and that nobody edited, is never refused    *)
(* later: what the first call leaves passes the other checks of the next.  *)
SettledIsNotRefused ==
    \A p \in Provisioners : At(p, "refused") => ~provisioner[p].settled

(* Nothing that was changed in a checkout is ever lost to a provisioner:   *)
(* unless it is edited (which happens while nobody provisions), a born     *)
(* HEAD stays where it is and a path that differs from it stays different. *)
Preserved(before, after) ==
    /\ before.head \subseteq after.head
    /\ before.head # {} => before.delta \subseteq after.delta

WorkIsNeverLost ==
    [][(\E p \in Provisioners : provisioner[p].at # "idle") =>
          \A t \in Tasks : /\ Preserved(functional[t], functional'[t])
                           /\ Preserved(evaluator[t], evaluator'[t])]_vars

=============================================================================
