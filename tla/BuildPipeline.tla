--------------------------- MODULE BuildPipeline ---------------------------
(***************************************************************************)
(* serein.distribution.build.run_build: one build verifies the cached base *)
(* ISO, extracts it, overlays it, builds and embeds the wheel and the      *)
(* payload, rebuilds the production ISO, patches the SAME tree into QA     *)
(* boot form, rebuilds the QA ISO, and records what it settled in          *)
(* build-stage-status.json.  Builds follow one another in one workspace    *)
(* (cache/upstream, build/work, dist), which each of them inherits as the  *)
(* previous one left it; any of them may fail at any step or be killed.    *)
(*                                                                         *)
(* File contents are abstracted to the revision of the repository they     *)
(* come from and to the builds that wrote them.                            *)
(***************************************************************************)
EXTENDS Naturals, FiniteSets

CONSTANTS Revisions,     \* contents the repository's working tree can have
          WheelRank,     \* position of a revision's wheel file name in sorted order
          MaxRuns,       \* bound: how many builds are started
          EditInFlight,  \* may the working tree change while a build runs?
          None,          \* an absent file or field
          Torn           \* a file whose write was cut short

ASSUME ConstantsAssumption ==
    /\ Revisions # {}
    /\ WheelRank \in [Revisions -> Nat]
    /\ MaxRuns \in Nat
    /\ EditInFlight \in BOOLEAN
    /\ None \notin Revisions

VARIABLES
    head,     \* revision the working tree holds
    base,     \* the cached base ISO: "absent", "bad" (not the pinned bytes), "good"
    tree,     \* build/work/extracted
    wheels,   \* build/work/wheel: file-name rank -> revision of the wheel there
    iso,      \* dist/*.iso per variant
    man,      \* dist/*.iso.manifest.json per variant
    sha,      \* dist/*.iso.sha256 per variant
    marker,   \* dist/build-stage-status.json (its field "by" is a ghost)
    pc,       \* next statement of run_build, "idle" between builds
    run,      \* the current (or last) build's arguments, and its number
    target,   \* the variant being rebuilt
    local,    \* run_build's wheel_path and payload hashes
    pending,  \* the marker about to be written and where control goes then
    outcome   \* how the last build ended

artifacts == <<iso, man, sha>>
vars == <<head, base, tree, wheels, artifacts, marker,
          pc, run, target, local, pending, outcome>>

----------------------------------------------------------------------------
(* Contents                                                                *)

Variants == {"prod", "qa"}
Ranks    == {WheelRank[r] : r \in Revisions}
MaybeRevision == Revisions \cup {None}

\* An extraction tree, and so the content of an ISO rebuilt from it.
Trees == [runs    : SUBSET (1..MaxRuns),         \* the builds whose files are in it
          intact  : BOOLEAN,                     \* no file cut short or corrupted
          boot    : {"none", "upstream", "qa"},  \* the GRUB configuration
          overlay : MaybeRevision,
          res     : MaybeRevision,               \* payload resources
          wheel   : MaybeRevision,               \* payload wheel
          sums    : MaybeRevision,               \* what payload-manifest.json hashes
          commit  : MaybeRevision]               \* source_commit in manifest.json

EmptyTree == [runs |-> {}, intact |-> TRUE, boot |-> "none", overlay |-> None,
              res |-> None, wheel |-> None, sums |-> None, commit |-> None]

Manifests == [commit : Revisions, iso : Trees]

Pass == "pass"
Fail == "fail"
NotPerformed == "not_performed"
Statuses == {Pass, Fail, NotPerformed}
Stages(production, transition, build) ==
    [production_build |-> production, qa_transition |-> transition, qa_build |-> build]
StageRecords == [production_build : Statuses, qa_transition : Statuses,
                 qa_build : Statuses]
Markers == [by : 1..MaxRuns, stages : StageRecords]

ASSUME NotAFile ==
    /\ None # Torn
    /\ {None, Torn} \cap (Trees \cup Manifests \cup Markers) = {}

\* load_build_stage_status of an absent file.
NothingPerformed == Stages(NotPerformed, NotPerformed, NotPerformed)

\* The statements inside the two try blocks that record a failure.
ProductionTry == {"extract", "report", "overlay", "wheel", "collect", "copy", "stamp"}
RebuildTry    == {"rebuild", "manifest", "sidecar"}
Labels == ProductionTry \cup RebuildTry \cup
          {"idle", "verify", "reset", "mark", "transition", "release"}

\* The statements that run xorriso, which opens the base ISO (the rebuilds
\* through the --interval:local_fs options of the replayed El Torito report).
XorrisoLabels == {"extract", "report", "rebuild"}

----------------------------------------------------------------------------
Init ==
    /\ head \in Revisions
    /\ base \in {"absent", "bad", "good"}
    /\ tree = EmptyTree
    /\ wheels = [k \in Ranks |-> None]
    /\ iso = [v \in Variants |-> None]
    /\ man = [v \in Variants |-> None]
    /\ sha = [v \in Variants |-> None]
    /\ marker = None
    /\ pc = "idle"
    /\ run = [n |-> 0, commit |-> None, ephemeral |-> FALSE, qa |-> FALSE]
    /\ target = "prod"
    /\ local = [wheel |-> None, sums |-> None]
    /\ pending = [stages |-> NothingPerformed, next |-> "idle", at |-> "idle"]
    /\ outcome = [how |-> "none", at |-> "idle"]

----------------------------------------------------------------------------
(* The environment                                                         *)

\* fetch-base-image.sh, or a damaged download put in place by hand.
Fetch ==
    /\ pc = "idle" /\ base = "absent"
    /\ base' \in {"bad", "good"}
    /\ UNCHANGED <<head, tree, wheels, artifacts, marker, pc, run, target, local,
                   pending, outcome>>

\* The working tree changes: a checkout, or an edit under a running build.
Checkout ==
    /\ pc = "idle" \/ EditInFlight
    /\ head' \in Revisions \ {head}
    /\ UNCHANGED <<base, tree, wheels, artifacts, marker, pc, run, target, local,
                   pending, outcome>>

\* clean.sh removes build/, and with --all cache/upstream/ as well.
Clean ==
    /\ pc = "idle"
    /\ tree' = EmptyTree
    /\ wheels' = [k \in Ranks |-> None]
    /\ base' \in {base, "absent"}
    /\ UNCHANGED <<head, artifacts, marker, pc, run, target, local, pending, outcome>>

----------------------------------------------------------------------------
(* Control flow                                                            *)

\* run_build is called for the revision that is checked out.
StartBuild ==
    /\ pc = "idle" /\ run.n < MaxRuns
    /\ run' \in [n : {run.n + 1}, commit : {head}, ephemeral : BOOLEAN, qa : BOOLEAN]
    /\ pc' = "verify"
    /\ target' = "prod"
    /\ local' = [wheel |-> None, sums |-> None]
    /\ outcome' = [how |-> "none", at |-> "idle"]
    /\ UNCHANGED <<head, base, tree, wheels, artifacts, marker, pending>>

End(how, at) == pc' = "idle" /\ outcome' = [how |-> how, at |-> at]

\* Execution reaches _write_stage_status(status); then it continues at next.
Mark(status, next) ==
    /\ pc' = "mark"
    /\ pending' = [stages |-> status, next |-> next, at |-> pc]

----------------------------------------------------------------------------
(* One action per statement of run_build                                   *)

Verify ==
    /\ pc = "verify" /\ base = "good"
    /\ pc' = "reset"
    /\ UNCHANGED <<head, base, tree, wheels, artifacts, marker, run, target, local,
                   pending, outcome>>

\* Mutant: an existing extraction tree is kept.
ResetKeepsTree ==
    /\ pc = "reset"
    /\ pc' = "extract"
    /\ UNCHANGED <<head, base, tree, wheels, artifacts, marker, run, target, local,
                   pending, outcome>>

ResetExtractedWorkspace ==
    /\ pc = "reset"
    /\ tree' = EmptyTree
    /\ pc' = "extract"
    /\ UNCHANGED <<head, base, wheels, artifacts, marker, run, target, local, pending,
                   outcome>>

Extract ==
    /\ pc = "extract" /\ base = "good"
    /\ tree' = [tree EXCEPT !.runs = @ \cup {run.n}, !.boot = "upstream"]
    /\ pc' = "report"
    /\ UNCHANGED <<head, base, wheels, artifacts, marker, run, target, local, pending,
                   outcome>>

ReportElTorito ==
    /\ pc = "report" /\ base = "good"
    /\ pc' = "overlay"
    /\ UNCHANGED <<head, base, tree, wheels, artifacts, marker, run, target, local,
                   pending, outcome>>

ApplyOverlay ==
    /\ pc = "overlay"
    /\ tree' = [tree EXCEPT !.overlay = head]
    /\ pc' = "wheel"
    /\ UNCHANGED <<head, base, wheels, artifacts, marker, run, target, local, pending,
                   outcome>>

\* The wheel that sorted(target_dir.glob("*.whl"))[-1] names.
IsLast(k, files) ==
    /\ files[k] # None
    /\ \A j \in Ranks : files[j] # None => j <= k

BuildWheel ==
    /\ pc = "wheel"
    /\ wheels' = [wheels EXCEPT ![WheelRank[head]] = head]
    /\ \E k \in Ranks : IsLast(k, wheels') /\ local' = [local EXCEPT !.wheel = wheels'[k]]
    /\ pc' = "collect"
    /\ UNCHANGED <<head, base, tree, artifacts, marker, run, target, pending, outcome>>

\* collect_resource_artifacts hashes the resources where they are.
CollectPayload ==
    /\ pc = "collect"
    /\ local' = [local EXCEPT !.sums = head]
    /\ pc' = "copy"
    /\ UNCHANGED <<head, base, tree, wheels, artifacts, marker, run, target, pending,
                   outcome>>

\* The copy loop reads every resource a second time.
CopyPayload ==
    /\ pc = "copy"
    /\ tree' = [tree EXCEPT !.res = head, !.wheel = local.wheel]
    /\ pc' = "stamp"
    /\ UNCHANGED <<head, base, wheels, artifacts, marker, run, target, local, pending,
                   outcome>>

\* Mutant: the media records what is checked out now.
StampTreeWithHead ==
    /\ pc = "stamp"
    /\ tree' = [tree EXCEPT !.sums = local.sums, !.commit = head]
    /\ pc' = "rebuild"
    /\ UNCHANGED <<head, base, wheels, artifacts, marker, run, target, local, pending,
                   outcome>>

\* payload-manifest.json and manifest.json of the media.
StampTree ==
    /\ pc = "stamp"
    /\ tree' = [tree EXCEPT !.sums = local.sums, !.commit = run.commit]
    /\ pc' = "rebuild"
    /\ UNCHANGED <<head, base, wheels, artifacts, marker, run, target, local, pending,
                   outcome>>

Rebuild ==
    /\ pc = "rebuild" /\ base = "good"
    /\ iso' = [iso EXCEPT ![target] = tree]
    /\ pc' = "manifest"
    /\ UNCHANGED <<head, base, tree, wheels, man, sha, marker, run, target, local,
                   pending, outcome>>

\* Mutant: the hash is taken from the sidecar that is already in dist/.
WriteManifestFromSidecar ==
    /\ pc = "manifest"
    /\ man' = [man EXCEPT ![target] = [commit |-> run.commit, iso |-> sha[target]]]
    /\ pc' = "sidecar"
    /\ UNCHANGED <<head, base, tree, wheels, iso, sha, marker, run, target, local,
                   pending, outcome>>

\* assemble_build_manifest hashes the ISO on disk; then the JSON is written.
WriteManifest ==
    /\ pc = "manifest"
    /\ man' = [man EXCEPT ![target] = [commit |-> run.commit, iso |-> iso[target]]]
    /\ pc' = "sidecar"
    /\ UNCHANGED <<head, base, tree, wheels, iso, sha, marker, run, target, local,
                   pending, outcome>>

AfterProduction == IF run.qa THEN "transition" ELSE "release"

\* Mutant: an ephemeral build releases the base image with the production ISO.
WriteSidecarReleasing ==
    /\ pc = "sidecar"
    /\ sha' = [sha EXCEPT ![target] = man[target].iso]
    /\ base' = IF run.ephemeral THEN "absent" ELSE base
    /\ IF target = "prod"
         THEN Mark(Stages(Pass, NotPerformed, NotPerformed), AfterProduction)
         ELSE Mark(Stages(Pass, Pass, Pass), "release")
    /\ UNCHANGED <<head, tree, wheels, iso, man, marker, run, target, local, outcome>>

WriteSidecar ==
    /\ pc = "sidecar"
    /\ sha' = [sha EXCEPT ![target] = man[target].iso]
    /\ IF target = "prod"
         THEN Mark(Stages(Pass, NotPerformed, NotPerformed), AfterProduction)
         ELSE Mark(Stages(Pass, Pass, Pass), "release")
    /\ UNCHANGED <<head, base, tree, wheels, iso, man, marker, run, target, local,
                   outcome>>

\* How the call of transition_to_qa_in_place can leave the tree, and what is
\* recorded; the QA rebuild follows only a transition that returned.
Transition(patched, stages, next) ==
    /\ pc = "transition"
    /\ tree' = patched
    /\ target' = IF next = "rebuild" THEN "qa" ELSE target
    /\ Mark(stages, next)
    /\ UNCHANGED <<head, base, wheels, artifacts, marker, run, local, outcome>>

QaTree == [tree EXCEPT !.boot = "qa"]

\* Mutant: the QA build is called passed when it is about to begin.
TransitionDoneClaimsBuild ==
    Transition(QaTree, Stages(Pass, Pass, Pass), "rebuild")

\* Mutant: the payload is copied again into the QA tree.
TransitionDoneCopiesAgain ==
    Transition([QaTree EXCEPT !.res = head], Stages(Pass, Pass, NotPerformed),
               "rebuild")

\* It returns: only the boot configuration and its checksum changed.
TransitionDone == Transition(QaTree, Stages(Pass, Pass, NotPerformed), "rebuild")

\* Mutant: the before/after comparison is not made.
TransitionUnchecked ==
    Transition([QaTree EXCEPT !.intact = FALSE],
               Stages(Pass, Pass, NotPerformed), "rebuild")

\* QaProtectedFileMutationError: a protected file changed under the transition.
TransitionUnsafe ==
    Transition([QaTree EXCEPT !.intact = FALSE], Stages(Pass, Fail, NotPerformed),
               "raise")

\* QaBootError: before GRUB was patched (no usable menu entry) or after it
\* (the checksum catalog escapes the tree).
TransitionBlocked ==
    \E patched \in {tree, QaTree} :
        Transition(patched, Stages(Pass, Fail, NotPerformed), "release")

WriteStageStatus ==
    /\ pc = "mark"
    /\ marker' = [by |-> run.n, stages |-> pending.stages]
    /\ IF pending.next = "raise"
         THEN End("raised", pending.at)
         ELSE pc' = pending.next /\ UNCHANGED outcome
    /\ UNCHANGED <<head, base, tree, wheels, artifacts, run, target, local, pending>>

\* Mutant: every build releases the base image.
ReleaseAlways ==
    /\ pc = "release"
    /\ base' = "absent"
    /\ End("returned", "release")
    /\ UNCHANGED <<head, tree, wheels, artifacts, marker, run, target, local, pending>>

\* release_base_iso for an ephemeral build; then run_build returns.
Release ==
    /\ pc = "release"
    /\ base' = IF run.ephemeral THEN "absent" ELSE base
    /\ End("returned", "release")
    /\ UNCHANGED <<head, tree, wheels, artifacts, marker, run, target, local, pending>>

----------------------------------------------------------------------------
(* A statement is cut short by an exception or by the end of the process   *)

\* What the statement at pc may already have changed when it is cut short.
Damage ==
    /\ tree' \in {tree} \cup
         (IF pc \in {"reset", "extract", "overlay", "copy", "stamp"}
            THEN {[tree EXCEPT !.intact = FALSE]} ELSE {}) \cup
         (IF pc = "transition"
            THEN {[tree EXCEPT !.intact = FALSE], [tree EXCEPT !.boot = "qa"]} ELSE {})
    /\ wheels' \in {wheels} \cup
         (IF pc = "wheel" THEN {[wheels EXCEPT ![WheelRank[head]] = head]} ELSE {})
    /\ iso' \in {iso} \cup
         (IF pc = "rebuild" THEN {[iso EXCEPT ![target] = Torn]} ELSE {})
    /\ man' \in {man} \cup
         (IF pc = "manifest" THEN {[man EXCEPT ![target] = Torn]} ELSE {})
    /\ sha' \in {sha} \cup
         (IF pc = "sidecar" THEN {[sha EXCEPT ![target] = Torn]} ELSE {})
    /\ marker' \in {marker} \cup (IF pc = "mark" THEN {Torn} ELSE {})
    /\ base' \in {base} \cup
         (IF pc = "release" /\ run.ephemeral THEN {"absent"} ELSE {})

\* Mutant: one status for every failure of a build.
RecordedFailureAsProduction == Stages(Fail, NotPerformed, NotPerformed)

\* What the except clause around the statement at pc records.
RecordedFailure ==
    IF target = "prod" THEN Stages(Fail, NotPerformed, NotPerformed)
                       ELSE Stages(Pass, Pass, Fail)

\* The statement at pc raises; the two try blocks record that and re-raise.
Raise ==
    /\ pc # "idle"
    /\ Damage
    /\ IF pc \in ProductionTry \cup RebuildTry
         THEN Mark(RecordedFailure, "raise") /\ UNCHANGED outcome
         ELSE End("raised", pc) /\ UNCHANGED pending
    /\ UNCHANGED <<head, run, target, local>>

\* The process is killed, or the machine stops.
Kill ==
    /\ pc # "idle"
    /\ Damage
    /\ End("killed", pc)
    /\ UNCHANGED <<head, run, target, local, pending>>

Environment == Fetch \/ Checkout \/ Clean

Statement ==
    \/ Verify \/ ResetExtractedWorkspace \/ Extract \/ ReportElTorito
    \/ ApplyOverlay \/ BuildWheel \/ CollectPayload \/ CopyPayload \/ StampTree
    \/ Rebuild \/ WriteManifest \/ WriteSidecar
    \/ TransitionDone \/ TransitionUnsafe \/ TransitionBlocked
    \/ WriteStageStatus \/ Release

Next == Environment \/ StartBuild \/ Statement \/ Raise \/ Kill

Spec == Init /\ [][Next]_vars

----------------------------------------------------------------------------
(* inspect_iso_file_strict, on the files in dist/                          *)

StrictPassed(v, commit) ==
    /\ iso[v] \notin {None, Torn}
    /\ sha[v] = iso[v]
    /\ man[v] \notin {None, Torn}
    /\ man[v].iso = iso[v] /\ man[v].commit = commit
    /\ iso[v].boot # "none"                         \* El Torito and UEFI evidence
    /\ iso[v].commit = commit                       \* media marker
    /\ iso[v].intact
    /\ iso[v].sums # None /\ iso[v].res = iso[v].sums  \* payload hashes
    /\ iso[v].wheel # None

\* The marker on disk was written by the current (or last) build.
Recorded == marker \notin {None, Torn} /\ marker.by = run.n

----------------------------------------------------------------------------
(* Properties                                                              *)

TypeOK ==
    /\ head \in Revisions
    /\ base \in {"absent", "bad", "good"}
    /\ tree \in Trees
    /\ wheels \in [Ranks -> MaybeRevision]
    /\ iso \in [Variants -> Trees \cup {None, Torn}]
    /\ man \in [Variants -> Manifests \cup {None, Torn}]
    /\ sha \in [Variants -> Trees \cup {None, Torn}]
    /\ marker \in Markers \cup {None, Torn}
    /\ pc \in Labels
    /\ run \in [n : 0..MaxRuns, commit : MaybeRevision, ephemeral : BOOLEAN,
                qa : BOOLEAN]
    /\ target \in Variants
    /\ local \in [wheel : MaybeRevision, sums : MaybeRevision]
    /\ pending \in [stages : StageRecords, next : Labels \cup {"raise"}, at : Labels]
    /\ outcome \in [how : {"none", "returned", "raised", "killed"}, at : Labels]

\* The verified base image is still in the cache whenever a command that
\* reads it is about to run: the QA rebuild too needs it, long after the
\* production ISO is finished (release_base_iso's place in run_build).
BaseOutlivesXorriso == pc \in XorrisoLabels => base = "good"

\* A build deletes the cached base image only when it is ephemeral and the
\* marker it has already written says that no rebuild is left to do:
\* production passed, and the QA variant was built, blocked or not asked for.
\* A failed build keeps it for inspection.
ReleasedOnlyWhenDone ==
    [][(pc # "idle" /\ base' # base) =>
         /\ run.ephemeral /\ Recorded
         /\ marker.stages.production_build = Pass
         /\ run.qa => \/ marker.stages.qa_transition = Fail
                      \/ marker.stages.qa_build = Pass]_vars

\* A stage the marker of this build calls passed left an ISO and sidecars in
\* dist/ that the strict inspector accepts for the recorded commit - at any
\* later moment, whatever fails afterwards.  (Working tree not edited during
\* the build.)
GreenMarkerInspectsGreen ==
    Recorded =>
        /\ marker.stages.production_build = Pass => StrictPassed("prod", run.commit)
        /\ marker.stages.qa_build = Pass => StrictPassed("qa", run.commit)

\* With edits under the running build the inspector may reject a production
\* ISO its build calls passed, but only because a payload file changed between
\* being hashed and being copied (build.py:222 and 232).
RejectedOnlyForMixedPayload ==
    (Recorded /\ marker.stages.production_build = Pass)
        => \/ StrictPassed("prod", run.commit)
           \/ iso["prod"].res # iso["prod"].sums

\* Nothing an earlier build left in the extraction tree reaches an ISO
\* (reset_extracted_workspace).
NoLeftovers ==
    \A v \in Variants :
        iso[v] \notin {None, Torn} => Cardinality(iso[v].runs) = 1

\* The two ISOs of one build differ in the boot configuration only.
QaCarriesProductionPayload ==
    (/\ iso["prod"] \notin {None, Torn}
     /\ iso["qa"] \notin {None, Torn}
     /\ iso["qa"].runs = iso["prod"].runs)
        => [iso["qa"] EXCEPT !.boot = "upstream"] = iso["prod"]

\* When a build ends by itself the marker says how: a build that returned
\* settled all it was asked for, and an exception after the reset, other than
\* one of the marker write itself or of the QA transition, is on record.
OutcomeRecorded ==
    /\ outcome.how = "returned" =>
         /\ Recorded
         /\ marker.stages.production_build = Pass
         /\ run.qa <=> marker.stages.qa_transition # NotPerformed
         /\ marker.stages.qa_transition = Pass <=> marker.stages.qa_build = Pass
         /\ marker.stages.qa_build # Fail
    /\ (/\ outcome.how = "raised"
        /\ outcome.at \in ProductionTry \cup RebuildTry) =>
         /\ Recorded
         /\ marker.stages.production_build = (IF target = "prod" THEN Fail ELSE Pass)
         /\ marker.stages.qa_build = (IF target = "prod" THEN NotPerformed ELSE Fail)

\* The marker evolves as BuildStages promises: each build settles its stages
\* in order, each once, and only a new build starts over.
stageReport ==
    IF marker = None THEN [by |-> 0, stages |-> NothingPerformed]
    ELSE IF marker = Torn THEN Torn ELSE marker

BS == INSTANCE BuildStages WITH Unreadable <- Torn, report <- stageReport
MarkerFollowsStages == BS!Spec

----------------------------------------------------------------------------
(* What the documentation says and the code does not do                    *)

\* iso-build.md:381-387: what a build embeds is determined by its source
\* commit; the wheel in a recorded production ISO is that commit's.
EmbedsOwnWheel ==
    (Recorded /\ marker.stages.production_build = Pass)
        => iso["prod"].wheel = run.commit
=============================================================================
