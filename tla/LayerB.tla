------------------------------- MODULE LayerB -------------------------------
(***************************************************************************)
(* .github/workflows/iso-smoke.yml, the job that builds, inspects and      *)
(* boots the media on a fresh runner, with the commands it composes:       *)
(* record-failure.sh, build-iso.sh, strict inspection, the boot smoke,     *)
(* evidence assembly (__main__._cmd_evidence, evidence.py) and the closure *)
(* gate (closure.py).  A step may fail or be cancelled, which skips the    *)
(* later steps except those marked "if: always()".                         *)
(***************************************************************************)
EXTENDS Naturals, Sequences

CONSTANTS Absent,  \* no file, no step output
          Torn     \* a JSON file whose write was cut short

VARIABLES
    at,         \* index of the next step
    failed,     \* did a step fail, or was the job cancelled?
    first,      \* ghost: what failed first
    stageFile,  \* dist/.failure_stage
    pinned,     \* has "Record pinned base metadata" run?
    installed,  \* is the serein package importable?
    base,       \* cache/upstream: Absent, "good", "bad"
    actual,     \* steps.base-sha.outputs.actual: the hash of that file
    outcome,    \* steps.build.outcome
    real,       \* ghost: per stage of run_build, "never" begun, "begun" or "done"
    marker,     \* dist/build-stage-status.json
    iso,        \* per variant: Absent, "good", "bad"
    man,        \* per variant, its manifest: Absent, "whole", Torn
    inspected,  \* per variant, the step's status output
    smoked,     \* dist/boot-smoke-result.json: Absent, Torn, "pass", "fail"
    smokeOut,   \* the smoke step's status output
    booted,     \* ghost: did the QA system reach a boot target under UEFI?
    evidence,   \* dist/s7-0-layer-b-evidence.json
    gate        \* what the closure gate said

vars == <<at, failed, first, stageFile, pinned, installed, base, actual, outcome, real,
          marker, iso, man, inspected, smoked, smokeOut, booted, evidence, gate>>

Variants == {"prod", "qa"}
Pass == "pass"
Fail == "fail"
NotPerformed == "not_performed"
Statuses == {Pass, Fail, NotPerformed}

StageNames == <<"production_build", "qa_transition", "qa_build">>
Stages == {StageNames[i] : i \in 1..3}

Steps == <<"setup", "preflight", "fetch", "verify", "baseSha", "elTorito", "build",
           "inspectProd", "inspectQa", "smoke", "evidence", "gate">>
Always == {"inspectProd", "inspectQa", "smoke", "evidence", "gate"}

\* The status run_build writes, with the failure_stage it names.
Marker(production, transition, build, stage) ==
    [production_build |-> production, qa_transition |-> transition,
     qa_build |-> build, failure_stage |-> stage]

Init ==
    /\ at = 1 /\ failed = FALSE /\ first = "none"
    /\ stageFile = "none" /\ pinned = FALSE /\ installed = FALSE
    /\ base = Absent /\ actual = Absent
    /\ outcome = "skipped" /\ real = [i \in 1..3 |-> "never"] /\ marker = Absent
    /\ iso = [v \in Variants |-> Absent] /\ man = [v \in Variants |-> Absent]
    /\ inspected = [v \in Variants |-> Absent]
    /\ smoked = Absent /\ smokeOut = Absent /\ booted = FALSE
    /\ evidence = Absent /\ gate = "none"

\* What stands for no file and for a torn one is nothing that a file or a step
\* output of the job can hold.
ASSUME SentinelsAssumption ==
    \A sentinel \in {Absent, Torn} :
        /\ sentinel \notin Statuses \cup {"good", "bad", "whole"}
        /\ sentinel \notin [production_build : Statuses, qa_transition : Statuses,
                            qa_build : Statuses, failure_stage : {"none"} \cup Stages]

----------------------------------------------------------------------------
(* The runner                                                              *)

Running(step) ==
    /\ at <= Len(Steps) /\ Steps[at] = step
    /\ failed => step \in Always
    /\ at' = at + 1

\* A step ends; a failing one calls record-failure.sh with its stage first,
\* unless it has none ("none") or the script itself fails.
Succeed == UNCHANGED <<failed, first, stageFile>>

\* Mutant: the latest failure overwrites the recorded one.
RecordLast(stage) == stageFile' = stage

\* record-failure.sh: the first failure wins.
Record(stage) == stageFile' = IF stageFile = "none" THEN stage ELSE stageFile

FailAs(stage) ==
    /\ failed' = TRUE
    /\ first' = IF first # "none" THEN first
                ELSE IF stage = "none" THEN "unrecorded" ELSE stage
    /\ IF stage = "none" THEN UNCHANGED stageFile ELSE Record(stage)

\* A step that is not "if: always()" is skipped once the job has failed.
Skip ==
    /\ at <= Len(Steps) /\ failed /\ Steps[at] \notin Always
    /\ at' = at + 1
    /\ UNCHANGED <<failed, first, stageFile, pinned, installed, base, actual, outcome,
                   real, marker, iso, man, inspected, smoked, smokeOut, booted, evidence,
                   gate>>

----------------------------------------------------------------------------
(* Up to the build                                                         *)

\* Exact-head checkout, pinned base metadata, package installation.
Setup ==
    /\ Running("setup")
    /\ \/ Succeed /\ pinned' = TRUE /\ installed' = TRUE
       \/ FailAs("none") /\ pinned' \in BOOLEAN /\ installed' = FALSE
    /\ UNCHANGED <<base, actual, outcome, real, marker, iso, man, inspected, smoked,
                   smokeOut, booted, evidence, gate>>

Preflight ==
    /\ Running("preflight")
    /\ Succeed \/ FailAs("disk_preflight")
    /\ UNCHANGED <<pinned, installed, base, actual, outcome, real, marker, iso, man,
                   inspected, smoked, smokeOut, booted, evidence, gate>>

FetchBase ==
    /\ Running("fetch")
    /\ \/ Succeed /\ base' \in {"good", "bad"}
       \/ FailAs("base_fetch") /\ base' \in {Absent, "bad"}
    /\ UNCHANGED <<pinned, installed, actual, outcome, real, marker, iso, man, inspected,
                   smoked, smokeOut, booted, evidence, gate>>

VerifyBase ==
    /\ Running("verify")
    /\ IF base = "good" THEN Succeed \/ FailAs("base_verification")
                        ELSE FailAs("base_verification")
    /\ UNCHANGED <<pinned, installed, base, actual, outcome, real, marker, iso, man,
                   inspected, smoked, smokeOut, booted, evidence, gate>>

RecordBaseSha ==
    /\ Running("baseSha")
    /\ \/ Succeed /\ actual' = base
       \/ FailAs("none") /\ UNCHANGED actual
    /\ UNCHANGED <<pinned, installed, base, outcome, real, marker, iso, man, inspected,
                   smoked, smokeOut, booted, evidence, gate>>

SaveElTorito ==
    /\ Running("elTorito")
    /\ Succeed \/ FailAs("base_el_torito_report")
    /\ UNCHANGED <<pinned, installed, base, actual, outcome, real, marker, iso, man,
                   inspected, smoked, smokeOut, booted, evidence, gate>>

----------------------------------------------------------------------------
(* build-iso.sh: how one run of the pipeline (BuildPipeline) can end        *)

Built(production, qa) == [v \in Variants |-> IF v = "prod" THEN production ELSE qa]

\* It returned: both ISOs are there, or the QA transition was blocked.  An
\* ISO may still be wrong in content ("bad"): that is for the inspector.
BuildDone ==
    /\ Running("build")
    /\ outcome' = "success"
    /\ iso' \in {Built("good", "good"), Built("bad", "bad"), Built("good", Absent)}
    /\ man' = [v \in Variants |-> IF iso'[v] = Absent THEN Absent ELSE "whole"]
    /\ marker' = IF iso'["qa"] = Absent
                   THEN Marker(Pass, Fail, NotPerformed, "qa_transition")
                   ELSE Marker(Pass, Pass, Pass, "none")
    /\ real' = IF iso'["qa"] = Absent THEN <<"done", "begun", "never">>
                                      ELSE <<"done", "done", "done">>
    /\ first' = IF iso'["qa"] = Absent THEN "qa_transition" ELSE first
    /\ UNCHANGED <<failed, stageFile, pinned, installed, base, actual, inspected, smoked,
                   smokeOut, booted, evidence, gate>>

\* It failed before run_build's first try block: verify-base of build-iso.sh,
\* the base image contract, or the workspace reset.
BuildRefused ==
    /\ Running("build")
    /\ FailAs("production_or_qa_build") /\ outcome' = "failure"
    /\ UNCHANGED <<pinned, installed, base, actual, real, marker, iso, man, inspected,
                   smoked, smokeOut, booted, evidence, gate>>

\* The marker of a build whose stages before the k-th passed.
Reported(k, status) ==
    LET stage(i) == IF i < k THEN Pass ELSE IF i = k THEN status ELSE NotPerformed
    IN  Marker(stage(1), stage(2), stage(3), IF status = Fail THEN StageNames[k] ELSE "none")

\* What a build leaves that stops in its k-th stage (4: with all of them done).
\* It has not said so if it was killed, if the QA transition raised something
\* run_build does not catch, or if the marker could not be opened; a marker
\* write can also be cut short.
Stopped(k, said) ==
    \E left \in {<<Absent, Absent>>, <<"bad", Absent>>, <<"bad", Torn>>} \cup
                (IF said THEN {} ELSE {<<"good", "whole">>}) :
        LET prod == IF k = 1 THEN left ELSE <<"good", "whole">>
            qa   == IF k = 4 THEN <<"good", "whole">> ELSE
                    IF k = 3 THEN left ELSE <<Absent, Absent>>
        IN  /\ iso' = Built(prod[1], qa[1])
            /\ man' = Built(prod[2], qa[2])
            /\ marker' \in {Torn, IF said THEN Reported(k, Fail)
                                  ELSE IF k = 1 THEN Absent ELSE Reported(k, NotPerformed)}
            /\ real' = [i \in 1..3 |-> IF i < k \/ (i = k /\ left[1] = "good") THEN "done"
                                       ELSE IF i = k THEN "begun" ELSE "never"]

StoppedAnywhere == Stopped(4, FALSE) \/ \E k \in 1..3, said \in BOOLEAN : Stopped(k, said)

BuildFailed ==
    /\ Running("build")
    /\ FailAs("production_or_qa_build") /\ outcome' = "failure"
    /\ StoppedAnywhere
    /\ UNCHANGED <<pinned, installed, base, actual, inspected, smoked, smokeOut, booted,
                   evidence, gate>>

\* The job is cancelled while it builds: nothing is recorded.
BuildCancelled ==
    /\ Running("build")
    /\ FailAs("none") /\ outcome' = "cancelled"
    /\ StoppedAnywhere \/ UNCHANGED <<marker, iso, man, real>>
    /\ UNCHANGED <<pinned, installed, base, actual, inspected, smoked, smokeOut, booted,
                   evidence, gate>>

----------------------------------------------------------------------------
(* Inspection and boot smoke                                               *)

\* On a full disk neither the status output nor the failure stage is written.
Inspect(step, v, stage) ==
    /\ Running(step)
    /\ IF iso[v] = Absent
         THEN Succeed /\ inspected' = [inspected EXCEPT ![v] = NotPerformed]
         ELSE \/ /\ iso[v] = "good" /\ Succeed
                 /\ inspected' = [inspected EXCEPT ![v] = Pass]
              \/ /\ FailAs(stage)
                 /\ inspected' = [inspected EXCEPT ![v] = Fail]
              \/ FailAs("none") /\ UNCHANGED inspected
    /\ UNCHANGED <<pinned, installed, base, actual, outcome, real, marker, iso, man,
                   smoked, smokeOut, booted, evidence, gate>>

InspectProduction == Inspect("inspectProd", "prod", "production_inspection")
InspectQa == Inspect("inspectQa", "qa", "qa_inspection")

\* boot-smoke.sh --require-uefi: without firmware it stops before writing any
\* result; a result may also be cut short.
Smoke ==
    /\ Running("smoke")
    /\ IF iso["qa"] = Absent
         THEN Succeed /\ smokeOut' = NotPerformed /\ UNCHANGED <<smoked, booted>>
         ELSE \/ /\ Succeed /\ smokeOut' = Pass /\ smoked' = Pass /\ booted' = TRUE
              \/ /\ FailAs("qemu_boot") /\ smokeOut' = Fail
                 /\ smoked' \in {Absent, Torn, Fail} /\ UNCHANGED booted
              \/ /\ FailAs("none") /\ UNCHANGED smokeOut
                 /\ smoked' \in {Absent, Torn, Fail, Pass} /\ booted' = (smoked' = Pass)
    /\ UNCHANGED <<pinned, installed, base, actual, outcome, real, marker, iso, man,
                   inspected, evidence, gate>>

----------------------------------------------------------------------------
(* Evidence and closure                                                    *)

OrNotPerformed(output) == IF output = Absent THEN NotPerformed ELSE output

\* The workflow's reading of the build step's outcome.
Fallback ==
    CASE outcome = "success" -> Marker(Pass, Pass, IF man["qa"] = Absent THEN Fail ELSE Pass,
                                       stageFile)
      [] outcome = "failure" -> Marker(Fail, NotPerformed, NotPerformed, stageFile)
      [] OTHER -> Marker(NotPerformed, NotPerformed, NotPerformed, stageFile)

\* Mutant: the marker only adds the failure stage.
StagesFromOutcome ==
    [Fallback EXCEPT !.failure_stage =
        IF marker = Absent \/ marker.failure_stage = "none" THEN stageFile
        ELSE marker.failure_stage]

\* The marker overrides it, and the recorded stage when it names one.
StagesFromMarker ==
    IF marker = Absent THEN Fallback
    ELSE [marker EXCEPT !.failure_stage = IF @ = "none" THEN stageFile ELSE @]

BaseVerified == pinned /\ actual = "good"

\* json.loads meets every file that exists; a torn one ends the command.
Readable == installed /\ Torn \notin {marker, man["prod"], man["qa"], smoked}

AssembleEvidence ==
    /\ Running("evidence")
    /\ IF Readable
         THEN /\ Succeed
              /\ evidence' =
                   [base_verified |-> BaseVerified,
                    production_build |-> StagesFromMarker.production_build,
                    production_inspection |-> OrNotPerformed(inspected["prod"]),
                    qa_transition |-> StagesFromMarker.qa_transition,
                    qa_build |-> StagesFromMarker.qa_build,
                    qa_inspection |-> OrNotPerformed(inspected["qa"]),
                    qemu_boot |-> IF smoked # Absent THEN smoked ELSE OrNotPerformed(smokeOut),
                    failure_stage |-> StagesFromMarker.failure_stage]
         ELSE FailAs("none") /\ UNCHANGED evidence
    /\ UNCHANGED <<pinned, installed, base, actual, outcome, real, marker, iso, man,
                   inspected, smoked, smokeOut, booted, gate>>

\* Mutant: the production stages decide.
ClosedOnProduction ==
    /\ evidence # Absent
    /\ evidence.base_verified
    /\ evidence.production_build = Pass /\ evidence.production_inspection = Pass

\* enforce_layer_b_closure.
Closed ==
    /\ evidence # Absent
    /\ evidence.base_verified
    /\ \A field \in {"production_build", "production_inspection", "qa_transition",
                     "qa_build", "qa_inspection", "qemu_boot"} : evidence[field] = Pass

EnforceClosure ==
    /\ Running("gate")
    /\ IF Closed THEN Succeed /\ gate' = Pass ELSE FailAs("none") /\ gate' = Fail
    /\ UNCHANGED <<pinned, installed, base, actual, outcome, real, marker, iso, man,
                   inspected, smoked, smokeOut, booted, evidence>>

Job ==
    \/ Skip \/ Setup \/ Preflight \/ FetchBase \/ VerifyBase \/ RecordBaseSha
    \/ SaveElTorito \/ BuildDone \/ BuildRefused \/ BuildFailed \/ BuildCancelled
    \/ InspectProduction \/ InspectQa \/ Smoke \/ AssembleEvidence \/ EnforceClosure

Next == Job

Spec == Init /\ [][Next]_vars

----------------------------------------------------------------------------
(* Properties                                                              *)

Finished == at = Len(Steps) + 1

\* A green job means the real thing: the pinned base image was downloaded and
\* hashed, both ISOs of this run are there and passed inspection, and the QA
\* system reached a boot target under UEFI.
GreenJobIsReal ==
    (Finished /\ ~failed) =>
        /\ gate = Pass /\ actual = "good"
        /\ iso = [v \in Variants |-> "good"]
        /\ inspected = [v \in Variants |-> Pass]
        /\ booted

\* Even in a red job no evidence field claims a pass that did not happen.
EvidencePassIsFact ==
    evidence # Absent =>
        /\ evidence.base_verified => base = "good"
        /\ \A i \in 1..3 : evidence[StageNames[i]] = Pass => real[i] = "done"
        /\ evidence.production_inspection = Pass => iso["prod"] = "good"
        /\ evidence.qa_inspection = Pass => iso["qa"] = "good"
        /\ evidence.qemu_boot = Pass => booted

\* What the evidence blames is what failed first: the recorded stage, refined
\* for the build step by the stage its marker names.
EvidenceBlamesFirst ==
    (evidence # Absent /\ first \notin {"none", "unrecorded"}) =>
        evidence.failure_stage =
            (IF first = "production_or_qa_build" /\ marker # Absent
                  /\ marker.failure_stage # "none"
               THEN marker.failure_stage ELSE first)

=============================================================================
