---------------------------- MODULE LayerBProofs ----------------------------
(***************************************************************************)
(* Theorems about LayerB: whatever fails, is cut short or is cancelled.    *)
(***************************************************************************)
EXTENDS LayerB, TLAPS

Media == {Absent, "good", "bad"}
Outputs == {Absent} \cup Statuses
Markers == [production_build : Statuses, qa_transition : Statuses, qa_build : Statuses,
            failure_stage : {"none"} \cup Stages]

Types ==
    /\ at \in 1..13
    /\ marker \in {Absent, Torn} \cup Markers
    /\ iso \in [Variants -> Media]
    /\ inspected \in [Variants -> Outputs]

\* What has not happened yet when a step begins.
NotYet ==
    /\ at <= 5 => actual = Absent
    /\ at <= 7 => /\ marker = Absent /\ (~failed => first = "none")
                 /\ \A v \in Variants : inspected[v] = Absent
    /\ at <= 10 => smokeOut = Absent
    /\ at <= 11 => evidence = Absent

\* What each report the evidence is assembled from says, happened.
ReportIsTrue ==
    marker \in Markers
    => /\ marker.production_build = Pass => real[1] = "done"
       /\ marker.qa_transition = Pass => real[2] = "done"
       /\ marker.qa_build = Pass => real[3] = "done"
BaseReport == actual = "good" => base = "good"
BuildReport ==
    /\ outcome = "success" => marker \in Markers
    /\ ReportIsTrue
InspectionReports == \A v \in Variants : inspected[v] = Pass => iso[v] = "good"
SmokeReports == (smoked = Pass \/ smokeOut = Pass) => booted

\* The recorded stage is the first failure that has one.  A QA transition that
\* is blocked fails no step: only the marker names it.
Blame ==
    /\ first = "none" => stageFile = "none"
    /\ first \notin {"none", "unrecorded", "qa_transition"} => stageFile = first
    /\ first = "qa_transition"
       => marker \in Markers /\ marker.failure_stage = "qa_transition"
    /\ (marker \in Markers /\ marker.failure_stage # "none")
       => first \in {"production_or_qa_build", "qa_transition", "unrecorded"}

\* What a pass in the evidence says, and that it comes from this run's outputs.
Evidence ==
    evidence # Absent =>
        /\ evidence.base_verified => actual = "good"
        /\ evidence.production_build = Pass => real[1] = "done"
        /\ evidence.qa_transition = Pass => real[2] = "done"
        /\ evidence.qa_build = Pass => real[3] = "done"
        /\ evidence.production_inspection = Pass => inspected["prod"] = Pass
        /\ evidence.qa_inspection = Pass => inspected["qa"] = Pass
        /\ evidence.qemu_boot = Pass => booted

Verdict == at = 13 => failed \/ (gate = Pass /\ Closed)

IInv ==
    /\ Types /\ NotYet
    /\ BaseReport /\ BuildReport /\ InspectionReports /\ SmokeReports
    /\ Blame /\ Evidence /\ EvidenceBlamesFirst /\ Verdict

\* The steps in their order.
LEMMA StepOrder ==
    ASSUME at \in 1..13, NEW step, Running(step)
    PROVE  /\ at' = at + 1 /\ (failed => step \in Always)
           /\ step = "setup" => at = 1
           /\ step = "preflight" => at = 2
           /\ step = "fetch" => at = 3
           /\ step = "verify" => at = 4
           /\ step = "baseSha" => at = 5
           /\ step = "elTorito" => at = 6
           /\ step = "build" => at = 7
           /\ step = "inspectProd" => at = 8
           /\ step = "inspectQa" => at = 9
           /\ step = "smoke" => at = 10
           /\ step = "evidence" => at = 11
           /\ step = "gate" => at = 12
<1>1. Len(Steps) = 12
  BY DEF Steps
<1>2. at \in 1..12 /\ Steps[at] = step
  BY <1>1 DEF Running
<1>3. at \in {1, 2, 3, 4, 5, 6, 7, 8, 9, 10, 11, 12}
  BY <1>2
<1>4. QED
  BY <1>2, <1>3 DEF Running, Steps

\* The values for "absent" and "torn" are nothing else.
LEMMA Sentinels ==
    /\ Absent \notin Statuses \cup {"good", "bad", "whole"}
    /\ Torn \notin Statuses \cup {"good", "bad", "whole"}
    /\ Absent \notin Markers /\ Torn \notin Markers
BY SentinelsAssumption DEF Markers

\* A marker names only stages of the build, and reports the k-th after those
\* that passed.
LEMMA ReportedStages ==
    ASSUME NEW k \in 1..4, NEW status \in {Fail, NotPerformed}, status = Fail => k \in 1..3
    PROVE  /\ Reported(k, status) \in Markers
           /\ Reported(k, status).production_build = Pass => 1 < k
           /\ Reported(k, status).qa_transition = Pass => 2 < k
           /\ Reported(k, status).qa_build = Pass => 3 < k
<1> DEFINE stage(i) == IF i < k THEN Pass ELSE IF i = k THEN status ELSE NotPerformed
           name == IF status = Fail THEN StageNames[k] ELSE "none"
<1>1. Reported(k, status) = [production_build |-> stage(1), qa_transition |-> stage(2),
                             qa_build |-> stage(3), failure_stage |-> name]
  BY DEF Reported, Marker
<1>2. /\ stage(1) \in Statuses /\ (stage(1) = Pass => 1 < k)
      /\ stage(2) \in Statuses /\ (stage(2) = Pass => 2 < k)
      /\ stage(3) \in Statuses /\ (stage(3) = Pass => 3 < k)
  BY DEF Statuses, Pass, Fail, NotPerformed
<1>3. name \in {"none"} \cup Stages
  BY DEF Stages
<1>4. QED
  BY <1>1, <1>2, <1>3 DEF Markers

\* What a build leaves that stops in its k-th stage is true of its stages.
LEMMA StoppedReport ==
    ASSUME NEW k \in 1..4, NEW said \in BOOLEAN, said => k \in 1..3, Stopped(k, said)
    PROVE  marker' \in {Absent, Torn} \cup Markers /\ iso' \in [Variants -> Media]
           /\ ReportIsTrue'
<1> DEFINE status == IF said THEN Fail ELSE NotPerformed
<1>1. PICK left \in {<<Absent, Absent>>, <<"bad", Absent>>, <<"bad", Torn>>} \cup
                    (IF said THEN {} ELSE {<<"good", "whole">>}) :
        /\ iso' = Built((IF k = 1 THEN left ELSE <<"good", "whole">>)[1],
                        (IF k = 4 THEN <<"good", "whole">> ELSE
                         IF k = 3 THEN left ELSE <<Absent, Absent>>)[1])
        /\ marker' \in {Torn, IF said THEN Reported(k, Fail)
                              ELSE IF k = 1 THEN Absent ELSE Reported(k, NotPerformed)}
        /\ real' = [i \in 1..3 |-> IF i < k \/ (i = k /\ left[1] = "good") THEN "done"
                                  ELSE IF i = k THEN "begun" ELSE "never"]
  BY Zenon DEF Stopped
<1>2. iso' \in [Variants -> Media]
  BY <1>1 DEF Built, Media, Variants
<1>3. marker' \in {Absent, Torn, Reported(k, status)}
  BY <1>1
<1>4. CASE marker' \in {Absent, Torn}
  BY <1>2, <1>4, Sentinels DEF ReportIsTrue
<1>5. CASE marker' = Reported(k, status)
  <2>1. status \in {Fail, NotPerformed} /\ (status = Fail => k \in 1..3)
    BY DEF Fail, NotPerformed
  <2>2. \A i \in 1..3 : i < k => real'[i] = "done"
    BY <1>1
  <2>3. QED
    BY <1>2, <1>5, <2>1, <2>2, ReportedStages DEF ReportIsTrue
<1>6. QED
  BY <1>3, <1>4, <1>5

\* So is what a build leaves wherever it stops.
LEMMA StoppedAnywhereReport ==
    ASSUME StoppedAnywhere
    PROVE  marker' \in {Absent, Torn} \cup Markers /\ iso' \in [Variants -> Media]
           /\ ReportIsTrue'
<1>1. CASE Stopped(4, FALSE)
  <2>1. 4 \in 1..4 /\ FALSE \in BOOLEAN
    OBVIOUS
  <2>2. QED
    BY <1>1, <2>1, StoppedReport, Zenon
<1>2. CASE \E k \in 1..3, said \in BOOLEAN : Stopped(k, said)
  <2>1. PICK k \in 1..3, said \in BOOLEAN : Stopped(k, said)
    BY <1>2
  <2>2. k \in 1..4
    OBVIOUS
  <2>3. QED
    BY <2>1, <2>2, StoppedReport
<1>3. QED
  BY <1>1, <1>2 DEF StoppedAnywhere

\* A step that succeeds or fails, and leaves the marker alone, blames nobody
\* else; at the gate a first failure has no stage to record.
LEMMA BlameKept ==
    ASSUME Blame, UNCHANGED marker, NEW stage, stage # "qa_transition", stage # "unrecorded",
           Succeed \/ FailAs(stage)
    PROVE  /\ Blame'
           /\ failed => failed'
           /\ first' # first => first = "none" /\ failed'
           /\ stage = "none" /\ first' # first => first' = "unrecorded"
BY DEF Blame, Succeed, FailAs, Record

\* The invariant holds when the job starts and every step of it keeps it.
THEOREM Invariance == Spec => []IInv
<1> USE DEF Types, NotYet, BaseReport, BuildReport, InspectionReports, SmokeReports,
            Evidence, EvidenceBlamesFirst, Verdict
<1>1. Init => IInv
  BY Sentinels DEF Init, IInv, Blame, ReportIsTrue, Media, Outputs, Variants, Statuses, Pass
<1>2. IInv /\ [Next]_vars => IInv'
  <2> SUFFICES ASSUME IInv, [Next]_vars PROVE IInv'
    OBVIOUS
  <2> USE DEF IInv
  <2>1. CASE Skip
    BY <2>1 DEF Skip, Steps, Always, ReportIsTrue, Closed, Blame
  <2>2. CASE Setup
    <3>1. at = 1 /\ at' = 2 /\ ~failed
      BY <2>2, StepOrder DEF Setup, Always
    <3>2. Blame' /\ (first' # first => first = "none" /\ failed')
      BY <2>2, BlameKept DEF Setup
    <3>3. QED
      BY <2>2, <3>1, <3>2 DEF Setup, ReportIsTrue
  <2>3. CASE Preflight
    <3>1. at = 2 /\ at' = 3 /\ ~failed
      BY <2>3, StepOrder DEF Preflight, Always
    <3>2. Blame' /\ (first' # first => first = "none" /\ failed')
      BY <2>3, BlameKept DEF Preflight
    <3>3. QED
      BY <2>3, <3>1, <3>2 DEF Preflight, ReportIsTrue
  <2>4. CASE FetchBase
    <3>1. at = 3 /\ at' = 4 /\ ~failed
      BY <2>4, StepOrder DEF FetchBase, Always
    <3>2. Blame' /\ (first' # first => first = "none" /\ failed')
      BY <2>4, BlameKept DEF FetchBase
    <3>3. QED
      BY <2>4, <3>1, <3>2, Sentinels DEF FetchBase, ReportIsTrue
  <2>5. CASE VerifyBase
    <3>1. at = 4 /\ at' = 5 /\ ~failed
      BY <2>5, StepOrder DEF VerifyBase, Always
    <3>2. Blame' /\ (first' # first => first = "none" /\ failed')
      BY <2>5, BlameKept DEF VerifyBase
    <3>3. QED
      BY <2>5, <3>1, <3>2 DEF VerifyBase, ReportIsTrue
  <2>6. CASE RecordBaseSha
    <3>1. at = 5 /\ at' = 6 /\ ~failed
      BY <2>6, StepOrder DEF RecordBaseSha, Always
    <3>2. Blame' /\ (first' # first => first = "none" /\ failed')
      BY <2>6, BlameKept DEF RecordBaseSha
    <3>3. QED
      BY <2>6, <3>1, <3>2 DEF RecordBaseSha, ReportIsTrue
  <2>7. CASE SaveElTorito
    <3>1. at = 6 /\ at' = 7 /\ ~failed
      BY <2>7, StepOrder DEF SaveElTorito, Always
    <3>2. Blame' /\ (first' # first => first = "none" /\ failed')
      BY <2>7, BlameKept DEF SaveElTorito
    <3>3. QED
      BY <2>7, <3>1, <3>2 DEF SaveElTorito, ReportIsTrue
  <2>8. CASE BuildDone
    <3>1. at = 7 /\ at' = 8 /\ ~failed /\ first = "none" /\ stageFile = "none"
      BY <2>8, StepOrder DEF BuildDone, Always, Blame
    <3>2. marker' \in Markers /\ iso' \in [Variants -> Media]
      BY <2>8 DEF BuildDone, Built, Media, Variants, Marker, Markers, Statuses, Pass, Fail,
         NotPerformed, Stages, StageNames
    <3>3. ReportIsTrue' /\ Blame'
      <4>1. CASE iso'["qa"] = Absent
        <5>1. /\ marker' = Marker(Pass, Fail, NotPerformed, "qa_transition")
              /\ real' = <<"done", "begun", "never">>
              /\ first' = "qa_transition" /\ stageFile' = "none"
          BY <2>8, <3>1, <4>1 DEF BuildDone
        <5>2. QED
          BY <3>2, <5>1 DEF ReportIsTrue, Blame, Marker, Pass, Fail, NotPerformed
      <4>2. CASE iso'["qa"] # Absent
        <5>1. /\ marker' = Marker(Pass, Pass, Pass, "none")
              /\ real' = <<"done", "done", "done">>
              /\ first' = "none" /\ stageFile' = "none"
          BY <2>8, <3>1, <4>2 DEF BuildDone
        <5>2. QED
          BY <3>2, <5>1 DEF ReportIsTrue, Blame, Marker, Pass, Fail, NotPerformed
      <4>3. QED
        BY <4>1, <4>2
    <3>4. QED
      BY <2>8, <3>1, <3>2, <3>3, Sentinels DEF BuildDone, Statuses, Pass
  <2>9. CASE BuildRefused
    <3>1. at = 7 /\ at' = 8 /\ ~failed /\ first = "none" /\ stageFile = "none"
      BY <2>9, StepOrder DEF BuildRefused, Always, Blame
    <3>2. marker' \in {Absent, Torn} \cup Markers /\ iso' \in [Variants -> Media]
          /\ ReportIsTrue'
      BY <2>9 DEF BuildRefused, ReportIsTrue
    <3>3. Blame' /\ failed'
      BY <2>9, <3>1, Sentinels DEF BuildRefused, FailAs, Record, Blame
    <3>4. QED
      BY <2>9, <3>1, <3>2, <3>3, Sentinels DEF BuildRefused, Statuses, Pass
  <2>10. CASE BuildFailed
    <3>1. at = 7 /\ at' = 8 /\ ~failed /\ first = "none" /\ stageFile = "none"
      BY <2>10, StepOrder DEF BuildFailed, Always, Blame
    <3>2. marker' \in {Absent, Torn} \cup Markers /\ iso' \in [Variants -> Media]
          /\ ReportIsTrue'
      BY <2>10, StoppedAnywhereReport DEF BuildFailed, ReportIsTrue
    <3>3. Blame' /\ failed'
      BY <2>10, <3>1, Sentinels DEF BuildFailed, FailAs, Record, Blame
    <3>4. QED
      BY <2>10, <3>1, <3>2, <3>3, Sentinels DEF BuildFailed, Statuses, Pass
  <2>11. CASE BuildCancelled
    <3>1. at = 7 /\ at' = 8 /\ ~failed /\ first = "none" /\ stageFile = "none"
      BY <2>11, StepOrder DEF BuildCancelled, Always, Blame
    <3>2. marker' \in {Absent, Torn} \cup Markers /\ iso' \in [Variants -> Media]
          /\ ReportIsTrue'
      BY <2>11, StoppedAnywhereReport DEF BuildCancelled, ReportIsTrue
    <3>3. Blame' /\ failed'
      BY <2>11, <3>1, Sentinels DEF BuildCancelled, FailAs, Record, Blame
    <3>4. QED
      BY <2>11, <3>1, <3>2, <3>3, Sentinels DEF BuildCancelled, Statuses, Pass
  <2>12. CASE InspectProduction
    <3>1. at = 8 /\ at' = 9
      BY <2>12, StepOrder DEF InspectProduction, Inspect
    <3>2. Blame' /\ (first' # first => first = "none" /\ failed')
      BY <2>12, BlameKept DEF InspectProduction, Inspect
    <3>3. QED
      BY <2>12, <3>1, <3>2, Sentinels DEF InspectProduction, Inspect, ReportIsTrue, Pass, Fail, NotPerformed, Outputs, Statuses, Variants
  <2>13. CASE InspectQa
    <3>1. at = 9 /\ at' = 10
      BY <2>13, StepOrder DEF InspectQa, Inspect
    <3>2. Blame' /\ (first' # first => first = "none" /\ failed')
      BY <2>13, BlameKept DEF InspectQa, Inspect
    <3>3. QED
      BY <2>13, <3>1, <3>2, Sentinels DEF InspectQa, Inspect, ReportIsTrue, Pass, Fail, NotPerformed, Outputs, Statuses, Variants
  <2>14. CASE Smoke
    <3>1. at = 10 /\ at' = 11
      BY <2>14, StepOrder DEF Smoke
    <3>2. Blame' /\ (first' # first => first = "none" /\ failed')
      BY <2>14, BlameKept DEF Smoke
    <3>3. SmokeReports'
      <4>1. smokeOut # Pass
        BY <3>1, Sentinels DEF Statuses
      <4>2. CASE UNCHANGED booted
        BY <2>14, <4>1, <4>2, Sentinels DEF Smoke, Statuses, Pass, Fail, NotPerformed
      <4>3. CASE smoked' = Pass /\ booted' = TRUE
        BY <4>3
      <4>4. CASE smokeOut' = smokeOut /\ booted' = (smoked' = Pass)
        BY <4>1, <4>4, Zenon
      <4>5. QED
        BY <2>14, <4>2, <4>3, <4>4 DEF Smoke
    <3>4. QED
      BY <2>14, <3>1, <3>2, <3>3 DEF Smoke, ReportIsTrue
  <2>15. CASE AssembleEvidence
    <3>1. at = 11 /\ at' = 12
      BY <2>15, StepOrder DEF AssembleEvidence
    <3>2. Blame' /\ (first' # first => first = "none" /\ failed')
      BY <2>15, BlameKept DEF AssembleEvidence
    <3>3. CASE UNCHANGED evidence
      BY <2>15, <3>1, <3>2, <3>3 DEF AssembleEvidence, ReportIsTrue
    <3>4. CASE ~UNCHANGED evidence
      <4>1. Readable /\ Succeed
        BY <2>15, <3>4 DEF AssembleEvidence
      <4>2. /\ evidence'.base_verified = BaseVerified
            /\ evidence'.production_build = StagesFromMarker.production_build
            /\ evidence'.qa_transition = StagesFromMarker.qa_transition
            /\ evidence'.qa_build = StagesFromMarker.qa_build
            /\ evidence'.production_inspection = OrNotPerformed(inspected["prod"])
            /\ evidence'.qa_inspection = OrNotPerformed(inspected["qa"])
            /\ evidence'.qemu_boot = IF smoked # Absent THEN smoked
                                                      ELSE OrNotPerformed(smokeOut)
            /\ evidence'.failure_stage = StagesFromMarker.failure_stage
        BY <2>15, <3>4 DEF AssembleEvidence
      <4>3. UNCHANGED <<actual, base, inspected, smoked, smokeOut, booted, marker, real, first>>
        BY <2>15, <4>1 DEF AssembleEvidence, Succeed
      <4>4. marker = Absent \/ marker \in Markers
        BY <4>1 DEF Readable
      <4>5. /\ StagesFromMarker.production_build = Pass => real[1] = "done"
            /\ StagesFromMarker.qa_transition = Pass => real[2] = "done"
            /\ StagesFromMarker.qa_build = Pass => real[3] = "done"
        BY <4>4, Sentinels DEF StagesFromMarker, Fallback, Marker, Markers, ReportIsTrue,
           Pass, Fail, NotPerformed
      <4>6. StagesFromMarker.failure_stage =
              IF marker = Absent \/ marker.failure_stage = "none" THEN stageFile
                                                               ELSE marker.failure_stage
        BY <4>4 DEF StagesFromMarker, Fallback, Marker, Markers
      <4>7. (evidence'.base_verified => actual = "good")
            /\ (evidence'.production_inspection = Pass => inspected["prod"] = Pass)
            /\ (evidence'.qa_inspection = Pass => inspected["qa"] = Pass)
            /\ (evidence'.qemu_boot = Pass => booted)
        BY <4>2 DEF BaseVerified, OrNotPerformed, Pass, NotPerformed
      <4>8. Evidence'
        BY <4>2, <4>3, <4>5, <4>7
      <4>9. EvidenceBlamesFirst'
        BY <4>2, <4>3, <4>4, <4>6, Sentinels DEF Blame
      <4>10. QED
        BY <2>15, <3>1, <3>2, <4>8, <4>9 DEF AssembleEvidence, ReportIsTrue
    <3>5. QED
      BY <3>3, <3>4
  <2>16. CASE EnforceClosure
    <3>1. at = 12 /\ at' = 13 /\ UNCHANGED evidence
      BY <2>16, StepOrder DEF EnforceClosure
    <3>2. Blame' /\ (first' # first => first' = "unrecorded")
      BY <2>16, BlameKept DEF EnforceClosure
    <3>3. failed' \/ (gate' = Pass /\ Closed)
      BY <2>16 DEF EnforceClosure, FailAs
    <3>4. Closed => Closed'
      BY <3>1 DEF Closed
    <3>5. QED
      BY <2>16, <3>1, <3>2, <3>3, <3>4 DEF EnforceClosure, ReportIsTrue
  <2>17. CASE UNCHANGED vars
    BY <2>17 DEF vars, Blame, ReportIsTrue, Closed
  <2>18. QED
    BY <2>1, <2>2, <2>3, <2>4, <2>5, <2>6, <2>7, <2>8, <2>9, <2>10, <2>11, <2>12, <2>13, <2>14, <2>15, <2>16, <2>17 DEF Next, Job
<1>3. QED
  BY <1>1, <1>2, PTL DEF Spec

\* A green job had its base image downloaded and hashed, both media inspected,
\* and the QA system booted under UEFI.
THEOREM GreenIsReal == Spec => []GreenJobIsReal
<1>1. IInv => GreenJobIsReal
  <2> SUFFICES ASSUME IInv, Finished, ~failed PROVE GreenJobIsReal
    BY DEF GreenJobIsReal
  <2>1. gate = Pass /\ Closed
    BY DEF Finished, Steps, IInv, Verdict
  <2>2. evidence # Absent /\ evidence.base_verified /\ evidence.production_inspection = Pass
        /\ evidence.qa_inspection = Pass /\ evidence.qemu_boot = Pass
    BY <2>1 DEF Closed
  <2>3. actual = "good" /\ inspected["prod"] = Pass /\ inspected["qa"] = Pass /\ booted
    BY <2>2 DEF IInv, Evidence
  <2>4. iso["prod"] = "good" /\ iso["qa"] = "good"
    BY <2>3 DEF IInv, InspectionReports, Variants
  <2>5. iso = [v \in Variants |-> "good"] /\ inspected = [v \in Variants |-> Pass]
    BY <2>3, <2>4 DEF IInv, Types, Variants
  <2>6. QED
    BY <2>1, <2>3, <2>5 DEF GreenJobIsReal
<1>2. QED
  BY <1>1, Invariance, PTL

\* Even in a red job no evidence field claims a pass that did not happen.
THEOREM EvidenceIsFact == Spec => []EvidencePassIsFact
<1>1. IInv => EvidencePassIsFact
  BY DEF IInv, Evidence, BaseReport, InspectionReports, EvidencePassIsFact, StageNames, Variants
<1>2. QED
  BY <1>1, Invariance, PTL

\* The evidence blames what failed first.
THEOREM BlameIsFirst == Spec => []EvidenceBlamesFirst
<1>1. IInv => EvidenceBlamesFirst
  BY DEF IInv
<1>2. QED
  BY <1>1, Invariance, PTL
=============================================================================
