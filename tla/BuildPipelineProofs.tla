------------------------ MODULE BuildPipelineProofs ------------------------
(***************************************************************************)
(* Theorems about BuildPipeline for every finite or infinite set of        *)
(* revisions, every order of their wheel file names and any number of      *)
(* builds: first the base image and the marker, then what is left in       *)
(* dist/, the contents of the two ISOs and their sidecars.                 *)
(***************************************************************************)
EXTENDS BuildPipeline, TLAPS, FiniteSetTheorems

----------------------------------------------------------------------------
(* The operators the actions are built from                                *)

\* Every statement that changes the extraction tree leaves a tree.
LEMMA TreesClosed ==
    /\ EmptyTree \in Trees
    /\ \A t \in Trees, n \in 1..MaxRuns :
         [t EXCEPT !.runs = @ \cup {n}, !.boot = "upstream"] \in Trees
    /\ \A t \in Trees, r \in MaybeRevision : [t EXCEPT !.overlay = r] \in Trees
    /\ \A t \in Trees, r, s \in MaybeRevision :
         /\ [t EXCEPT !.res = r, !.wheel = s] \in Trees
         /\ [t EXCEPT !.sums = r, !.commit = s] \in Trees
    /\ \A t \in Trees : [t EXCEPT !.boot = "qa"] \in Trees
    /\ \A t \in Trees : [t EXCEPT !.intact = FALSE] \in Trees
<1>1. EmptyTree \in Trees
  BY DEF EmptyTree, Trees, MaybeRevision
<1>2. ASSUME NEW t \in Trees, NEW n \in 1..MaxRuns
      PROVE [t EXCEPT !.runs = @ \cup {n}, !.boot = "upstream"] \in Trees
  BY DEF Trees
<1>3. ASSUME NEW t \in Trees, NEW r \in MaybeRevision, NEW s \in MaybeRevision
      PROVE /\ [t EXCEPT !.overlay = r] \in Trees
            /\ [t EXCEPT !.res = r, !.wheel = s] \in Trees
            /\ [t EXCEPT !.sums = r, !.commit = s] \in Trees
  BY DEF Trees
<1>4. ASSUME NEW t \in Trees
      PROVE /\ [t EXCEPT !.boot = "qa"] \in Trees
            /\ [t EXCEPT !.intact = FALSE] \in Trees
  BY DEF Trees
<1>5. QED
  BY <1>1, <1>2, <1>3, <1>4

\* A marker built from three statuses is one load_build_stage_status reads back.
LEMMA StagesTyped ==
    \A p, t, q \in Statuses : Stages(p, t, q) \in StageRecords
BY DEF Stages, StageRecords

\* The three statuses of BuildStageStatus.
LEMMA StatusesTyped == Pass \in Statuses /\ Fail \in Statuses /\ NotPerformed \in Statuses
BY DEF Statuses, Pass, Fail, NotPerformed

----------------------------------------------------------------------------
(* The inductive invariant                                                 *)

\* The files a statement is about to read were written by the statements
\* before it, and the base image that was verified is still there.
InHand ==
    /\ pc # "idle" => run.commit \in Revisions /\ run.n \in 1..MaxRuns
    /\ pc \in {"manifest", "sidecar"} => iso[target] \in Trees
    /\ pc = "sidecar" => man[target] \in Manifests
    /\ pc \notin {"idle", "verify"} => base = "good"
    /\ pc = "mark" => pending.next \notin {"idle", "verify", "manifest", "sidecar", "mark"}

IInv == TypeOK /\ InHand

\* The invariant holds in an empty workspace.
LEMMA Initially == Init => IInv
<1> SUFFICES ASSUME Init PROVE IInv
  OBVIOUS
<1>1. pending \in [stages : StageRecords, next : Labels \cup {"raise"}, at : Labels]
  BY StagesTyped, StatusesTyped DEF Init, NothingPerformed, Labels
<1>2. tree \in Trees /\ wheels \in [Ranks -> MaybeRevision] /\ marker = None
  BY TreesClosed DEF Init, MaybeRevision
<1>3. run \in [n : 0..MaxRuns, commit : MaybeRevision, ephemeral : BOOLEAN, qa : BOOLEAN]
  BY ConstantsAssumption DEF Init, MaybeRevision
<1>4. local \in [wheel : MaybeRevision, sums : MaybeRevision]
  BY DEF Init, MaybeRevision
<1>5. outcome \in [how : {"none", "returned", "raised", "killed"}, at : Labels]
  BY DEF Init, Labels
<1>6. QED
  BY <1>1, <1>2, <1>3, <1>4, <1>5 DEF Init, IInv, InHand, TypeOK, Variants, Labels

\* Fetching, checking out and cleaning keep it: they happen between builds, or
\* touch the working tree only.
LEMMA EnvironmentSteps == IInv /\ Environment => IInv'
<1> SUFFICES ASSUME IInv, Environment PROVE IInv'
  OBVIOUS
<1>1. CASE Fetch
  BY <1>1 DEF Fetch, IInv, InHand, TypeOK, artifacts
<1>2. CASE Checkout
  BY <1>2 DEF Checkout, IInv, InHand, TypeOK, artifacts
<1>3. CASE Clean
  <2>1. tree' \in Trees /\ pc = "idle" /\ pc' = "idle"
    BY <1>3, TreesClosed DEF Clean
  <2>2. wheels' \in [Ranks -> MaybeRevision] /\ base' \in {"absent", "bad", "good"}
    BY <1>3 DEF Clean, IInv, TypeOK, MaybeRevision
  <2>3. UNCHANGED <<head, iso, man, sha, marker, run, target, local, pending, outcome>>
    BY <1>3 DEF Clean, artifacts
  <2>4. QED
    BY <2>1, <2>2, <2>3 DEF IInv, InHand, TypeOK
<1>4. QED
  BY <1>1, <1>2, <1>3 DEF Environment

\* A build starts with its arguments known and nothing verified.
LEMMA StartSteps == IInv /\ StartBuild => IInv'
<1> SUFFICES ASSUME IInv, StartBuild PROVE IInv'
  OBVIOUS
<1>1. run' \in [n : 1..MaxRuns, commit : Revisions, ephemeral : BOOLEAN, qa : BOOLEAN]
  BY ConstantsAssumption DEF IInv, TypeOK, StartBuild
<1>2. QED
  BY <1>1, ConstantsAssumption
     DEF StartBuild, IInv, InHand, TypeOK, artifacts, MaybeRevision, Labels, Variants

\* Each statement of run_build keeps it.
LEMMA StatementSteps == IInv /\ Statement => IInv'
<1> SUFFICES ASSUME IInv, Statement PROVE IInv'
  OBVIOUS
<1> USE DEF IInv, InHand, TypeOK, artifacts
<1>1. CASE Verify
  BY <1>1 DEF Verify, Labels, ProductionTry, RebuildTry
<1>2. CASE ResetExtractedWorkspace
  <2>1. tree' \in Trees
    BY <1>2, TreesClosed DEF ResetExtractedWorkspace
  <2>2. QED
    BY <1>2, <2>1 DEF ResetExtractedWorkspace, Labels, ProductionTry
<1>3. CASE Extract
  <2>1. tree' \in Trees
    BY <1>3, TreesClosed DEF Extract
  <2>2. QED
    BY <1>3, <2>1 DEF Extract, Labels, ProductionTry
<1>4. CASE ReportElTorito
  BY <1>4 DEF ReportElTorito, Labels, ProductionTry
<1>5. CASE ApplyOverlay
  <2>1. tree' \in Trees
    BY <1>5, TreesClosed DEF ApplyOverlay, MaybeRevision
  <2>2. QED
    BY <1>5, <2>1 DEF ApplyOverlay, Labels, ProductionTry
<1>6. CASE BuildWheel
  <2>1. wheels' \in [Ranks -> MaybeRevision]
    BY <1>6 DEF BuildWheel, MaybeRevision
  <2>2. local' \in [wheel : MaybeRevision, sums : MaybeRevision]
    BY <1>6, <2>1 DEF BuildWheel
  <2>3. QED
    BY <1>6, <2>1, <2>2 DEF BuildWheel, Labels, ProductionTry
<1>7. CASE CollectPayload
  BY <1>7 DEF CollectPayload, Labels, ProductionTry, MaybeRevision
<1>8. CASE CopyPayload
  <2>1. tree' \in Trees
    BY <1>8, TreesClosed DEF CopyPayload, MaybeRevision
  <2>2. QED
    BY <1>8, <2>1 DEF CopyPayload, Labels, ProductionTry
<1>9. CASE StampTree
  <2>1. tree' \in Trees
    BY <1>9, TreesClosed DEF StampTree
  <2>2. QED
    BY <1>9, <2>1 DEF StampTree, Labels, ProductionTry, RebuildTry
<1>10. CASE Rebuild
  BY <1>10 DEF Rebuild, Labels, RebuildTry
<1>11. CASE WriteManifest
  <2>1. [commit |-> run.commit, iso |-> iso[target]] \in Manifests
    BY <1>11 DEF WriteManifest, Manifests
  <2>2. QED
    BY <1>11, <2>1 DEF WriteManifest, Labels, RebuildTry
<1>12. CASE WriteSidecar
  <2>1. man[target].iso \in Trees
    BY <1>12 DEF WriteSidecar, Manifests
  <2>2. sha' \in [Variants -> Trees \cup {None, Torn}]
    BY <1>12, <2>1 DEF WriteSidecar
  <2>3. AfterProduction \in {"transition", "release"}
    BY DEF AfterProduction
  <2>4. /\ pc' = "mark"
        /\ pending' \in [stages : StageRecords, next : {"transition", "release"},
                         at : Labels]
    BY <1>12, <2>3, StagesTyped, StatusesTyped DEF WriteSidecar, Mark
  <2>5. QED
    BY <1>12, <2>2, <2>4 DEF WriteSidecar, Labels
<1>13. CASE TransitionDone \/ TransitionUnsafe \/ TransitionBlocked
  <2>0. tree \in Trees /\ QaTree \in Trees /\ [QaTree EXCEPT !.intact = FALSE] \in Trees
    BY TreesClosed DEF QaTree
  <2>1. PICK patched \in Trees, stages \in StageRecords,
             next \in {"rebuild", "raise", "release"} : Transition(patched, stages, next)
    BY <1>13, <2>0, StagesTyped, StatusesTyped
       DEF TransitionDone, TransitionUnsafe, TransitionBlocked
  <2>2. pending' \in [stages : StageRecords, next : {"rebuild", "raise", "release"},
                      at : Labels]
    BY <2>1 DEF Transition, Mark
  <2>3. QED
    BY <2>1, <2>2 DEF Transition, Mark, Labels, RebuildTry, Variants
<1>14. CASE WriteStageStatus
  <2>1. marker' \in Markers
    BY <1>14 DEF WriteStageStatus, Markers
  <2>2. outcome' \in [how : {"none", "returned", "raised", "killed"}, at : Labels]
    BY <1>14 DEF WriteStageStatus, End
  <2>3. pc' \in Labels \ {"verify", "manifest", "sidecar", "mark"}
    BY <1>14 DEF WriteStageStatus, End, Labels
  <2>4. QED
    BY <1>14, <2>1, <2>2, <2>3 DEF WriteStageStatus
<1>15. CASE Release
  BY <1>15 DEF Release, End, Labels
<1>16. QED
  BY <1>1, <1>2, <1>3, <1>4, <1>5, <1>6, <1>7, <1>8, <1>9, <1>10, <1>11, <1>12, <1>13,
     <1>14, <1>15 DEF Statement

\* A statement cut short keeps it: outside Release no one deletes the base image.
LEMMA InterruptedSteps == IInv /\ (Raise \/ Kill) => IInv'
<1> SUFFICES ASSUME IInv, Raise \/ Kill PROVE IInv'
  OBVIOUS
<1>1. Damage /\ pc # "idle"
  BY DEF Raise, Kill
<1>2. tree' \in Trees
  <2>1. tree' \in {tree, [tree EXCEPT !.intact = FALSE], [tree EXCEPT !.boot = "qa"]}
    BY <1>1 DEF Damage
  <2>2. tree \in Trees
    BY DEF IInv, TypeOK
  <2>3. [tree EXCEPT !.intact = FALSE] \in Trees /\ [tree EXCEPT !.boot = "qa"] \in Trees
    BY <2>2, TreesClosed
  <2>4. QED
    BY <2>1, <2>2, <2>3
<1>3. wheels' \in [Ranks -> MaybeRevision]
  BY <1>1 DEF Damage, IInv, TypeOK, MaybeRevision
<1>4. /\ iso' \in [Variants -> Trees \cup {None, Torn}]
      /\ sha' \in [Variants -> Trees \cup {None, Torn}]
  BY <1>1 DEF Damage, IInv, TypeOK
<1>5. man' \in [Variants -> Manifests \cup {None, Torn}]
  BY <1>1 DEF Damage, IInv, TypeOK
<1>6. /\ marker' \in Markers \cup {None, Torn}
      /\ base' \in {"absent", "bad", "good"}
      /\ pc \notin {"idle", "verify", "release"} => base' = "good"
  BY <1>1 DEF Damage, IInv, InHand, TypeOK
<1>7. UNCHANGED <<head, run, target, local>>
  BY DEF Raise, Kill
<1>8. \/ pc' = "idle" /\ pending' = pending
      \/ /\ pc' = "mark" /\ pc \notin {"idle", "verify", "release"}
         /\ pending' \in [stages : StageRecords, next : {"raise"}, at : Labels]
  <2>1. RecordedFailure \in StageRecords
    BY StagesTyped, StatusesTyped DEF RecordedFailure
  <2>2. QED
    BY <2>1 DEF Raise, Kill, Mark, End, IInv, TypeOK, ProductionTry, RebuildTry
<1>9. outcome' \in [how : {"none", "returned", "raised", "killed"}, at : Labels]
  BY DEF Raise, Kill, End, IInv, TypeOK
<1>10. QED
  BY <1>1, <1>2, <1>3, <1>4, <1>5, <1>6, <1>7, <1>8, <1>9
     DEF IInv, InHand, TypeOK, Labels

\* Every step keeps the invariant.
LEMMA Inductive == IInv /\ [Next]_vars => IInv'
<1>1. IInv /\ UNCHANGED vars => IInv'
  BY DEF IInv, InHand, TypeOK, vars, artifacts
<1>2. QED
  BY <1>1, EnvironmentSteps, StartSteps, StatementSteps, InterruptedSteps DEF Next

\* What a statement reads was written, and the verified base image is in the
\* cache, at every moment of every build.
THEOREM Invariance == Spec => []IInv
BY Initially, Inductive, PTL DEF Spec

----------------------------------------------------------------------------
(* The theorems                                                            *)

\* Every variable keeps its type: in particular a manifest and a checksum are
\* only ever taken from an ISO that was completely rebuilt.
THEOREM TypeCorrect == Spec => []TypeOK
<1>1. IInv => TypeOK
  BY DEF IInv
<1>2. QED
  BY <1>1, Invariance, PTL

\* However many builds there are and however they end, xorriso finds the
\* verified base image whenever run_build is about to call it.
THEOREM BaseIsThere == Spec => []BaseOutlivesXorriso
<1>1. IInv => BaseOutlivesXorriso
  BY DEF IInv, InHand, BaseOutlivesXorriso, XorrisoLabels
<1>2. QED
  BY <1>1, Invariance, PTL
----------------------------------------------------------------------------
(* The marker and the control flow                                         *)

\* The marker on disk is this build's and says exactly p, t, q.
OnRecord(p, t, q) == marker = [by |-> run.n, stages |-> Stages(p, t, q)]

\* This build has written no marker yet.
NotYetRecorded == marker \notin {None, Torn} => marker.by < run.n

\* No rebuild is left to do after these stages.
Done(stages) ==
    /\ stages.production_build = Pass
    /\ run.qa => stages.qa_transition = Fail \/ stages.qa_build = Pass

\* What the marker write in progress records, and what is on disk before it.
MarkInv ==
    \/ /\ NotYetRecorded
       /\ pending.stages = Stages(Fail, NotPerformed, NotPerformed)
       /\ pending.next = "raise"
    \/ /\ NotYetRecorded /\ target = "prod"
       /\ pending.stages = Stages(Pass, NotPerformed, NotPerformed)
       /\ pending.next = AfterProduction
    \/ /\ OnRecord(Pass, NotPerformed, NotPerformed)
       /\ pending.stages = Stages(Pass, Fail, NotPerformed)
       /\ pending.next \in {"raise", "release"}
    \/ /\ OnRecord(Pass, NotPerformed, NotPerformed) /\ target = "qa"
       /\ pending.stages = Stages(Pass, Pass, NotPerformed)
       /\ pending.next = "rebuild"
    \/ /\ OnRecord(Pass, Pass, NotPerformed)
       /\ pending.stages = Stages(Pass, Pass, Fail)
       /\ pending.next = "raise"
    \/ /\ OnRecord(Pass, Pass, NotPerformed)
       /\ pending.stages = Stages(Pass, Pass, Pass)
       /\ pending.next = "release"

StageInv ==
    /\ marker \notin {None, Torn} => marker.by <= run.n
    /\ pc \in {"verify", "reset"} \cup ProductionTry => target = "prod" /\ NotYetRecorded
    /\ pc \in RebuildTry =>
         IF target = "prod" THEN NotYetRecorded ELSE OnRecord(Pass, Pass, NotPerformed)
    /\ pc = "transition" => target = "prod" /\ OnRecord(Pass, NotPerformed, NotPerformed)
    /\ pc = "mark" => MarkInv
    /\ pc = "release" => Recorded /\ Done(marker.stages)

\* No marker is on disk at first.
LEMMA StageInitially == Init => StageInv
BY DEF Init, StageInv, ProductionTry, RebuildTry

\* Control reaches a marker write only with a status that continues what is on
\* record for this build.
LEMMA StageStep == IInv /\ StageInv /\ [Next]_vars => StageInv'
<1> SUFFICES ASSUME IInv, StageInv, [Next]_vars PROVE StageInv'
  OBVIOUS
<1> USE DEF StageInv, NotYetRecorded, OnRecord, ProductionTry, RebuildTry
<1>1. CASE Environment
  BY <1>1 DEF Environment, Fetch, Checkout, Clean, MarkInv, AfterProduction, Done, Recorded
<1>2. CASE StartBuild
  <2>1. run'.n = run.n + 1 /\ run.n \in Nat /\ marker' = marker /\ pc' = "verify"
        /\ target' = "prod"
    BY <1>2, ConstantsAssumption DEF StartBuild, IInv, TypeOK
  <2>2. marker \notin {None, Torn} => marker.by \in Nat
    BY DEF IInv, TypeOK, Markers
  <2>3. QED
    BY <2>1, <2>2
<1>3. CASE Verify \/ ResetExtractedWorkspace \/ Extract \/ ReportElTorito \/ ApplyOverlay
           \/ BuildWheel \/ CollectPayload \/ CopyPayload \/ StampTree
  BY <1>3 DEF Verify, ResetExtractedWorkspace, Extract, ReportElTorito, ApplyOverlay,
              BuildWheel, CollectPayload, CopyPayload, StampTree
<1>4. CASE Rebuild \/ WriteManifest
  BY <1>4 DEF Rebuild, WriteManifest
<1>5. CASE WriteSidecar
  BY <1>5 DEF WriteSidecar, Mark, MarkInv, AfterProduction, IInv, TypeOK, Variants
<1>6. CASE TransitionDone \/ TransitionUnsafe \/ TransitionBlocked
  BY <1>6 DEF TransitionDone, TransitionUnsafe, TransitionBlocked, Transition, Mark, MarkInv
<1>7. CASE WriteStageStatus
  <2>1. /\ pc = "mark" /\ MarkInv
        /\ marker' = [by |-> run.n, stages |-> pending.stages]
        /\ UNCHANGED <<run, target>>
        /\ IF pending.next = "raise" THEN pc' = "idle" ELSE pc' = pending.next
    BY <1>7 DEF WriteStageStatus, End
  <2>2. marker'.by = run'.n /\ run'.n \in Nat /\ marker'.stages = pending.stages
    BY <2>1 DEF IInv, TypeOK
  <2>3. marker' \in Markers
    BY <2>1 DEF Markers, IInv, InHand, TypeOK
  <2>4. marker' \notin {None, Torn}
    BY <2>3, NotAFile
  <2>5. pc' = "release" => Recorded' /\ Done(marker.stages)'
    BY <2>1, <2>2, <2>4
       DEF MarkInv, Recorded, Done, AfterProduction, Stages, Pass, Fail, NotPerformed
  <2>6. pc' = "transition" => target' = "prod" /\ OnRecord(Pass, NotPerformed, NotPerformed)'
    BY <2>1 DEF MarkInv, AfterProduction
  <2>7. pc' = "rebuild" => target' = "qa" /\ OnRecord(Pass, Pass, NotPerformed)'
    BY <2>1 DEF MarkInv, AfterProduction
  <2>8. pc' \in {"idle", "release", "transition", "rebuild"}
    BY <2>1 DEF MarkInv, AfterProduction
  <2>9. QED
    BY <2>2, <2>5, <2>6, <2>7, <2>8
<1>8. CASE Release
  BY <1>8 DEF Release, End
<1>9. CASE Raise \/ Kill
  <2>1. /\ UNCHANGED <<run, target>>
        /\ (pc = "mark" /\ marker' \in {marker, Torn}) \/ marker' = marker
    BY <1>9 DEF Raise, Kill, Damage
  <2>2. \/ pc' = "idle"
        \/ /\ pc' = "mark" /\ pc \in ProductionTry \cup RebuildTry /\ marker' = marker
           /\ pending'.stages = RecordedFailure /\ pending'.next = "raise"
    BY <1>9 DEF Raise, Kill, Damage, Mark, End
  <2>3. CASE pc' = "idle"
    BY <2>1, <2>3
  <2>4. CASE pc' # "idle"
    BY <2>1, <2>2, <2>4 DEF MarkInv, RecordedFailure, IInv, TypeOK, Variants
  <2>5. QED
    BY <2>3, <2>4
<1>10. CASE UNCHANGED vars
  BY <1>10 DEF vars, artifacts, MarkInv, AfterProduction, Done, Recorded
<1>11. QED
  BY <1>1, <1>2, <1>3, <1>4, <1>5, <1>6, <1>7, <1>8, <1>9, <1>10 DEF Next, Statement

\* The marker on disk, the marker being written and the position in run_build
\* agree at every moment of every build.
THEOREM StageInvariance == Spec => []StageInv
BY StageInitially, StageStep, Invariance, PTL DEF Spec

\* An ephemeral build releases the base image only after the marker says that
\* no rebuild remains; no other build, and no failed one, ever does.
THEOREM ReleaseIsLast == Spec => ReleasedOnlyWhenDone
<1> DEFINE Step == (pc # "idle" /\ base' # base) =>
         /\ run.ephemeral /\ Recorded
         /\ marker.stages.production_build = Pass
         /\ run.qa => \/ marker.stages.qa_transition = Fail
                      \/ marker.stages.qa_build = Pass
<1>1. StageInv /\ [Next]_vars => [Step]_vars
  <2> SUFFICES ASSUME StageInv, Next, pc # "idle", base' # base
               PROVE  pc = "release" /\ run.ephemeral
    BY DEF StageInv, Done
  <2>1. CASE Environment \/ StartBuild
    BY <2>1 DEF Environment, Fetch, Checkout, Clean, StartBuild
  <2>2. CASE Statement
    BY <2>2 DEF Statement, Verify, ResetExtractedWorkspace, Extract, ReportElTorito,
       ApplyOverlay, BuildWheel, CollectPayload, CopyPayload, StampTree, Rebuild,
       WriteManifest, WriteSidecar, TransitionDone, TransitionUnsafe, TransitionBlocked,
       Transition, WriteStageStatus, Release
  <2>3. CASE Raise \/ Kill
    BY <2>3 DEF Raise, Kill, Damage
  <2>4. QED
    BY <2>1, <2>2, <2>3 DEF Next
<1>2. QED
  BY <1>1, StageInvariance, PTL DEF Spec, ReleasedOnlyWhenDone

----------------------------------------------------------------------------
(* The marker implements BuildStages                                       *)

\* Every step of a build is a step of BuildStages or leaves the report as it is.
LEMMA MarkerStep == IInv /\ StageInv /\ [Next]_vars => [BS!Next]_stageReport
<1> SUFFICES ASSUME IInv, StageInv, [Next]_vars, stageReport' # stageReport
             PROVE  BS!Next
  OBVIOUS
<1>1. WriteStageStatus \/ marker' = Torn
  BY DEF Next, vars, artifacts, stageReport, Environment, Fetch, Checkout, Clean,
     StartBuild, Statement, Verify, ResetExtractedWorkspace, Extract, ReportElTorito,
     ApplyOverlay, BuildWheel, CollectPayload, CopyPayload, StampTree, Rebuild,
     WriteManifest, WriteSidecar, TransitionDone, TransitionUnsafe, TransitionBlocked,
     Transition, Release, Raise, Kill, Damage
<1>2. CASE marker' = Torn
  BY <1>2, NotAFile DEF stageReport, BS!Next, BS!WriteInterrupted
<1>3. CASE WriteStageStatus
  <2>1. /\ MarkInv
        /\ marker' = [by |-> run.n, stages |-> pending.stages]
        /\ run.n \in 1..MaxRuns
    BY <1>3 DEF WriteStageStatus, StageInv, IInv, InHand
  <2>2. marker' \notin {None, Torn}
    <3>1. marker' \in Markers
      BY <2>1 DEF Markers, IInv, TypeOK
    <3>2. QED
      BY <3>1, NotAFile
  <2>3. stageReport' = BS!Report(run.n, pending.stages)
    BY <2>1, <2>2 DEF stageReport, BS!Report
  <2>4. ASSUME NotYetRecorded,
               pending.stages \in {Stages(Fail, NotPerformed, NotPerformed),
                                   Stages(Pass, NotPerformed, NotPerformed)}
        PROVE  BS!FirstReport(run.n)
    <3>1. stageReport = Torn \/ run.n > stageReport.by
      <4>1. CASE marker = None
        BY <4>1, <2>1, ConstantsAssumption DEF stageReport
      <4>2. CASE marker = Torn
        BY <4>2, NotAFile DEF stageReport
      <4>3. CASE marker \notin {None, Torn}
        <5>1. marker.by \in Nat
          BY <4>3 DEF IInv, TypeOK, Markers
        <5>2. QED
          BY <4>3, <5>1, <2>1, <2>4 DEF NotYetRecorded, stageReport
      <4>4. QED
        BY <4>1, <4>2, <4>3
    <3>2. QED
      BY <3>1, <2>3, <2>4
         DEF BS!FirstReport, BS!Stages, BS!Pass, BS!Fail, BS!Pending, Stages, Pass, Fail,
             NotPerformed
  <2>5. ASSUME NEW p \in Statuses, NEW t \in Statuses, NEW q \in Statuses,
               OnRecord(p, t, q)
        PROVE  /\ stageReport = BS!Report(run.n, Stages(p, t, q))
               /\ stageReport # Torn
    <3>1. marker \notin {None, Torn}
      <4>1. [by |-> run.n, stages |-> Stages(p, t, q)] \in Markers
        BY <2>1, <2>5, StagesTyped DEF Markers
      <4>2. QED
        BY <4>1, <2>5, NotAFile DEF OnRecord
    <3>2. QED
      BY <3>1, <2>5 DEF OnRecord, stageReport, BS!Report
  <2>6. CASE OnRecord(Pass, NotPerformed, NotPerformed)
             /\ pending.stages \in {Stages(Pass, Fail, NotPerformed),
                                    Stages(Pass, Pass, NotPerformed)}
    BY <2>3, <2>5, <2>6, StatusesTyped
       DEF BS!SettleTransition, BS!Report, BS!Stages, BS!Pass, BS!Fail, BS!Pending, Stages,
           Pass, Fail, NotPerformed, BS!Next
  <2>7. CASE OnRecord(Pass, Pass, NotPerformed)
             /\ pending.stages \in {Stages(Pass, Pass, Fail), Stages(Pass, Pass, Pass)}
    BY <2>3, <2>5, <2>7, StatusesTyped
       DEF BS!SettleQaBuild, BS!Report, BS!Stages, BS!Pass, BS!Fail, BS!Pending, Stages,
           Pass, Fail, NotPerformed, BS!Next
  <2>8. CASE NotYetRecorded
             /\ pending.stages \in {Stages(Fail, NotPerformed, NotPerformed),
                                    Stages(Pass, NotPerformed, NotPerformed)}
    BY <2>1, <2>4, <2>8 DEF BS!Next
  <2>9. QED
    BY <2>1, <2>6, <2>7, <2>8 DEF MarkInv
<1>4. QED
  BY <1>1, <1>2, <1>3

\* Whatever fails, is killed or is built again, the marker settles the stages
\* of one build in order, each once, until another build starts it over or a
\* write of it is cut short.
THEOREM MarkerImplements == Spec => MarkerFollowsStages
<1>1. Init => BS!Init
  BY DEF Init, stageReport, BS!Init, BS!Report, BS!NothingPerformed, BS!Stages, BS!Pending,
         NothingPerformed, Stages, NotPerformed
<1>2. QED
  BY <1>1, MarkerStep, Invariance, StageInvariance, PTL
     DEF Spec, MarkerFollowsStages, BS!Spec

----------------------------------------------------------------------------
(* The extraction tree at each statement                                   *)

\* The tree extracted by this build is about to be used.
InUse(labels) == pc \in labels \/ (pc = "mark" /\ pending.next \in labels)

Stamped   == RebuildTry \cup {"transition"}
Extracted == Stamped \cup {"report", "overlay", "wheel", "collect", "copy", "stamp"}

TreeInv ==
    /\ pc = "extract" => tree = EmptyTree
    /\ InUse(Extracted) =>
         /\ tree.runs = {run.n} /\ tree.intact
         /\ tree.boot = (IF target = "qa" THEN "qa" ELSE "upstream")
    /\ pc \in {"collect", "copy"} => local.wheel # None
    /\ pc \in {"copy", "stamp"} => local.sums # None
    /\ pc = "stamp" => tree.wheel # None
    /\ InUse(Stamped) => tree.wheel # None /\ tree.sums # None /\ tree.commit = run.commit

\* Nothing is in use at first.
LEMMA TreeInitially == Init => TreeInv
BY DEF Init, TreeInv, InUse, Stamped, Extracted, RebuildTry

\* Each statement finds the tree as the statements before it left it, and
\* nothing of an earlier build in it.
LEMMA TreeStep == IInv /\ StageInv /\ TreeInv /\ [Next]_vars => TreeInv'
<1> SUFFICES ASSUME IInv, StageInv, TreeInv, [Next]_vars PROVE TreeInv'
  OBVIOUS
<1> USE DEF TreeInv, InUse, Stamped, Extracted, RebuildTry, ProductionTry
<1>t. tree \in Trees
  BY DEF IInv, TypeOK
<1>1. CASE Environment
  BY <1>1 DEF Environment, Fetch, Checkout, Clean
<1>2. CASE StartBuild
  BY <1>2 DEF StartBuild
<1>3. CASE Verify
  BY <1>3 DEF Verify
<1>4. CASE ResetExtractedWorkspace
  BY <1>4 DEF ResetExtractedWorkspace
<1>5. CASE Extract
  <2>1. tree'.runs = {run.n} /\ tree'.intact /\ tree'.boot = "upstream"
    BY <1>5 DEF Extract, EmptyTree
  <2>2. pc' = "report" /\ target = "prod" /\ UNCHANGED <<run, target>>
    BY <1>5 DEF Extract, StageInv
  <2>3. QED
    BY <2>1, <2>2
<1>6. CASE ReportElTorito
  BY <1>6 DEF ReportElTorito
<1>7. CASE ApplyOverlay
  <2>1. tree'.runs = tree.runs /\ tree'.intact = tree.intact /\ tree'.boot = tree.boot
    BY <1>t, <1>7 DEF ApplyOverlay, Trees
  <2>2. QED
    BY <1>7, <2>1 DEF ApplyOverlay
<1>8. CASE BuildWheel
  <2>1. PICK k \in Ranks : wheels'[k] # None /\ local' = [local EXCEPT !.wheel = wheels'[k]]
    BY <1>8 DEF BuildWheel, IsLast
  <2>2. local'.wheel # None
    BY <2>1 DEF IInv, TypeOK
  <2>3. QED
    BY <1>8, <2>2 DEF BuildWheel
<1>9. CASE CollectPayload
  <2>1. local'.wheel = local.wheel /\ local'.sums = head /\ head # None
    BY <1>9, ConstantsAssumption DEF CollectPayload, IInv, TypeOK
  <2>2. QED
    BY <1>9, <2>1 DEF CollectPayload
<1>10. CASE CopyPayload
  <2>1. /\ tree'.runs = tree.runs /\ tree'.intact = tree.intact /\ tree'.boot = tree.boot
        /\ tree'.wheel = local.wheel
    BY <1>t, <1>10 DEF CopyPayload, Trees
  <2>2. QED
    BY <1>10, <2>1 DEF CopyPayload
<1>11. CASE StampTree
  <2>1. /\ tree'.runs = tree.runs /\ tree'.intact = tree.intact /\ tree'.boot = tree.boot
        /\ tree'.wheel = tree.wheel /\ tree'.sums = local.sums /\ tree'.commit = run.commit
    BY <1>t, <1>11 DEF StampTree, Trees
  <2>2. QED
    BY <1>11, <2>1 DEF StampTree
<1>12. CASE Rebuild \/ WriteManifest
  BY <1>12 DEF Rebuild, WriteManifest
<1>13. CASE WriteSidecar
  BY <1>13 DEF WriteSidecar, Mark, AfterProduction
<1>14. CASE TransitionDone
  <2>1. /\ tree'.runs = tree.runs /\ tree'.intact = tree.intact /\ tree'.boot = "qa"
        /\ tree'.wheel = tree.wheel /\ tree'.sums = tree.sums /\ tree'.commit = tree.commit
    BY <1>t, <1>14 DEF TransitionDone, Transition, QaTree, Trees
  <2>2. pc = "transition" /\ pc' = "mark" /\ target' = "qa" /\ UNCHANGED run
    BY <1>14 DEF TransitionDone, Transition, Mark
  <2>3. QED
    BY <2>1, <2>2
<1>15. CASE TransitionUnsafe \/ TransitionBlocked
  BY <1>15 DEF TransitionUnsafe, TransitionBlocked, Transition, Mark
<1>16. CASE WriteStageStatus
  BY <1>16 DEF WriteStageStatus, End, StageInv, MarkInv, AfterProduction
<1>17. CASE Release
  BY <1>17 DEF Release, End
<1>18. CASE Raise \/ Kill
  <2>1. pc' = "idle" \/ (pc' = "mark" /\ pending'.next = "raise")
    BY <1>18 DEF Raise, Kill, Mark, End
  <2>2. QED
    BY <2>1
<1>19. CASE UNCHANGED vars
  BY <1>19 DEF vars, artifacts
<1>20. QED
  BY <1>1, <1>2, <1>3, <1>4, <1>5, <1>6, <1>7, <1>8, <1>9, <1>10, <1>11, <1>12, <1>13, <1>14,
     <1>15, <1>16, <1>17, <1>18, <1>19 DEF Next, Statement

----------------------------------------------------------------------------
(* The ISOs                                                                *)

\* No record of a manifest, an ISO or a marker is mistaken for an absent or a
\* torn file.
LEMMA FilesAreContents ==
    /\ \A t \in Trees : t \notin {None, Torn}
    /\ \A m \in Manifests : m \notin {None, Torn}
    /\ \A k \in Markers : k \notin {None, Torn}
BY NotAFile

\* An ISO is one build's tree, and the manifest beside the ISO being written
\* describes that ISO.
IsoInv ==
    /\ pc \in {"manifest", "sidecar"} => iso[target] = tree
    /\ pc = "sidecar" => man[target] = [commit |-> run.commit, iso |-> iso[target]]
    /\ \A v \in Variants : iso[v] \in Trees => \E n \in 1..run.n : iso[v].runs = {n}

\* dist/ is empty at first.
LEMMA IsoInitially == Init => IsoInv
BY FilesAreContents DEF Init, IsoInv

\* Only the rebuild writes an ISO, from a tree that holds this build's files
\* and no other's.
LEMMA IsoStep == IInv /\ StageInv /\ TreeInv /\ IsoInv /\ [Next]_vars => IsoInv'
<1> SUFFICES ASSUME IInv, StageInv, TreeInv, IsoInv, [Next]_vars PROVE IsoInv'
  OBVIOUS
<1> USE DEF IsoInv
<1>n. run.n \in Nat
  BY DEF IInv, TypeOK
<1>1. CASE Environment
  BY <1>1 DEF Environment, Fetch, Checkout, Clean, artifacts
<1>2. CASE StartBuild
  <2>1. run'.n = run.n + 1 /\ pc' = "verify" /\ iso' = iso
    BY <1>2 DEF StartBuild, artifacts
  <2>2. QED
    BY <1>n, <2>1
<1>3. CASE Verify \/ ResetExtractedWorkspace \/ Extract \/ ReportElTorito \/ ApplyOverlay
           \/ BuildWheel \/ CollectPayload \/ CopyPayload \/ StampTree
  BY <1>3 DEF Verify, ResetExtractedWorkspace, Extract, ReportElTorito, ApplyOverlay,
              BuildWheel, CollectPayload, CopyPayload, StampTree, artifacts
<1>4. CASE Rebuild
  <2>1. /\ iso' = [iso EXCEPT ![target] = tree] /\ pc' = "manifest"
        /\ UNCHANGED <<tree, run, target>>
    BY <1>4 DEF Rebuild
  <2>2. target \in Variants /\ iso \in [Variants -> Trees \cup {None, Torn}]
    BY DEF IInv, TypeOK
  <2>3. tree.runs = {run.n} /\ run.n \in 1..run.n
    BY <1>4 DEF Rebuild, TreeInv, InUse, Extracted, Stamped, RebuildTry, IInv, InHand
  <2>4. QED
    BY <2>1, <2>2, <2>3
<1>5. CASE WriteManifest
  BY <1>5 DEF WriteManifest, IInv, TypeOK
<1>6. CASE WriteSidecar
  BY <1>6 DEF WriteSidecar, Mark
<1>7. CASE TransitionDone \/ TransitionUnsafe \/ TransitionBlocked
  BY <1>7 DEF TransitionDone, TransitionUnsafe, TransitionBlocked, Transition, Mark,
              artifacts
<1>8. CASE WriteStageStatus \/ Release
  <2>1. pc' \notin {"manifest", "sidecar"} /\ UNCHANGED <<iso, run>>
    BY <1>8 DEF WriteStageStatus, Release, End, IInv, InHand, artifacts
  <2>2. QED
    BY <2>1
<1>9. CASE Raise \/ Kill
  <2>1. pc' \in {"idle", "mark"} /\ UNCHANGED <<run, target>>
    BY <1>9 DEF Raise, Kill, Mark, End
  <2>2. iso' \in {iso, [iso EXCEPT ![target] = Torn]}
    BY <1>9 DEF Raise, Kill, Damage
  <2>3. target \in Variants /\ iso \in [Variants -> Trees \cup {None, Torn}]
    BY DEF IInv, TypeOK
  <2>4. QED
    BY <2>1, <2>2, <2>3, FilesAreContents
<1>10. CASE UNCHANGED vars
  BY <1>10 DEF vars, artifacts
<1>11. QED
  BY <1>1, <1>2, <1>3, <1>4, <1>5, <1>6, <1>7, <1>8, <1>9, <1>10 DEF Next, Statement

\* The tree and the ISOs, at every moment of every build.
THEOREM MediaInvariance == Spec => [](TreeInv /\ IsoInv)
BY TreeInitially, TreeStep, IsoInitially, IsoStep, Invariance, StageInvariance, PTL
   DEF Spec

\* Whatever an aborted build left in the extraction tree, every ISO in dist/
\* holds the files of exactly one build.
THEOREM NothingLeftOver == Spec => []NoLeftovers
<1>1. IInv /\ IsoInv => NoLeftovers
  <2> SUFFICES ASSUME IInv, IsoInv, NEW v \in Variants, iso[v] \notin {None, Torn}
               PROVE  Cardinality(iso[v].runs) = 1
    BY DEF NoLeftovers
  <2>1. PICK n \in 1..run.n : iso[v].runs = {n}
    BY DEF IInv, TypeOK, IsoInv
  <2>2. QED
    BY <2>1, FS_Singleton
<1>2. QED
  BY <1>1, Invariance, MediaInvariance, PTL

----------------------------------------------------------------------------
(* What a passed stage left in dist/                                       *)

\* The ISO of this build and its sidecars, as the strict inspector wants them
\* except for the payload hashes.
Sound(v) ==
    /\ iso[v] \in Trees
    /\ sha[v] = iso[v]
    /\ man[v] = [commit |-> run.commit, iso |-> iso[v]]
    /\ iso[v].boot # "none" /\ iso[v].commit = run.commit /\ iso[v].intact
    /\ iso[v].sums # None /\ iso[v].wheel # None

\* Variant v is called passed by these stages.
Passed(stages, v) ==
    IF v = "prod" THEN stages.production_build = Pass ELSE stages.qa_build = Pass

\* What is on record, or about to be, is sound.
SoundInv ==
    \A v \in Variants :
        /\ Recorded /\ Passed(marker.stages, v) => Sound(v)
        /\ pc = "mark" /\ Passed(pending.stages, v) => Sound(v)

\* A running build that has written a marker finds it when it reads it back.
LEMMA OnRecordIsRecorded ==
    ASSUME IInv, pc # "idle", NEW p \in Statuses, NEW t \in Statuses, NEW q \in Statuses,
           OnRecord(p, t, q)
    PROVE  Recorded /\ marker.stages = Stages(p, t, q)
<1>1. [by |-> run.n, stages |-> Stages(p, t, q)] \in Markers
  BY StagesTyped DEF IInv, InHand, Markers
<1>2. QED
  BY <1>1, FilesAreContents DEF OnRecord, Recorded

\* Nothing is on record at first.
LEMMA SoundInitially == Init => SoundInv
BY DEF Init, SoundInv, Recorded

\* A rebuild of one variant leaves the variant that is on record alone, and
\* the sidecar completes what the manifest and the ISO began.
LEMMA SoundStep ==
    IInv /\ StageInv /\ TreeInv /\ IsoInv /\ SoundInv /\ [Next]_vars => SoundInv'
<1> SUFFICES ASSUME IInv, StageInv, TreeInv, IsoInv, SoundInv, [Next]_vars,
                    NEW v \in Variants
             PROVE  /\ Recorded' /\ Passed(marker'.stages, v) => Sound(v)'
                    /\ pc' = "mark" /\ Passed(pending'.stages, v) => Sound(v)'
  BY DEF SoundInv
<1>s. /\ Recorded /\ Passed(marker.stages, v) => Sound(v)
      /\ pc = "mark" /\ Passed(pending.stages, v) => Sound(v)
  BY DEF SoundInv
<1>n. run.n \in Nat
  BY DEF IInv, TypeOK
\* A step that changes neither dist/ nor the build.
<1>a. ASSUME UNCHANGED <<artifacts, marker, run>>, pc' # "mark" \/ UNCHANGED <<pc, pending>>
      PROVE  /\ Recorded' /\ Passed(marker'.stages, v) => Sound(v)'
             /\ pc' = "mark" /\ Passed(pending'.stages, v) => Sound(v)'
  BY <1>a, <1>s DEF artifacts, Recorded, Sound
\* Before its marker, nothing of this build is on record.
<1>b. ASSUME NotYetRecorded PROVE ~Recorded
  BY <1>b, <1>n DEF NotYetRecorded, Recorded
<1>r. ASSUME pc \in RebuildTry, Recorded, Passed(marker.stages, v)
      PROVE  target = "qa" /\ v = "prod"
  <2>1. target # "prod" /\ OnRecord(Pass, Pass, NotPerformed)
    BY <1>r, <1>b DEF StageInv
  <2>2. marker.stages.qa_build # Pass
    BY <2>1 DEF OnRecord, Stages, Pass, NotPerformed
  <2>3. QED
    BY <1>r, <2>1, <2>2 DEF Passed, Variants, IInv, TypeOK
<1>1. CASE Environment
  <2>1. UNCHANGED <<artifacts, marker, run, pc, pending>>
    BY <1>1 DEF Environment, Fetch, Checkout, Clean
  <2>2. QED
    BY <1>a, <2>1
<1>2. CASE StartBuild
  <2>1. run'.n = run.n + 1 /\ marker' = marker /\ pc' = "verify"
    BY <1>2 DEF StartBuild
  <2>2. marker \notin {None, Torn} => marker.by \in Nat /\ marker.by <= run.n
    BY DEF StageInv, IInv, TypeOK, Markers
  <2>3. ~Recorded'
    BY <1>n, <2>1, <2>2 DEF Recorded
  <2>4. QED
    BY <2>1, <2>3
<1>3. CASE Verify \/ ResetExtractedWorkspace \/ Extract \/ ReportElTorito \/ ApplyOverlay
           \/ BuildWheel \/ CollectPayload \/ CopyPayload \/ StampTree
  <2>1. UNCHANGED <<artifacts, marker, run>> /\ pc' # "mark"
    BY <1>3 DEF Verify, ResetExtractedWorkspace, Extract, ReportElTorito, ApplyOverlay,
                BuildWheel, CollectPayload, CopyPayload, StampTree
  <2>2. QED
    BY <1>a, <2>1
<1>4. CASE Rebuild \/ WriteManifest
  <2>1. /\ pc \in RebuildTry /\ pc' # "mark"
        /\ UNCHANGED <<sha, marker, run>>
        /\ iso' \in {iso, [iso EXCEPT ![target] = tree]}
        /\ man' \in {man, [man EXCEPT ![target] = [commit |-> run.commit, iso |-> iso[target]]]}
    BY <1>4 DEF Rebuild, WriteManifest, RebuildTry
  <2>2. target = "qa" /\ v = "prod" => iso'[v] = iso[v] /\ man'[v] = man[v]
    BY <2>1 DEF IInv, TypeOK, Variants
  <2>3. QED
    BY <1>r, <1>s, <2>1, <2>2 DEF Recorded, Sound
<1>5. CASE WriteSidecar
  <2>1. /\ pc = "sidecar" /\ pc' = "mark"
        /\ sha' = [sha EXCEPT ![target] = man[target].iso]
        /\ UNCHANGED <<iso, man, marker, run, target, tree>>
        /\ pending'.stages = (IF target = "prod" THEN Stages(Pass, NotPerformed, NotPerformed)
                                                 ELSE Stages(Pass, Pass, Pass))
    BY <1>5 DEF WriteSidecar, Mark
  <2>2. /\ target \in Variants /\ sha \in [Variants -> Trees \cup {None, Torn}]
        /\ iso[target] \in Trees
    BY <2>1 DEF IInv, InHand, TypeOK
  <2>3. man[target] = [commit |-> run.commit, iso |-> iso[target]] /\ iso[target] = tree
    BY <2>1 DEF IsoInv
  <2>4. /\ tree.boot # "none" /\ tree.commit = run.commit /\ tree.intact
        /\ tree.sums # None /\ tree.wheel # None
    BY <2>1 DEF TreeInv, InUse, Stamped, Extracted, RebuildTry
  <2>5. CASE v = target
    BY <2>1, <2>2, <2>3, <2>4, <2>5 DEF Sound
  <2>6. CASE v # target
    <3>1. sha'[v] = sha[v]
      BY <2>1, <2>2, <2>6
    <3>2. Sound(v) => Sound(v)'
      BY <2>1, <3>1 DEF Sound
    <3>3. Passed(pending'.stages, v) => target = "qa" /\ v = "prod"
      BY <2>1, <2>2, <2>6 DEF Passed, Stages, Pass, NotPerformed, Variants
    <3>4. target = "qa" => Recorded /\ marker.stages.production_build = Pass
      <4>1. target = "qa" => OnRecord(Pass, Pass, NotPerformed)
        BY <2>1 DEF StageInv, RebuildTry
      <4>2. QED
        BY <2>1, <4>1, OnRecordIsRecorded, StatusesTyped DEF OnRecord, Stages
    <3>5. QED
      BY <1>s, <2>1, <3>2, <3>3, <3>4 DEF Recorded, Passed
  <2>7. QED
    BY <2>5, <2>6
<1>6. CASE TransitionDone \/ TransitionUnsafe \/ TransitionBlocked
  <2>1. /\ pc = "transition"
        /\ UNCHANGED <<artifacts, marker, run>>
        /\ pending'.stages \in {Stages(Pass, t, NotPerformed) : t \in {Pass, Fail}}
    BY <1>6 DEF TransitionDone, TransitionUnsafe, TransitionBlocked, Transition, Mark
  <2>2. Passed(pending'.stages, v) => v = "prod"
    BY <2>1 DEF Passed, Stages, Pass, NotPerformed
  <2>3. OnRecord(Pass, NotPerformed, NotPerformed)
    BY <2>1 DEF StageInv
  <2>4. Recorded /\ marker.stages.production_build = Pass
    BY <2>1, <2>3, OnRecordIsRecorded, StatusesTyped DEF OnRecord, Stages
  <2>5. QED
    BY <1>s, <2>1, <2>2, <2>4 DEF artifacts, Sound, Recorded, Passed
<1>7. CASE WriteStageStatus
  <2>1. /\ pc = "mark" /\ marker' = [by |-> run.n, stages |-> pending.stages]
        /\ UNCHANGED <<artifacts, run>>
    BY <1>7 DEF WriteStageStatus
  <2>2. pc' # "mark"
    BY <1>7 DEF WriteStageStatus, End, IInv, InHand
  <2>3. Sound(v) => Sound(v)'
    BY <2>1 DEF artifacts, Sound
  <2>4. QED
    BY <1>s, <2>1, <2>2, <2>3
<1>8. CASE Release
  <2>1. UNCHANGED <<artifacts, marker, run>> /\ pc' = "idle"
    BY <1>8 DEF Release, End
  <2>2. QED
    BY <1>a, <2>1
<1>9. CASE Raise \/ Kill
  <2>1. /\ UNCHANGED <<run, target>> /\ Damage
        /\ \/ pc' = "idle"
           \/ /\ pc' = "mark" /\ pc \in ProductionTry \cup RebuildTry
              /\ pending'.stages = RecordedFailure
    BY <1>9 DEF Raise, Kill, Mark, End
  <2>2. marker' \in {marker, Torn}
    BY <2>1 DEF Damage
  <2>3. /\ pc \notin RebuildTry => UNCHANGED artifacts
        /\ iso' \in {iso, [iso EXCEPT ![target] = Torn]}
        /\ man' \in {man, [man EXCEPT ![target] = Torn]}
        /\ sha' \in {sha, [sha EXCEPT ![target] = Torn]}
    BY <2>1 DEF Damage, RebuildTry, artifacts
  <2>4. v # target => iso'[v] = iso[v] /\ man'[v] = man[v] /\ sha'[v] = sha[v]
    BY <2>3 DEF IInv, TypeOK
  <2>5. pc \notin RebuildTry \/ v # target => (Sound(v) => Sound(v)')
    BY <2>1, <2>3, <2>4 DEF Sound, artifacts
  <2>6. Recorded' /\ Passed(marker'.stages, v) => Sound(v)'
    BY <1>r, <1>s, <2>1, <2>2, <2>5 DEF Recorded
  <2>7. ASSUME pc' = "mark", Passed(pending'.stages, v) PROVE Sound(v)'
    <3>1. target = "qa" /\ v = "prod"
      BY <2>1, <2>7 DEF RecordedFailure, Passed, Stages, Pass, Fail, NotPerformed, IInv,
                        TypeOK, Variants
    <3>2. pc \in RebuildTry /\ OnRecord(Pass, Pass, NotPerformed)
      BY <2>1, <2>7, <3>1 DEF StageInv
    <3>3. Recorded /\ marker.stages.production_build = Pass
      BY <3>2, OnRecordIsRecorded, StatusesTyped DEF OnRecord, Stages, RebuildTry
    <3>4. QED
      BY <1>s, <2>5, <3>1, <3>3 DEF Passed
  <2>8. QED
    BY <2>6, <2>7
<1>10. CASE UNCHANGED vars
  BY <1>a, <1>10 DEF vars
<1>11. QED
  BY <1>1, <1>2, <1>3, <1>4, <1>5, <1>6, <1>7, <1>8, <1>9, <1>10 DEF Next, Statement

\* Every build there has been was started for a commit.
RunInv == run.n > 0 => run.commit \in Revisions

\* It holds before the first build and a build's number and commit are set
\* together.
THEOREM RunInvariance == Spec => []RunInv
<1>1. Init => RunInv
  BY DEF Init, RunInv
<1>2. IInv /\ RunInv /\ [Next]_vars => RunInv'
  <2> SUFFICES ASSUME IInv, RunInv, [Next]_vars PROVE RunInv'
    OBVIOUS
  <2>1. CASE StartBuild
    BY <2>1 DEF StartBuild, RunInv, IInv, TypeOK
  <2>2. CASE UNCHANGED run
    BY <2>2 DEF RunInv
  <2>3. StartBuild \/ UNCHANGED run
    BY DEF Next, vars, Environment, Fetch, Checkout, Clean, Statement, Verify,
       ResetExtractedWorkspace, Extract, ReportElTorito, ApplyOverlay, BuildWheel,
       CollectPayload, CopyPayload, StampTree, Rebuild, WriteManifest, WriteSidecar,
       TransitionDone, TransitionUnsafe, TransitionBlocked, Transition, WriteStageStatus,
       Release, Raise, Kill
  <2>4. QED
    BY <2>1, <2>2, <2>3
<1>3. QED
  BY <1>1, <1>2, Invariance, PTL DEF Spec

\* What is on record is in dist/, at every moment of every build.
THEOREM SoundInvariance == Spec => []SoundInv
BY SoundInitially, SoundStep, Invariance, StageInvariance, MediaInvariance, PTL DEF Spec

\* Up to the payload hashes, a sound ISO is one the strict inspector accepts.
LEMMA SoundIsAccepted ==
    ASSUME NEW v \in Variants, IInv, run.commit \in Revisions, Sound(v)
    PROVE  StrictPassed(v, run.commit) \/ iso[v].res # iso[v].sums
<1>1. man[v] \in Manifests
  BY DEF Sound, Manifests
<1>2. iso[v] \notin {None, Torn} /\ man[v] \notin {None, Torn}
  BY <1>1, FilesAreContents DEF Sound
<1>3. QED
  BY <1>2 DEF Sound, StrictPassed

\* A build that has a marker on disk has a commit.
LEMMA RecordedCommit == Recorded /\ IInv /\ RunInv => run.commit \in Revisions
BY DEF Recorded, IInv, TypeOK, Markers, RunInv

\* A production ISO its build calls passed is one the strict inspector accepts,
\* or holds a payload file that changed between being hashed and being copied:
\* no crash, failure or later step makes it unacceptable for another reason.
THEOREM OnlyMixedPayload == Spec => []RejectedOnlyForMixedPayload
<1>1. IInv /\ RunInv /\ SoundInv => RejectedOnlyForMixedPayload
  BY SoundIsAccepted, RecordedCommit DEF SoundInv, Passed, RejectedOnlyForMixedPayload, Variants
<1>2. QED
  BY <1>1, Invariance, RunInvariance, SoundInvariance, PTL

----------------------------------------------------------------------------
(* The working tree is left alone while a build runs                       *)

\* One revision everywhere: hashed, copied and recorded.
PureInv ==
    /\ pc # "idle" => head = run.commit
    /\ pc \in {"copy", "stamp"} => local.sums = run.commit
    /\ pc = "stamp" => tree.res = run.commit
    /\ InUse(Stamped) => tree.res = tree.sums
    /\ \A v \in Variants : iso[v] \in Trees => iso[v].res = iso[v].sums

\* Nothing is hashed or copied at first.
LEMMA PureInitially == Init => PureInv
BY FilesAreContents DEF Init, PureInv, InUse, Stamped, RebuildTry

\* The revision a build starts from is the one every statement reads.
LEMMA PureStep ==
    ASSUME ~EditInFlight
    PROVE  IInv /\ StageInv /\ PureInv /\ [Next]_vars => PureInv'
<1> SUFFICES ASSUME IInv, StageInv, PureInv, [Next]_vars PROVE PureInv'
  OBVIOUS
<1> USE DEF PureInv, InUse, Stamped, RebuildTry
<1>t. tree \in Trees /\ iso \in [Variants -> Trees \cup {None, Torn}] /\ target \in Variants
  BY DEF IInv, TypeOK
<1>1. CASE Environment
  BY <1>1 DEF Environment, Fetch, Checkout, Clean, artifacts
<1>2. CASE StartBuild
  BY <1>2 DEF StartBuild, artifacts
<1>3. CASE Verify \/ ResetExtractedWorkspace \/ Extract \/ ReportElTorito \/ ApplyOverlay
           \/ BuildWheel
  BY <1>3 DEF Verify, ResetExtractedWorkspace, Extract, ReportElTorito, ApplyOverlay,
              BuildWheel, artifacts
<1>4. CASE CollectPayload
  <2>1. local'.sums = head
    BY <1>4 DEF CollectPayload, IInv, TypeOK
  <2>2. QED
    BY <1>4, <2>1 DEF CollectPayload, artifacts
<1>5. CASE CopyPayload
  <2>1. tree'.res = head
    BY <1>t, <1>5 DEF CopyPayload, Trees
  <2>2. QED
    BY <1>5, <2>1 DEF CopyPayload, artifacts
<1>6. CASE StampTree
  <2>1. tree'.res = tree.res /\ tree'.sums = local.sums
    BY <1>t, <1>6 DEF StampTree, Trees
  <2>2. QED
    BY <1>6, <2>1 DEF StampTree, artifacts
<1>7. CASE Rebuild
  BY <1>t, <1>7 DEF Rebuild
<1>8. CASE WriteManifest \/ WriteSidecar
  BY <1>8 DEF WriteManifest, WriteSidecar, Mark, AfterProduction
<1>9. CASE TransitionDone \/ TransitionUnsafe \/ TransitionBlocked
  <2>1. tree' \in {tree, QaTree, [QaTree EXCEPT !.intact = FALSE]} /\ pc = "transition"
        /\ pc' = "mark" /\ UNCHANGED <<head, run, iso>>
    BY <1>9 DEF TransitionDone, TransitionUnsafe, TransitionBlocked, Transition, Mark,
                artifacts
  <2>2. tree'.res = tree.res /\ tree'.sums = tree.sums
    BY <1>t, <2>1 DEF QaTree, Trees
  <2>3. QED
    BY <2>1, <2>2
<1>10. CASE WriteStageStatus
  BY <1>10 DEF WriteStageStatus, End, StageInv, MarkInv, AfterProduction, artifacts
<1>11. CASE Release
  BY <1>11 DEF Release, End, artifacts
<1>12. CASE Raise \/ Kill
  <2>1. UNCHANGED <<head, run>>
        /\ (pc' = "idle" \/ (pc' = "mark" /\ pc # "idle" /\ pending'.next = "raise"))
    BY <1>12 DEF Raise, Kill, Mark, End
  <2>2. iso' \in {iso, [iso EXCEPT ![target] = Torn]}
    BY <1>12 DEF Raise, Kill, Damage
  <2>3. \A v \in Variants : iso'[v] \in Trees => iso'[v] = iso[v]
    BY <1>t, <2>2, FilesAreContents
  <2>4. QED
    BY <2>1, <2>3
<1>13. CASE UNCHANGED vars
  BY <1>13 DEF vars, artifacts
<1>14. QED
  BY <1>1, <1>2, <1>3, <1>4, <1>5, <1>6, <1>7, <1>8, <1>9, <1>10, <1>11, <1>12, <1>13
     DEF Next, Statement

\* If the working tree is not edited under a running build, a stage the marker
\* calls passed left media the strict inspector accepts for the recorded
\* commit, at any later moment and whatever fails afterwards.
THEOREM GreenMeansGreen ==
    ASSUME ~EditInFlight
    PROVE  Spec => []GreenMarkerInspectsGreen
<1>1. IInv /\ RunInv /\ SoundInv /\ PureInv => GreenMarkerInspectsGreen
  <2> SUFFICES ASSUME IInv, RunInv, SoundInv, PureInv, Recorded, NEW v \in Variants,
                      Passed(marker.stages, v)
               PROVE  StrictPassed(v, run.commit)
    BY DEF GreenMarkerInspectsGreen, Passed, Variants
  <2>1. Sound(v)
    BY DEF SoundInv
  <2>2. iso[v].res = iso[v].sums
    BY <2>1 DEF Sound, PureInv
  <2>3. QED
    BY <2>1, <2>2, SoundIsAccepted, RecordedCommit
<1>2. Spec => []PureInv
  BY PureInitially, PureStep, Invariance, StageInvariance, PTL DEF Spec
<1>3. QED
  BY <1>1, <1>2, Invariance, RunInvariance, SoundInvariance, PTL

----------------------------------------------------------------------------
(* The two ISOs of one build                                               *)

\* The QA tree is the tree of the production ISO, booted differently; until
\* that ISO is finished no QA ISO belongs to this build.
PairInv ==
    /\ pc # "idle" /\ target = "prod" /\ iso["qa"] \in Trees => iso["qa"].runs # {run.n}
    /\ InUse({"transition"}) => iso["prod"] = tree
    /\ InUse(RebuildTry) /\ target = "qa" =>
         iso["prod"] \in Trees /\ iso["prod"] = [tree EXCEPT !.boot = "upstream"]
    /\ QaCarriesProductionPayload

\* There are no ISOs at first.
LEMMA PairInitially == Init => PairInv
BY FilesAreContents
   DEF Init, PairInv, InUse, RebuildTry, QaCarriesProductionPayload, Variants

\* Changing the boot configuration and changing it back gives the same tree.
LEMMA BootIsAllThatChanges ==
    \A t \in Trees : t.boot = "upstream" =>
        [[t EXCEPT !.boot = "qa"] EXCEPT !.boot = "upstream"] = t
BY DEF Trees

\* The production ISO is rebuilt from the tree that is patched next; no other
\* file of that tree is touched on the way to the QA ISO.
LEMMA PairStep ==
    IInv /\ StageInv /\ TreeInv /\ IsoInv /\ PairInv /\ [Next]_vars => PairInv'
<1> SUFFICES ASSUME IInv, StageInv, TreeInv, IsoInv, PairInv, [Next]_vars PROVE PairInv'
  OBVIOUS
<1> USE DEF PairInv, InUse, RebuildTry
<1>t. /\ tree \in Trees /\ iso \in [Variants -> Trees \cup {None, Torn}]
      /\ target \in Variants /\ run.n \in Nat /\ "prod" \in Variants /\ "qa" \in Variants
  BY DEF IInv, TypeOK, Variants
<1>k. UNCHANGED iso => QaCarriesProductionPayload'
  BY DEF QaCarriesProductionPayload
<1>1. CASE Environment
  BY <1>1, <1>k DEF Environment, Fetch, Checkout, Clean, artifacts
<1>2. CASE StartBuild
  <2>1. run'.n = run.n + 1 /\ pc' = "verify" /\ target' = "prod" /\ iso' = iso
    BY <1>2 DEF StartBuild, artifacts
  <2>2. ASSUME iso["qa"] \in Trees PROVE iso["qa"].runs # {run.n + 1}
    <3>1. PICK n \in 1..run.n : iso["qa"].runs = {n}
      BY <1>t, <2>2 DEF IsoInv
    <3>2. n # run.n + 1
      BY <1>t
    <3>3. QED
      BY <3>1, <3>2
  <2>3. QED
    BY <1>k, <2>1, <2>2
<1>3. CASE Verify \/ ResetExtractedWorkspace \/ Extract \/ ReportElTorito \/ ApplyOverlay
           \/ BuildWheel \/ CollectPayload \/ CopyPayload \/ StampTree
  BY <1>3, <1>k
     DEF Verify, ResetExtractedWorkspace, Extract, ReportElTorito, ApplyOverlay,
         BuildWheel, CollectPayload, CopyPayload, StampTree, artifacts, StageInv,
         ProductionTry
<1>4. CASE Rebuild
  <2>1. /\ pc = "rebuild" /\ pc' = "manifest" /\ iso' = [iso EXCEPT ![target] = tree]
        /\ UNCHANGED <<tree, run, target>>
    BY <1>4 DEF Rebuild
  <2>2. tree.runs = {run.n} /\ tree \notin {None, Torn}
    BY <1>t, <2>1, FilesAreContents DEF TreeInv, Extracted, Stamped
  <2>3. CASE target = "prod"
    <3>1. iso'["prod"] = tree /\ iso'["qa"] = iso["qa"]
      BY <1>t, <2>1, <2>3
    <3>2. QaCarriesProductionPayload'
      BY <1>t, <2>1, <2>2, <2>3, <3>1 DEF QaCarriesProductionPayload
    <3>3. QED
      BY <2>1, <2>3, <3>1, <3>2
  <2>4. CASE target = "qa"
    <3>1. iso'["prod"] = iso["prod"] /\ iso'["qa"] = tree
      BY <1>t, <2>1, <2>4
    <3>2. QaCarriesProductionPayload'
      BY <2>1, <2>4, <3>1 DEF QaCarriesProductionPayload
    <3>3. QED
      BY <2>1, <2>4, <3>1, <3>2
  <2>5. QED
    BY <1>t, <2>3, <2>4 DEF Variants
<1>5. CASE WriteManifest
  BY <1>5, <1>k DEF WriteManifest
<1>6. CASE WriteSidecar
  <2>1. /\ pc = "sidecar" /\ pc' = "mark" /\ UNCHANGED <<iso, tree, run, target>>
        /\ pending'.next = (IF target = "prod" THEN AfterProduction ELSE "release")
    BY <1>6 DEF WriteSidecar, Mark
  <2>2. iso[target] = tree
    BY <2>1 DEF IsoInv
  <2>3. QED
    BY <1>k, <2>1, <2>2 DEF AfterProduction
<1>7. CASE TransitionDone
  <2>1. /\ pc = "transition" /\ pc' = "mark" /\ pending'.next = "rebuild"
        /\ tree' = [tree EXCEPT !.boot = "qa"] /\ target' = "qa" /\ UNCHANGED <<iso, run>>
    BY <1>7 DEF TransitionDone, Transition, Mark, QaTree, artifacts
  <2>2. tree.boot = "upstream"
    BY <2>1 DEF TreeInv, Extracted, Stamped, StageInv
  <2>3. iso["prod"] = tree
    BY <2>1
  <2>4. [tree' EXCEPT !.boot = "upstream"] = tree
    BY <1>t, <2>1, <2>2, BootIsAllThatChanges
  <2>5. QED
    BY <1>k, <1>t, <2>1, <2>3, <2>4
<1>8. CASE TransitionUnsafe \/ TransitionBlocked
  BY <1>8, <1>k
     DEF TransitionUnsafe, TransitionBlocked, Transition, Mark, artifacts
<1>9. CASE WriteStageStatus
  BY <1>9, <1>k DEF WriteStageStatus, End, artifacts
<1>10. CASE Release
  BY <1>10, <1>k DEF Release, End, artifacts
<1>11. CASE Raise \/ Kill
  <2>1. UNCHANGED <<run, target>>
        /\ (pc' = "idle" \/ (pc' = "mark" /\ pc # "idle" /\ pending'.next = "raise"))
    BY <1>11 DEF Raise, Kill, Mark, End
  <2>2. iso' \in {iso, [iso EXCEPT ![target] = Torn]}
    BY <1>11 DEF Raise, Kill, Damage
  <2>3. \A v \in Variants : iso'[v] \notin {None, Torn} => iso'[v] = iso[v]
    BY <1>t, <2>2
  <2>4. QaCarriesProductionPayload'
    BY <1>t, <2>3 DEF QaCarriesProductionPayload
  <2>5. iso'["qa"] \in Trees => iso'["qa"] = iso["qa"]
    BY <1>t, <2>3, FilesAreContents
  <2>6. QED
    BY <2>1, <2>4, <2>5
<1>12. CASE UNCHANGED vars
  BY <1>12, <1>k DEF vars, artifacts
<1>13. QED
  BY <1>1, <1>2, <1>3, <1>4, <1>5, <1>6, <1>7, <1>8, <1>9, <1>10, <1>11, <1>12
     DEF Next, Statement

\* The two ISOs of one build differ in the boot configuration only, whatever
\* happened to the builds before it and to the working tree under it.
THEOREM OnlyBootDiffers == Spec => []QaCarriesProductionPayload
<1>1. PairInv => QaCarriesProductionPayload
  BY DEF PairInv
<1>2. QED
  BY <1>1, PairInitially, PairStep, Invariance, StageInvariance, MediaInvariance, PTL
     DEF Spec

----------------------------------------------------------------------------
(* How a build ends                                                        *)

\* Stages with which run_build may return.
Settled(stages) ==
    /\ stages.production_build = Pass
    /\ run.qa <=> stages.qa_transition # NotPerformed
    /\ stages.qa_transition = Pass <=> stages.qa_build = Pass
    /\ stages.qa_build # Fail

\* The marker about to be written is the one the way the build ends calls for.
EndInv ==
    /\ pc # "idle" => outcome.how = "none"
    /\ pc # "idle" /\ (target = "qa" \/ InUse({"transition"})) => run.qa
    /\ pc = "mark" /\ pending.next = "release" => Settled(pending.stages)
    /\ pc = "mark" /\ pending.next = "raise" /\ pending.at \in ProductionTry \cup RebuildTry
         => pending.stages = RecordedFailure
    /\ pc = "release" => Settled(marker.stages)
    /\ OutcomeRecorded

\* No build has ended at first.
LEMMA EndInitially == Init => EndInv
BY DEF Init, EndInv, InUse, OutcomeRecorded

\* A build ends by returning from Release, by re-raising what it has recorded,
\* or outside the two try blocks.
LEMMA EndStep == IInv /\ StageInv /\ EndInv /\ [Next]_vars => EndInv'
<1> SUFFICES ASSUME IInv, StageInv, EndInv, [Next]_vars PROVE EndInv'
  OBVIOUS
<1> USE DEF EndInv, InUse
<1>k. UNCHANGED <<outcome, marker, run, target>> => OutcomeRecorded'
  BY DEF OutcomeRecorded, Recorded
<1>r. outcome'.how = "none" => OutcomeRecorded'
  BY DEF OutcomeRecorded
<1>1. CASE Environment
  BY <1>1, <1>k DEF Environment, Fetch, Checkout, Clean, Settled, RecordedFailure
<1>2. CASE StartBuild
  BY <1>2, <1>r DEF StartBuild
<1>3. CASE Verify \/ ResetExtractedWorkspace \/ Extract \/ ReportElTorito \/ ApplyOverlay
           \/ BuildWheel \/ CollectPayload \/ CopyPayload \/ StampTree \/ Rebuild
           \/ WriteManifest
  BY <1>3, <1>r
     DEF Verify, ResetExtractedWorkspace, Extract, ReportElTorito, ApplyOverlay,
         BuildWheel, CollectPayload, CopyPayload, StampTree, Rebuild, WriteManifest
<1>4. CASE WriteSidecar
  <2>1. /\ pc = "sidecar" /\ pc' = "mark" /\ UNCHANGED <<run, target, outcome>>
        /\ IF target = "prod"
             THEN /\ pending'.stages = Stages(Pass, NotPerformed, NotPerformed)
                  /\ pending'.next = AfterProduction
             ELSE /\ pending'.stages = Stages(Pass, Pass, Pass)
                  /\ pending'.next = "release"
    BY <1>4 DEF WriteSidecar, Mark
  <2>2. target \in {"prod", "qa"} /\ run.qa \in BOOLEAN
    BY DEF IInv, TypeOK, Variants
  <2>3. QED
    BY <1>r, <2>1, <2>2
       DEF AfterProduction, Settled, Stages, Pass, Fail, NotPerformed
<1>5. CASE TransitionDone \/ TransitionUnsafe \/ TransitionBlocked
  <2>1. /\ pc = "transition" /\ pc' = "mark" /\ UNCHANGED <<run, outcome>>
        /\ pending'.at = "transition"
        /\ pending'.next # "transition"
        /\ pending'.next = "release" => pending'.stages = Stages(Pass, Fail, NotPerformed)
    BY <1>5 DEF TransitionDone, TransitionUnsafe, TransitionBlocked, Transition, Mark
  <2>2. QED
    BY <1>r, <2>1 DEF Settled, Stages, Pass, Fail, NotPerformed, ProductionTry, RebuildTry
<1>6. CASE WriteStageStatus
  <2>1. /\ pc = "mark" /\ marker' = [by |-> run.n, stages |-> pending.stages]
        /\ UNCHANGED <<run, target>>
        /\ IF pending.next = "raise"
             THEN pc' = "idle" /\ outcome' = [how |-> "raised", at |-> pending.at]
             ELSE pc' = pending.next /\ outcome' = outcome
    BY <1>6 DEF WriteStageStatus, End
  <2>2. Recorded' /\ marker'.stages = pending.stages
    <3>1. marker' \in Markers
      BY <2>1 DEF Markers, IInv, InHand, TypeOK
    <3>2. QED
      BY <2>1, <3>1, FilesAreContents DEF Recorded
  <2>3. CASE pending.next = "raise"
    BY <2>1, <2>2, <2>3
       DEF OutcomeRecorded, RecordedFailure, Stages, Pass, Fail, NotPerformed
  <2>4. CASE pending.next # "raise"
    <3>1. pc' # "mark" /\ pc' \in Labels
      BY <2>1, <2>4 DEF IInv, InHand, TypeOK
    <3>2. target' = "qa" \/ InUse({"transition"})' => run'.qa
      BY <2>1, <2>4, <3>1
    <3>3. pc' = "release" => Settled(marker.stages)'
      BY <2>1, <2>2, <2>4 DEF Settled
    <3>4. outcome'.how = "none" /\ OutcomeRecorded'
      BY <1>r, <2>1, <2>4
    <3>5. QED
      BY <3>1, <3>2, <3>3, <3>4
  <2>5. QED
    BY <2>3, <2>4
<1>7. CASE Release
  <2>1. /\ pc = "release" /\ pc' = "idle" /\ outcome' = [how |-> "returned", at |-> "release"]
        /\ UNCHANGED <<marker, run>>
    BY <1>7 DEF Release, End
  <2>2. Recorded /\ Settled(marker.stages)
    BY <2>1 DEF StageInv
  <2>3. QED
    BY <2>1, <2>2 DEF OutcomeRecorded, Recorded, Settled, ProductionTry, RebuildTry
<1>8. CASE Raise \/ Kill
  <2>1. /\ UNCHANGED <<run, target>> /\ pc # "idle"
        /\ \/ /\ pc' = "mark" /\ outcome' = outcome
              /\ pending'.stages = RecordedFailure /\ pending'.next = "raise"
           \/ /\ pc' = "idle" /\ outcome'.how = "killed"
           \/ /\ pc' = "idle" /\ outcome' = [how |-> "raised", at |-> pc]
              /\ pc \notin ProductionTry \cup RebuildTry
    BY <1>8 DEF Raise, Kill, Mark, End
  <2>2. RecordedFailure' = RecordedFailure
    BY <2>1 DEF RecordedFailure
  <2>3. QED
    BY <1>r, <2>1, <2>2 DEF OutcomeRecorded
<1>9. CASE UNCHANGED vars
  BY <1>9, <1>k DEF vars, Settled, RecordedFailure
<1>10. QED
  BY <1>1, <1>2, <1>3, <1>4, <1>5, <1>6, <1>7, <1>8, <1>9 DEF Next, Statement

\* A build that returned has settled all it was asked for, and what it raised
\* inside its try blocks is on record for the variant it was building.
THEOREM EndIsRecorded == Spec => []OutcomeRecorded
<1>1. EndInv => OutcomeRecorded
  BY DEF EndInv
<1>2. QED
  BY <1>1, EndInitially, EndStep, Invariance, StageInvariance, PTL DEF Spec
=============================================================================
