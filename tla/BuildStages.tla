---------------------------- MODULE BuildStages ----------------------------
(***************************************************************************)
(* What dist/build-stage-status.json promises to whoever reads it          *)
(* (src/serein/distribution/build.py, class BuildStageStatus): the report  *)
(* of ONE build, whose three stages are settled in order - production      *)
(* build, QA transition, QA build - each at most once, and a stage is      *)
(* settled only after every earlier one passed.  A later build replaces    *)
(* the report; an interrupted write leaves it unreadable.                  *)
(*                                                                         *)
(* BuildPipeline implements this specification.                            *)
(***************************************************************************)
EXTENDS Naturals

CONSTANTS MaxRuns,   \* how many builds may report
          Unreadable \* the content of a report whose write was interrupted

VARIABLE report      \* the number of the reporting build and its stages

Pass    == "pass"
Fail    == "fail"
Pending == "not_performed"

\* The three statuses of a report, in the order the stages run.
Stages(production, transition, build) ==
    [production_build |-> production, qa_transition |-> transition, qa_build |-> build]

NothingPerformed == Stages(Pending, Pending, Pending)

\* Every combination a build can ever report.
Reachable ==
    {Stages(Fail, Pending, Pending), Stages(Pass, Pending, Pending),
     Stages(Pass, Fail, Pending),    Stages(Pass, Pass, Pending),
     Stages(Pass, Pass, Fail),       Stages(Pass, Pass, Pass)}

Report(by, stages) == [by |-> by, stages |-> stages]

Init == report = Report(0, NothingPerformed)

\* A build reports for the first time: the production stage is settled.
FirstReport(by) ==
    /\ report = Unreadable \/ by > report.by
    /\ report' \in {Report(by, Stages(p, Pending, Pending)) : p \in {Pass, Fail}}

\* The reporting build settles its QA transition.
SettleTransition ==
    /\ report # Unreadable
    /\ report.stages = Stages(Pass, Pending, Pending)
    /\ report' \in {Report(report.by, Stages(Pass, t, Pending)) : t \in {Pass, Fail}}

\* The reporting build settles its QA rebuild.
SettleQaBuild ==
    /\ report # Unreadable
    /\ report.stages = Stages(Pass, Pass, Pending)
    /\ report' \in {Report(report.by, Stages(Pass, Pass, q)) : q \in {Pass, Fail}}

\* A write is cut short: nothing more can be read from the file.
WriteInterrupted == report' = Unreadable

Next ==
    \/ \E by \in 1..MaxRuns : FirstReport(by)
    \/ SettleTransition
    \/ SettleQaBuild
    \/ WriteInterrupted

Spec == Init /\ [][Next]_report
=============================================================================
