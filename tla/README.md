# A specification of Serein OS

TLA+ modules, model-checking configurations and machine-checked proofs for the
parts of this repository in which order, failure and shared files decide
whether the result is right: the pipeline that remasters an Ubuntu image into a
production and a QA ISO, the smoke test that boots the result, the CI job that
turns both into evidence; and the five planners (`hardware`, `development`,
`ai`, `cyber`, `veil`) that probe a machine which changes under them, with the
focus policy that is computed from all their reports.

    tlc -workers 2 -config MCBuildPipeline.cfg MCBuildPipeline
    tlc -workers 2 -config Software.cfg MCWorkstation
    tlapm BuildPipelineProofs.tla

`PROJECT.json` lists the runs, the mutants each property is tried against, the
source lines behind every definition, the hazards and the theorems.

## 1. The system and what is hard about it

Serein is a control plane on top of Ubuntu, written in Python. Two kinds of code
live in it.

*Media engineering* (`src/serein/distribution/`, `distribution/scripts/`,
`.github/workflows/iso-smoke.yml`) keeps state in files: a cached base image, an
extraction tree, ISOs with sidecars, JSON markers. It runs external programs
that fail or are killed, patches one tree in place for two different products,
and reports what it did through files that outlive the process.

*Detection and planning* (`hardware`, `development`, `ai`, `cyber`, `veil`,
`focus`, `desktop`, `doctor`) reads `/proc`, `/sys` and tool output and derives
capability reports, plans and doctor checks. It changes nothing on the host,
keeps no state between invocations and locks nothing: an invocation is a dozen
to forty reads and commands, one after another, on a machine that users,
packages, drivers and daemons change meanwhile. A command that does not end in
three seconds is read as a missing one. The plans are carried out by somebody
else, in part, in any order, at once or long after. And the same question (is
there a container engine? is the VM backend ready? would a second zram be set
up?) is decided in several functions of several packages, which must agree.

| Component | State | Operations | Interacts with | What must hold |
|---|---|---|---|---|
| Build pipeline (`build.py`, `overlay.py`, `payload.py`, `manifest.py`, `workspace.py`, `storage.py`) | `cache/upstream`, `build/work/{extracted,wheel}`, `dist/*.iso`, `.manifest.json`, `.sha256`, `build-stage-status.json` | `run_build`, `clean.sh`, fetch | QA transition by call; inspection, evidence and the next build through files | the base image outlives its last reader; the marker reports one build and tells the truth; the two ISOs differ in boot form only; nothing is inherited from an earlier build |
| QA transition, files (`qa_boot.py`) | GRUB configuration, `md5sum.txt`, file modes, all other files of the tree | `transition_to_qa_in_place` | called by the pipeline, in its tree | nothing else changes; modes come back; nothing outside the tree is written; the catalog is fresh |
| QA transition, text (`qa_boot.py`) | the configuration's text | `derive_qa_menuentry`, `install_qa_entry_as_default` | GRUB reads the result | the QA entry is what boots, on a serial console, without installing |
| Boot smoke (`bootsmoke.py`) | a QEMU process, its serial log, a clock | `run_boot_smoke`, `_terminate` | a concurrent guest | a pass has evidence; QEMU is never left behind; it ends in bounded time |
| Layer-B job (`iso-smoke.yml`, `record-failure.sh`, `__main__.py`, `evidence.py`, `closure.py`) | step outcomes and outputs, `.failure_stage`, marker, evidence JSON | twelve steps, some `if: always()` | all of the above through files and outputs | green means real; red blames what failed first; no invented pass |
| Focus (`focus/`) | none; evidence of one invocation | policy, transition, doctor | evidence of every planner, gathered one after another | plans are complete and reversible; readiness is not over-claimed, torn evidence included |
| Hardware (`hardware/`) | none; what one invocation has read so far | probe, capabilities, `build_plan`, doctor | the kernel's files; focus | a plan fits a moment of the machine; carried out, it settles; report, plan and doctor agree |
| Development, AI, cyber (`development/`, `ai/`, `cyber/`) | none; replies of one invocation's probes | probes, capabilities, plans, doctors | the machine, each other through it, focus | their plans never compete, in any mixture; prerequisites come first; carried out, they settle; reports agree |
| Veil (`veil/`) | none; replies, and the torrc lines resolved so far | `parse_tor_config`, service and listener probes, Whonix readiness, plan, capabilities, doctor | Tor daemon, systemd, VM backend of `cyber`, focus | Tor is called usable only if it was; the torrc is read as Tor reads it, inside the root, to an end; reports agree |
| Inspection (`inspect.py`) | none | `inspect_*_strict` | reads `dist/` | passes only what the pipeline meant to build |
| Base image, overlay and path safety, ISO commands (`base.py`, `overlay.py`, `safety.py`, `pathsafety.py`, `iso.py`) | cached image; none | verify, allowlist, command lines | pipeline | never an unpinned image, never a path out of the tree |
| Desktop, doctors, profiles, core, CLI | none | status, checks, rendering | all | one pass over independent facts |

Hard behaviours, each listed under `hazards` with its line: a failure or a kill
between any two statements of a build; a marker, a wheel or a tree of an earlier
build taken for this one's; exceptions that the recording `except` clauses do
not name; the QA ISO rebuilt from the very tree the production ISO came from; a
guest that writes its log, exits or ignores signals while it is being watched;
CI steps that run after a failure on whatever half-finished files exist; reads
of one plan that belong to different moments of the machine; probes that time
out; plans of three planners followed in any mixture, some of them stale;
configuration files that include each other and are edited while they are read.

Two things are *not* hard here and no model pretends they are: nothing runs
concurrently inside the Python code (the other actors are the guest under QEMU,
a second writer in a tree, and whoever changes the machine), and no message is
lost or reordered.

## 2. Modules

| Module | Models | Extends / instantiates |
|---|---|---|
| `BuildStages` | abstract: what `build-stage-status.json` promises its reader | |
| `BuildPipeline` | `run_build` over a shared workspace | implements `BuildStages` |
| `MCBuildPipeline` | two revisions, with equal or crossed wheel versions | `BuildPipeline` |
| `BuildPipelineProofs` | theorems about the pipeline: base image, marker, contents of `dist/` | `BuildPipeline`, TLAPS |
| `QaTransition` | `transition_to_qa_in_place` on the file system | |
| `QaTransitionProofs` | theorems about the transition and its text | `QaTransition`, `GrubConfig`, TLAPS |
| `GrubConfig`, `MCGrubConfig` | the text that transition writes, and what GRUB makes of it | |
| `BootSmoke` | `run_boot_smoke` and the guest | |
| `BootSmokeProofs` | theorems about the smoke | `BootSmoke`, TLAPS |
| `LayerB` | the workflow job, the evidence document and the closure gate | |
| `LayerBProofs` | theorems about job and evidence | `LayerB`, TLAPS |
| `Focus` | readiness, roles, GPU intent, transitions, doctor checks | |
| `FocusProofs` | theorems about the policy | `Focus`, TLAPS |
| `GpuPolicy` | classification of cards, hybrid topology, NVIDIA presence | |
| `HardwarePlan`, `MCHardwarePlan` | one hardware invocation, read by read, plan, report, doctor | `GpuPolicy` |
| `HardwarePlanProofs` | theorems about plan, report and topology | `HardwarePlan`, TLAPS |
| `DevelopmentPlan`, `CyberPlan`, `AiPlan` | probes, decisions, report and doctor of the three software planners, as functions of the replies | each the one before; `AiPlan` also `GpuPolicy` |
| `Workstation`, `MCWorkstation` | the three planners and the focus evidence on one machine that changes | `AiPlan`; instance of `Focus` |
| `WorkstationProofs` | theorems about the three planners and the focus | `Workstation`, TLAPS |
| `Torrc` | reading the torrc with its includes while it is edited | |
| `Veil`, `MCVeil` | the two Veil commands probe by probe, Tor and the machine around them | `CyberPlan`, `Torrc`; instance of `Focus` |
| `VeilProofs` | theorems about reading the torrc, the refinement `Veil` implements `Torrc`, theorems about reports, plans and verdicts | `Veil`, TLAPS |

Each level hands the one above it an outcome rather than its detail.
`QaTransition` shows that the call leaves the tree either patched and otherwise
unchanged, or patched or unpatched with an exception of one of three kinds;
`BuildPipeline` uses exactly those (`TransitionDone`, `TransitionUnsafe`,
`TransitionBlocked`, and `Raise` for the exceptions it does not catch).
`LayerB` takes of the pipeline only which stage it stopped at and whether the
marker write was whole, and of the smoke only its verdict. In the other half
`Workstation` and `Veil` evaluate the readiness of `Focus` on evidence gathered by
the probes they model, `Veil` uses the VM readiness of `CyberPlan`, `AiPlan` the
cards of `GpuPolicy`, as the code does, and `Veil` reads the torrc by the actions of
`Torrc`, which it implements (`VeilProofs`).

### `BuildPipeline`

One action per statement of `run_build` that touches a file; `pc` names the next
one. Files hold the *revision* of the repository their content comes from and
the set of builds that wrote them, so a mixture is visible: an ISO is a snapshot
of the tree, a manifest records the commit and the ISO it hashed, a sidecar the
ISO. `Mark(status, next)` is a call of `_write_stage_status`; `pending.next`
says where control continues, `"raise"` for the `except` clauses that record and
re-raise. `Raise` and `Kill` cut any statement short, after the damage that
statement can do (`Damage`). `Fetch`, `Clean` and `Checkout` happen between builds;
with `EditInFlight` the working tree also changes under a running build. `marker.by`,
`run.n` and `outcome` are ghosts: the code writes no build number.

### `QaTransition`

The GRUB path is missing, a regular file, or a link inside or out of the tree;
its text can be patched, has no usable entry, installs unattended, or is not
UTF-8; the catalog is absent, lists the path, does not, or is a link. Each file
is writable or not. Every system call may raise: reads, hashes and the chmod that
widens a mode by `Raise`, a write inside its action, since its `finally` clause still
runs, and the chmod of that clause by `Refuse`, which leaves the widened mode and
replaces whatever was under way by its exception (`refused` remembers the file).
The process may die anywhere, and another writer may touch a protected file at
any moment.

### `GrubConfig`

A configuration is a sequence of lines composed of complete and incomplete menu
entries and of settings in column 0 or indented; a kernel command line is a
sequence of words. `Derive` and `Install` are the two functions of the code;
`Booted` says what GRUB would boot from the patched text.

### `BootSmoke`

The log is counted in blocks, with the position of the last marker; a read sees
the last `Tail` blocks. The poller's actions follow the loop and `_terminate` call
by call, the second `_terminate` of the `finally` clause included; `Interrupt` is any
exception in the loop or in the first `_terminate`. The guest writes and exits as
it likes and may ignore SIGTERM.

### `LayerB`

Twelve steps in order; a failed or cancelled step skips the rest except those
marked `if: always()`. `FailAs` records the stage through `record-failure.sh`.
`real` and `booted` are ghosts of what truly happened, against which the
evidence document is compared.

### `Focus`

Evidence is the set of facts the policy looks at, constrained as the detectors
are (usable implies installed). Software and hardware come and go between
invocations. A usable complete privacy boundary is part of the evidence
interface and of the repository's tests, though today's Veil detectors never
report it.

### `HardwarePlan`

`got` holds what the invocation has read so far, `pc` counts the reads in the order
of `probe_hardware` and the policy detectors; the kernel's support for zram is asked
last. Power supplies and cards are directories: `List` takes the names that are
there, `ReadFile` then reads one file of one name per step, in the code's order
(`left` is what is still to be read), as it is by then: `read_text` gives nothing of a
name that has gone, which still counts. The scan of the cards is the one of
`gpu_policy.py`, whose results decide; what `detect_gpus` finds goes into no action.
Between any two of these steps the machine may change: one thing (`OneThing`: a
supply, a card or a driver module comes or goes, a file is written), or what a
driver changes at once (`DriverChange`). Disks do not come or go.
`PlanOf` is `build_plan`; `Follow` carries out one proposal, `Boot` activates what
waits for it. `first` and `moved` are ghosts: the machine at the first read, and
how often it changed since.

### `DevelopmentPlan`, `CyberPlan`, `AiPlan`, `Workstation`

The three planners' decisions are functions of a record of replies, one field per
probe, grouped by detector (`GitProbes`, `NvidiaProbes`, ...). `Workstation` makes
the record: an invocation (`Invoke`) sees the machine as it is but for the probes
that time out, or (`InvokeDuringChange`) as it was up to some probe and as it is
after it. Each of the two scans for cards is one probe here: of a card only the
vendor decides anything in these plans, a file read once; a card that is gone
before that has none, and every action is then what it would be without the
card (`Primary` differs, "unknown" for "cpu", and the two select the same). The plan then lies in somebody's hands as a set of proposals, each of
which may be carried out (`Follow`) while others install, remove, dock or break
things (`OthersChange`). `quality` is a ghost: whether the plan is of one moment,
had a timeout, or is stale.

### `Torrc`, `Veil`

`todo` is the call stack of `_resolve_lines` and `_resolve_include`: what is still to
be resolved, in order, each item with `seen` and `depth` of its call. Every file or
directory is looked at in a step of its own, so that edits come in between. In
`Veil` a command asks one probe per step; `Ask` answers it from the world there is,
`TimeOut` as the code reads a command that did not end, and the torrc is read
line by line between `BeginRead` and `EndRead`. The Tor daemon is started, reloaded
and stopped (`RunTor`), another process may hold the port (`TakePort`), packages,
images and the VM backend come and go (`Toggle`). `during` is a ghost: the worlds
since the command began.

## 3. Runs

| Run | Question | Bounds, and why they are enough |
|---|---|---|
| `build` | Does every sequence of builds keep the base image, the ISOs, the sidecars and the marker consistent, and does the marker implement `BuildStages`? | Two builds (a build sees only what the one before it left; `Clean` and `Fetch` come between), two revisions, no edit under a build. 413 082 states |
| `build_edited` | What does an edit under a running build put at risk? | One build, edits at any moment |
| `qa_transition` | Every shape of tree, every failing call (the one that restores a mode included), a kill, another writer | No numeric bound |
| `grub_config` | What boots after the patch, and what a second patch derives | Up to four pieces: an incomplete entry, a complete one, a default and one more. Seven command lines |
| `boot_smoke` | Verdicts, cleanup, bounded end | `Tail = 2`, `MaxLog = 5`: a marker can be pushed out of the tail between two reads; `Timeout = 3`, `Poll = 1`: several rounds; `Grace = 2` |
| `layer_b` | Does evidence, red or green, match what happened? | One job on a fresh runner, which is what the workflow is; no numeric bound |
| `focus` | Completeness and reversibility of plans, doctor, monotonicity | Every evidence, every pair of targets |
| `hardware` | What may a plan mix up, does it settle once carried out, do report, plan and doctor agree? | Twenty-one machines (bare, WSL, containers and VMs, laptops, every kind of preference list, cards in the orders that matter), two changes: two inside the reads, or one inside and one after; `MaxEntries = 2` supplies and cards, so that each can go while the other is read. About 2 750 000 states |
| `software` | Do the plans of three planners compete, settle, agree, and what do changes and timeouts among the probes do to plans and focus? | Eight machines, each with everything but what its story is about (containers, VM, capture, Node, NVIDIA dock before and after its driver, AMD); others change that and nothing else; two such changes, every place of a change among the probes |
| `veil` | Are verdicts those of a moment, is the torrc read as it says, do plan, report, doctors, cyber planner and focus agree? | Trees of five paths that include each other, themselves, a directory, two wildcards and a file outside the root; every daemon state; every stage of the VM backend; one change and one timeout in a command; `MaxIncludeDepth = 2`, so that the bound is reached. About 1 200 000 states |
| `build_stale_wheel`, `boot_smoke_missed_marker` | One sentence of the repository each, which the code does not keep | as the passing run; crossed wheel versions for `build_stale_wheel` |

Deadlock is checked for the pipeline, the planners and Focus. It is off where the
modelled thing ends: one smoke, one job, one transition, one composed
configuration.

Fairness is assumed in two places. `WF_vars(Poller)` in `BootSmoke`: the poller is a
loop of calls that return (`sleep`, `wait` with a timeout), so it keeps taking
steps; after SIGKILL the second `wait` also has a timeout. Nothing is assumed of
the guest: it may hang forever, and `Terminates` still holds. `WF(Step)` in `Veil`: a
probe reads a file or runs a command with a timeout of three seconds, so the
command goes on; nothing is assumed of the machine, and `ReadEnds` holds however
the includes form a cycle. The pipeline has no liveness property because the code
gives none: `_run` starts xorriso and pip without a timeout.

## 4. What the checks show

- *The base image outlives its readers.* The QA rebuild replays El Torito options
  that open the base ISO, long after production is finished; no path through an
  ephemeral build releases it before (`BaseOutlivesXorriso`), and it is
  released only when the marker says nothing is left to do
  (`ReleasedOnlyWhenDone`).
- *A green marker is worth something.* Whatever stops the build later, a stage
  the marker calls passed left files that strict inspection accepts
  (`GreenMarkerInspectsGreen`). With edits under the build the one exception
  is a resource that changed between being hashed and being copied
  (`RejectedOnlyForMixedPayload`).
- *The marker is one build's orderly report* (`MarkerFollowsStages`), and a build
  that ends by itself has said how (`OutcomeRecorded`).
- *One tree, two products*: leftovers never ship (`NoLeftovers`), and the payload
  of both is the same even where the working tree is edited under the build
  (`QaCarriesProductionPayload`).
- *The transition's proof is a proof*: done means nothing else changed, links
  included; modes come back on every path but a kill and a restoring chmod that is
  itself refused, which is never swallowed; nothing beyond the root is written; a
  blocked transition leaves both files as they were, but for the catalog that is
  found to lead outside only after the patch.
- *The QA entry is what boots*, with the console in front of the separator, an
  entry an earlier transition derived included.
- *A smoke's pass rests on this boot's log*; a failed one that holds a marker can
  only have missed it between two reads; QEMU is gone or has been sent SIGKILL
  whichever way the call ends; and it does end.
- *Layer-B*: a green job built, inspected and booted both ISOs; in a red one no
  field claims a pass that did not happen, and the blame lies with what failed
  first.
- *Focus*: carrying out a plan's changes gives the target policy, the way back
  changes the same things back (`PlanReachesTargetAndBack`), the doctor's checks
  that can fail never do, and more on the machine never makes a domain less ready.
- *A hardware plan can be torn in three ways and no other*: a zram module loaded
  between two reads, a cpufreq driver changed between two reads, and a card that
  goes after it was listed, which can only lower the confidence stated; every
  other action is that of a moment (`TornInThreeWays`). Carried out, it is not proposed again
  (`FollowedPlanSettles`). Report, plan and doctor tell one story
  (`ReportsSpeakForPlanner`), and high confidence in a GPU topology is right
  (`HighConfidenceIsRight`).
- *Three planners never compete*: however their proposals are mixed and however
  long some of them wait, no second container engine, Node manager or PyTorch
  build comes of plans made in peace (`PlansNeverCompete`). A change during the
  probes makes a plan repeat what is there or hold back; a timeout can make it
  propose an alternative to what is there, nothing else
  (`TornPlansRepeatOrHoldBack`). Two rounds with a boot leave nothing to propose
  (`PlansSettle`). Planners, reports and doctors agree (`ReportsAgree`), and the
  focus evidence, gathered by four reports one after another, never calls a domain
  readier than it was (`FocusNeverOverclaims`).
- *Tor is called usable only if it was*, whatever one thing changes or whichever
  probe does not end, and every definite verdict, action and private readiness is
  that of a moment (`VerdictsHadAMoment`). An edit of the torrc counts where it is of
  one file and no include is cut off. Left out are the listing of a directory,
  which two wildcards may read before and after (`clear` of the first and nothing of
  the second disable a port that was enabled at both moments), and a file
  that includes itself: TLC finds a torn verdict for each. The directives found are those of the
  text, in order, each include as often as it stands there (`ReadsTheTorrc`),
  nothing outside the root is read (`StaysInRoot`), and reading ends (`ReadEnds`).
  Planner, report, doctor, cyber planner and focus agree (`VeilReportsAgree`), and
  the plan settles without ever taking Tor away (`VeilPlansSettle`).

### Where the repository says otherwise

Two have a run whose counterexample shows it.

1. `build_stale_wheel`: `build/work/wheel` survives builds and the wheel that
   *sorts* last is embedded; after a version goes down, or from 0.9 to 0.10, it
   is an older build's.
2. `boot_smoke_missed_marker`: a guest that logs its marker and exits between
   the read and the poll is reported as having exited before any marker
   (`bootsmoke.py:18-22`).

Others, met while modelling and allowed for in the properties:

- an early failure leaves the *previous* build's marker in place (`build.py:309`),
  though `build.py:183-185` says every stage is then "not_performed";
- an `OSError` or `UnicodeDecodeError` out of the transition is caught by neither
  clause (`build.py:382`, `:399`), and the marker says "not_performed" where
  `evidence.py:29-31` says "fail if it raises";
- a JSON file cut short by the failure being reported stops the evidence step
  (`__main__.py:171`) that "must always produce valid evidence"
  (`iso-smoke.yml:387-390`);
- `set default=` is removed only in column 0 (`qa_boot.py:289`), so an indented one
  that takes effect wins over the QA entry; a console token already behind `---`
  is left there (`qa_boot.py:232`);
- when `build-iso.sh` fails before a marker exists, the workflow passes the step's
  failure on as `production_build = fail` (`iso-smoke.yml:446`), though nothing was
  built;
- a hardware plan is called a pure function of what was detected
  (`hardware/planner.py:9-11`), yet the kernel's zram support is read after the
  detection (`memory_policy.py:167`): the first exception in `TornInThreeWays`;
- the write bit is taken back "even if the body raises" (`qa_boot.py:106`), but the
  chmod that does it (`qa_boot.py:123`) can fail as well, and then the file stays
  writable and its exception is the one that is seen (`ModesComeBack`);
- a transition blocked at a catalog that leads outside has already patched GRUB
  (`qa_boot.py:307`), and leaves it under the production checksum
  (`BlockedLeavesWholeFiles`);
- "Serein will not install a competing engine" (`development/planner.py:307`), yet
  `docker --version` that does not end in three seconds reads as no Docker
  (`runner.py:49`), and Podman is proposed: the plans with a timeout are left out of
  `PlansNeverCompete` and bounded in `TornPlansRepeatOrHoldBack`;
- `systemctl is-active` that does not end reads as "not active" (`tor.py:337-338`), a
  definite answer where `docs/veil/tor-strategy.md:63-66` promises an open one: so
  only *usable* is claimed of a command with a timeout in `VerdictsHadAMoment`.

## 5. What is proved

For every value of the constants, checked by TLAPS:

| Theorem | Says |
|---|---|
| `BuildPipelineProofs!TypeCorrect` | type correctness |
| `BuildPipelineProofs!BaseIsThere` | `BaseOutlivesXorriso` |
| `BuildPipelineProofs!ReleaseIsLast` | `ReleasedOnlyWhenDone` |
| `BuildPipelineProofs!MarkerImplements` | the pipeline implements `BuildStages` (`MarkerFollowsStages`) |
| `BuildPipelineProofs!GreenMeansGreen` | `GreenMarkerInspectsGreen`, from `~EditInFlight` |
| `BuildPipelineProofs!OnlyMixedPayload` | `RejectedOnlyForMixedPayload`, edits in flight or not |
| `BuildPipelineProofs!NothingLeftOver` | `NoLeftovers` |
| `BuildPipelineProofs!OnlyBootDiffers` | `QaCarriesProductionPayload` |
| `BuildPipelineProofs!EndIsRecorded` | `OutcomeRecorded` |
| `QaTransitionProofs!NothingElseChanged` | `DoneMeansNothingElseChanged` |
| `QaTransitionProofs!FreshCatalog` | `CatalogIsFresh` |
| `QaTransitionProofs!ModesRestored` | `ModesComeBack` |
| `QaTransitionProofs!BlockedKeepsFiles` | `BlockedLeavesWholeFiles` |
| `QaTransitionProofs!DerivedEntryBoots` | `QaEntryIsBooted` |
| `QaTransitionProofs!ConsoleIsRead` | `ConsoleReachesKernel` |
| `BootSmokeProofs!PassIsEvidence` | `PassHasEvidence` |
| `BootSmokeProofs!NoLeak` | `NeverLeaked` |
| `BootSmokeProofs!MissedOnlyBetweenReads` | `MarkerMissedOnlyBetweenReads` |
| `BootSmokeProofs!DeadlineKept` | the call ends before `Timeout + Poll + 4 * Grace`: the safety half of `Terminates` |
| `LayerBProofs!GreenIsReal` | `GreenJobIsReal` |
| `LayerBProofs!EvidenceIsFact` | `EvidencePassIsFact` |
| `LayerBProofs!BlameIsFirst` | `EvidenceBlamesFirst` |
| `FocusProofs!PlansReachTarget` | `PlanReachesTargetAndBack` |
| `FocusProofs!DoctorAlwaysPasses` | `DoctorPasses` |
| `FocusProofs!MoreNeverHurtsHolds` | `MoreNeverHurts` |
| `HardwarePlanProofs!TornInNoOtherWay` | `TornInThreeWays` |
| `HardwarePlanProofs!PlanSettles` | `FollowedPlanSettles` |
| `HardwarePlanProofs!ConfidenceIsEarned` | `HighConfidenceIsRight` |
| `HardwarePlanProofs!OneStory` | `ReportsSpeakForPlanner` |
| `WorkstationProofs!NeverCompete` | `PlansNeverCompete` |
| `WorkstationProofs!ReportsTellOneStory` | `ReportsAgree` |
| `WorkstationProofs!PlanSettles` | `PlansSettle` |
| `WorkstationProofs!TornPlansAreHarmless` | `TornPlansRepeatOrHoldBack` |
| `WorkstationProofs!FocusIsBounded` | `FocusNeverOverclaims` |
| `VeilProofs!NothingOutsideIsRead` | `StaysInRoot` of every reading |
| `VeilProofs!RecursionIsBounded` | no call nested deeper than the bound and the one that refuses |
| `VeilProofs!VeilReadsLikeTorrc` | `Veil` implements `Torrc` |
| `VeilProofs!VeilStaysInRoot` | `StaysInRoot` of every Veil command |
| `VeilProofs!ReportsTellOneStory` | `VeilReportsAgree` |
| `VeilProofs!PlanSettles` | `VeilPlansSettle` |
| `VeilProofs!TorrcIsRead` | `ReadsTheTorrc` |
| `VeilProofs!VerdictsAreOfAMoment` | `VerdictsHadAMoment` |

*Assumptions.* No bound on builds, revisions, log length, cards, machines, files,
includes, changes or timeouts is needed. What is assumed of the constants:

- `ConstantsAssumption` (there is a revision, wheel names rank in the naturals, the
  bounds have their types), `TimesAssumption` (positive tail and poll interval,
  natural times), `BoundsAssumption`, `MaxChangesAssumption`;
- `NotAFile`, `SentinelsAssumption`, the two `NoneAssumption`s, `UnknownAssumption`,
  `UnknownBuildAssumption`: the values for "absent", "torn", "no plan", "no target" and
  "no answer" are none of the values they stand in for;
- `ArgsAssumption`: the command lines of a base image are sequences of words;
- `ShapesAssumption`: the trees are some of those `QaTransition` distinguishes;
- `PathsAssumption` and `ContentsAssumption`: the main torrc is inside the root, files
  are sequences of lines, each a directive, an include or a wildcard, and what
  they include and directories hold are paths;
- `MachinesAssumption` of `HardwarePlan`: a machine has fields of their types, the
  current energy preference is one of those the kernel offers and at most one
  card is the boot display, as sysfs has it; `MachinesAssumption` of `Workstation`: a
  machine has a set of things, a sequence of cards and a set of what others
  change; `VeilAssumption`: worlds and edits are made of
  machines, paths and entries; `TogglesAssumption`: what comes and goes at once is one
  thing, or Tor with its package, and systemd does neither.

*Types and the base image.* Neither is inductive alone:
`WriteManifest` and `WriteSidecar` copy files that could be absent or torn, and a
marker write may continue at a rebuild. `InHand` says that the files a statement
reads were written by the statements before it, that the verified image is in
the cache from the statement after `verify` until the build ends, and where a
marker write may continue. `IInv == TypeOK /\ InHand` is inductive, shown group
by group: environment, start, each statement, statements cut short.

*The marker.* The refinement needs to know what the marker says
at each place of the program. `NotYetRecorded` covers the statements before a
build's first write, when only an older build can be on record; `MarkInv` gives
the stages already settled at the transition, the QA rebuild and the release,
and the ones about to be written at `mark`. Each step of the pipeline is then a
first report, a settled transition, a settled rebuild, an interrupted write, or
a stutter.

*The contents of `dist/`.* Whether an ISO is acceptable is decided
many statements before it is written. `TreeInv` says what the extraction tree
holds at each statement: this build's files and no others from `extract` on, the
wheel from `copy`, the hashes and the commit from `stamp`, the QA boot
configuration once `target` is `"qa"`. `IsoInv` carries the tree over to the ISO and
its manifest, `SoundInv` to the marker: what is on record, or in `pending`, as passed
is sound in `dist/`; a rebuild of the other variant leaves it alone because of
`StageInv`. What then still separates `Sound` from `StrictPassed` is that the payload
copied is the payload hashed, and `PureInv` gives that from `~EditInFlight`, the
hypothesis of `GreenMeansGreen`. `PairInv` follows the tree from the production ISO
through the transition to the QA ISO; `EndInv` relates the status in `pending` to the
way the build is about to end.

*The transition.* A proof of "nothing else changed" by two passes over the tree is
only as good as what the first one recorded. `Guarded` says what each guard
passed says of the tree from there on (no link out of the root is ever
written), `FirstPass` that a file reached by a link was recorded as it was
extracted, `Written` that the two files are whole but for a write cut short and
that a call which goes on has written all of it, `Modes` that a mode differs from
the extracted one only around its write. `Ends` separates an exception waiting in
a `finally` clause from the end of the call: that is what makes `ModesComeBack` hold
on every way out but a kill, for every file whose restoring chmod was not refused.

*The text.* `TextIsTyped`: whatever the authors wrote is a sequence of lines. The
rest is about every such sequence, of any length. That `Without` keeps only what
it should is shown one element at a time: the first place where its recursion
had no value cannot exist (`LeavesExists`, from the well-foundedness of the
naturals), so the library's induction theorems, which take an operator, are not
needed. `Inserted` and `ConsoleIsAdded` say where the words of the derived line come
from, `PatchedIs` what the first five lines of the patched configuration are and
that no setting follows them; GRUB then counts to the derived entry (`FirstEntryBoots`).

*The smoke.* An old log can be in place only before `unlink`, so a
marker seen later is this boot's; a second wait is reached only after SIGKILL,
so the `finally` clause is left over a guest that has exited or was sent it. A
marker that was read past without being seen was pushed out of the tail since
the look before, and there is no look once there is a result: so a failed boot
with a marker in its log missed it between two reads. For the deadline,
`TimeInv` gives each place of the program its budget of grace periods, and says that
the loop never sleeps once the deadline has passed.

*The job.* Each report the evidence is assembled from is true of the step
that made it: `BaseReport`, `BuildReport`, `InspectionReports`, `SmokeReports`; `NotYet` says
that a step's output is not there before the step, so that an `if: always()` step
finds the outputs of this run or none. `Blame` says that the recorded stage is the
first failure that has one. It is delicate at one place: a blocked QA
transition fails no step, and only the marker names it.

*Focus.* A plan in hand was computed on the evidence as it is (`IInv`). The rest is
about one transition: each change is listed with its value before and after,
so the way back lists it the other way round (`RolesMirror`), and no two policies
prefer the GPU for different domains (`GpuMirrors`).

*The hardware plan.* `Seen` says that up to one change each read is of the first
machine or of the present one, and none of the first follows one of the present;
`FilesSeen` says the same of a directory that is being read: the names are those of
one moment, and each file read so far is that of one of the two machines; where
the names are those of the later one, so are all the files. So what was read is a `Mixture` of two machines that are
`OneChange` apart, each directory `ReadAcross` the change. One entry differs at the most;
from that follows what a torn directory can be taken for: `SuppliesAcross`, the
battery and the mains state are those of before or after, and `CardsAcross`, the
topology too, unless a card has gone, which lowers the confidence. What each
action decides by is read off once (`CpuDependsOn`, `ZramDependsOn`, `OthersDependOn`,
`PowerDependsOn`, `PlanDependsOn`): all reads of one action are of one moment, or do not
differ, but for the zram module (`TornByZram`), the cpufreq driver (`TornByCpufreq`) and
the card that goes (`TornByOneThing`). That a plan carried out settles, and that high
confidence in a topology is right, hold of every coherent machine, in whatever
state; coherence is what every change and every action carried out keeps.

*Three planners.* `PlansNeverCompete` is about plans some of which have waited for
long. `Orderly` says what any proposal can be: one without a purpose others share,
`podman`, `fnm`, or one build of PyTorch, by one action only. `InPeace` says that what
a plan made in peace asks for is still missing: nothing that only follows such
plans brings what it would compete with. The other four are about every record
of replies a machine can give. Agreement is shown decision by decision
(`EnginesAgree`, `BackendAgrees`, ...). For settling, `Grown` says what carrying all out
makes of a machine, and that it is a machine like any other whose plan asks for
nothing that is there; the toolkit and the build of PyTorch, which the driver of
the first round lets through, need the second. For torn plans, one change
touches one probe (`OneProbeDiffers`) and so at most makes a reply that of before
or after, but for the access to `kvm`, which two probes look at (`KvmAppears`), and the
dock, which changes the cards and their driver (`DockTorn`). A probe that does not end
only takes evidence away (`LateReplies`), and what an action can become by that is
shown for each kind of action. The focus evidence is bounded the same way: all
that was found was there at one of the two moments, and a domain that looks
ready was so then (`DevWasReady`, `GpuWasReady`, `CyberWasReady`).

*The torrc.* `StaysInRoot` is not inductive: an include line is on
`todo` long after its file was opened, and says nothing of that file's path.
`Admitted` adds that a line of a file is on `todo` only where the file itself was not
refused, so its path is inside the root and its depth within the bound. Then each
step replaces the head of `todo` by admitted items: what a path resolves to
(`ResolvedIsAdmitted`), what a wildcard expands to (`MatchesAreAdmitted`), one
include deeper (`DeeperIsAdmitted`); and edits touch only the file system. Each step
of `Veil` is a step of `Torrc` or leaves its variables alone, so the theorem carries
over to the commands.

That the code's loop over a stack of lines reads what the recursive `Text` says
(`ReadsTheTorrc`) is shown by what is still to be read: `Rest` is the text that the items
on `todo` stand for, each at its own level of nesting, and what has been found
followed by `Rest` is one text that no step changes (`ReadKeepsText`). For that a path
means what its contents mean one level down (`VisitMeans`), an include or a wildcard
what it expands to (`LineMeans`), and `RestConcat` takes a sequence apart. The levels of
`Text`, the joins of `FlattenSeq` and the values along a loop over directives are
functions defined by recursion; that they have a value everywhere follows from the
well-foundedness of the naturals (`NestsExist`, `JoinsExist`, `ValuesExist`), as for
`Without`. What the loop leaves for an option is then what its last words say
(`DirectivesMean`).

*Veil.* Reports are compared on a machine that stays as it is: then all replies
are of one world (`OneMoment`), the resolved torrc among them, and whether Tor is
usable (`TorIsOne`) and a VM can run (`VmIsOne`) is one question however it is asked.
For the plan, `InstalledByPlan` and `FollowedBrings` say what carrying it out adds,
`Settled` that a machine with all of that is left alone, and `TorStays` that a Tor
daemon that is usable is not touched.

For the verdicts, `Tied` says that every probe before the one that is asked has been
answered as one of the worlds since the command began would answer, or was
late, and that two such worlds are one change apart (`Near`, `NearFiles`): the daemon, the port, one thing that came or
went, or one file. The answer about the torrc is of one world because reading it
finds its text, or, with a file edited under it, what one of the two texts means
(below). Then each verdict is traced to one of the two worlds.
A unit that was seen active and a port that was seen taken were so together in one of
the two (`TorWasUsable`); of what the backend and the images
showed, one world shows it all, because one thing differs at the most
(`OneDiffers`, `AcceleratedWith`).

*A file edited while the torrc is read.* The reader may meet the file at several
places and find it as it was at some and as it is now at others, so what it reads is
neither text. What decides is what a text does to `SocksPort`, its `Effect`: it leaves the
port on or off whatever was said before, or says only "0", which changes nothing but
that the port was mentioned, or nothing at all. Effects compose (`EffectOfTwo`) and decide
the verdict (`EffectDecides`).

1. Where no include is cut off (`Whole`), the files lie in layers, each below those
   that include it (`Layers`, `FitsThere`), so the text of a file is the same wherever it
   stands (`FileTextIsItsText`), and what a file brings in does not contain that
   file (`BelowTheFile`): a visit of it is of the old text or of the new, whole.
2. Let the file's two texts have the effects a and b. A text made of parts that do not
   depend on the file, and of the file now in its old and now in its new form, is
   related to the text before and the text after by `Mixed`: it has the effect of
   one of them; and where these differ, a last word of the file is the last
   word of the text. This strengthening is what composes (`MixedAfterMixed`); that the
   effect is one of the two alone does not.
3. `OnlyMixes` is the invariant of the reading (`Mixes`, in a command): each item on
   `todo` is part of the file or stands where it would in both torrcs (`Placed`), and
   whatever can still be read of `todo`, with the file in either form each time it comes
   up, makes with what has been found a `Mixed` text. It holds when reading begins
   (`BeginsToMix`); a step replaces the head of `todo` by items of which no more can be
   read (`ReadOfExpanded`); at the end nothing is left to read, and what was
   found means what one of the two texts means (`ReadsOneOfTwo`).

Directories do not change in an edit, or two wildcards could list one before and after;
without `Whole` a file is cut short at some places and not at others. Both are exceptions
of the property too, and TLC finds a torn verdict for each.

### What is only model-checked

Every invariant and action property of the passing runs is proved. No liveness
property is: `Terminates` and `ReadEnds` need fairness and ENABLED, which are out of the
prover's reach.

## 6. Not modelled, and why

- Two builds at once in one workspace: nothing locks it, and the repository
  builds one per checkout and one per runner.
- A command that hangs: `_run` gives no timeout, so progress would have to be
  assumed of xorriso.
- An interrupt between `Popen` and the `try` of `run_boot_smoke`, or inside the
  `_terminate` of its `finally` clause: either leaves QEMU behind. The first is a
  window of one statement; the second lasts as long as that call waits, which is
  up to two grace periods where a guest ignores SIGTERM.
- Firmware selection, xorriso's report, command lines, hashing and JSON layout:
  text, with no property about it. Hashes are equality of content.
- The checks of `inspect.py` one by one: `StrictPassed` states what they amount to
  on files this pipeline wrote.
- Parsing of `/proc`, `/sys` and tool output: text; the models take what it yields.
  Memory sizes, disks, sensors, versions and confidence notes are reported and
  decided on by nothing.
- Two changes of different things inside one software or Veil command: with two,
  a command can combine a moment's package with a later moment's daemon, and the
  code promises nothing of that.
- What an edit of a directory, or of a file that includes itself, makes of a torrc
  that is being read: a mixture of both texts that can say what neither does.
- A symbolic link that is redirected while the torrc is read: `Outside` is fixed in
  a behaviour, since the path is resolved and opened in two calls. With `/` as root
  nothing is outside; and a wildcard that would list an outside directory shows in
  `StaysInRoot` only by what it includes from there.
- An include of a FIFO or a device: opening one can block for ever. The entries of
  `Torrc` are files and directories, and `ReadEnds` is about those.
- The CLI, desktop package lists, profiles, status reports and the doctors'
  aggregation: independent facts, no order, no state.
- The tools of the cyber catalogue one by one, resource budgets and lifecycle
  intents: alike for all, or a repetition of a detected value.

## 7. Plan

Done, in this order: `BuildPipeline` with `BuildStages` (the core and its proofs),
`BootSmoke`, `QaTransition`, `LayerB`, `GrubConfig`, `Focus`; then `GpuPolicy` and
`HardwarePlan`, the three software planners and `Workstation`, `Torrc` and `Veil`
with the refinement between them; then the proofs: the transition, the job and
its evidence, the smoke's deadline, the focus, the hardware plan, the reports,
the plan, the reading and the verdicts of Veil, the three planners, and last the
verdicts of Veil with a torrc that is edited. No proof is left that this prover can do.

Model work left: the strict checks of `inspect.py` one by one, with `StrictPassed` as
their abstraction; the overlay allowlist and path confinement over paths with
dots and links.
