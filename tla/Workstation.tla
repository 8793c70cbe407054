----------------------------- MODULE Workstation -----------------------------
(***************************************************************************)
(* The three software planners (DevelopmentPlan, AiPlan, CyberPlan) and the *)
(* focus evidence on one machine.  Each `serein ... plan` probes the machine *)
(* for itself, probe by probe, while programs are installed and removed and *)
(* a probe may exceed its timeout; a timeout is read as "not installed".    *)
(* Serein applies nothing: somebody carries out proposals of the plans, in  *)
(* any order, of several plans, at once or long after.                     *)
(*                                                                         *)
(* An invocation is one action: what it saw of the one change that may      *)
(* happen while it runs is given by the place of the change among its probes.*)
(***************************************************************************)
EXTENDS AiPlan, Functions

CONSTANTS
    None,         \* no plan
    Machines,     \* the machines a behaviour starts on
    MaxChanges    \* bound: changes made by others

ASSUME MaxChangesAssumption == MaxChanges \in Nat

\* A machine is what it has (programs, drivers, permissions), its cards and
\* what others may change on it.
Machine(x) ==
    /\ x = [has |-> x.has, cards |-> x.cards, others |-> x.others]
    /\ x.cards \in Seq(DOMAIN Cards)

ASSUME MachinesAssumption == \A x \in Machines : Machine(x)

VARIABLES
    m,         \* the machine: what it has, its cards, what others change on it
    plans,     \* planner -> the proposals in somebody's hands, or None
    quality,   \* planner -> "clean", "timeout" or "stale", of its plan
    changes    \* changes made by others

vars == <<m, plans, quality, changes>>

Planners == {"development", "ai", "cyber"}

Order == [development |-> DevProbes, ai |-> AiProbes, cyber |-> CyberProbes]

Probes(p) == Range(Order[p])

PlanOf(p, s) ==
    CASE p = "development" -> DevPlan(s) [] p = "ai" -> AiPlanOf(s) [] p = "cyber" -> CyberPlanOf(s)

TorchTools == {TorchBuild[b] : b \in DOMAIN TorchBuild}

----------------------------------------------------------------------------
(* The machine and what a probe replies on it                              *)

\* The driver works once its module is loaded, on a card it drives.
DriverRuns(x) == {"nvidia-driver", "loaded"} \subseteq x.has /\ NvidiaPresent(x.cards)

\* The builds of PyTorch there are; Install leaves one at most.
Builds(x) == {b \in DOMAIN TorchBuild : TorchBuild[b] \in x.has}

Torch(x) == IF Builds(x) = {} THEN Unknown ELSE CHOOSE b \in Builds(x) : TRUE

\* What `nvidia-ctk cdi list` finds, and os.access and `dumpcap -D` say.
CdiResolved(x) == "nvidia-ctk" \in x.has /\ DriverRuns(x)

KvmAccess(x) ==
    IF "kvmUnreadable" \in x.has THEN Unknown ELSE {"kvm", "kvmAccess"} \subseteq x.has

CapturePermitted(x) ==
    IF "captureDenied" \in x.has THEN FALSE
    ELSE IF "captureAllowed" \in x.has THEN TRUE ELSE Unknown

Reply(x, probe) ==
    IF probe \in {"cards1", "cards2"} THEN x.cards
    ELSE IF probe = "nvidia-smi" THEN DriverRuns(x)
    ELSE IF probe = "cdi"        THEN CdiResolved(x)
    ELSE IF probe = "rocmAgents" THEN "rocmSupports" \in x.has /\ OfVendor(x.cards, "AMD")
    ELSE IF probe = "torch"      THEN Torch(x)
    ELSE IF probe = "kvmAccess"  THEN KvmAccess(x)
    ELSE IF probe = "capture"    THEN CapturePermitted(x)
    ELSE probe \in x.has

\* The replies that do not depend on one command ending in time: files, the
\* bus, and what is looked for in two ways.
Lasting == {"container", "nvm", "kvm", "kvmModule", "kvmAccess", "cards1", "cards2",
            "cudaMarker", "zed", "binutils"}

Timeouts(p) == Probes(p) \ Lasting

\* What the detectors make of a command that did not end.
NoReply(probe) == IF probe \in {"torch", "rocmAgents", "capture"} THEN Unknown ELSE FALSE

Place(seq, e) == CHOOSE i \in DOMAIN seq : seq[i] = e

\* What an invocation of p sees that finds machine x in its first k probes
\* and machine y after them, and whose probes late do not end.
Seen(p, x, y, k, late) ==
    [probe \in Probes(p) |->
        IF probe \in late THEN NoReply(probe)
        ELSE Reply(IF Place(Order[p], probe) <= k THEN x ELSE y, probe)]

At(p, x) == Seen(p, x, x, 0, {})

\* The places of a change from x to y that differ for p.
Cuts(p, x, y) ==
    {0} \cup {i \in DOMAIN Order[p] : Reply(x, Order[p][i]) # Reply(y, Order[p][i])}

\* One build of PyTorch replaces another.
Install(x, tools) ==
    [x EXCEPT !.has = (IF tools \cap TorchTools # {} THEN @ \ TorchTools ELSE @) \cup tools]

\* The card in a dock comes last.
Docked(x) == x.cards # <<>> /\ x.cards[Len(x.cards)] = "nvidia"

Dock(x) == [x EXCEPT !.cards = IF Docked(x) THEN SubSeq(@, 1, Len(@) - 1) ELSE Append(@, "nvidia")]

\* One thing is installed, removed, loaded or broken, or a card is docked.
Changed(x) ==
    ({Install(x, {t}) : t \in x.others \ {"nvidia"}}
     \cup {[x EXCEPT !.has = @ \ {t}] : t \in x.others \ {"nvidia"}}
     \cup {Dock(x) : t \in x.others \cap {"nvidia"}}) \ {x}

Booted(x) == IF "nvidia-driver" \in x.has THEN [x EXCEPT !.has = @ \cup {"loaded"}] ELSE x

Proposals(plan) ==
    {[id |-> id, tools |-> plan[id].tools] : id \in {i \in DOMAIN plan : plan[i].status = "APPLY"}}

----------------------------------------------------------------------------
(* The focus evidence: the bus, then the three capability reports, each      *)
(* probing for itself.                                                     *)

F == INSTANCE Focus WITH facts <- {}, plan <- None

Sections == <<"development", "ai", "cyber">>

\* The facts a focus policy looks at.
EvidenceOf(cards, dev, ai, cyber) ==
    {fact \in {"toolchain", "gpuTorch", "cpuAi", "isolation", "gpu"} :
        CASE fact = "toolchain" -> DevReady(dev)
          [] fact = "gpuTorch"  -> GpuTorchUsable(ai)
          [] fact = "cpuAi"     -> CpuAiReady(ai)
          [] fact = "isolation" -> CyberReady(cyber)
          [] fact = "gpu"       -> cards # <<>>}

\* What is gathered when x becomes y after k probes of section n, and the
\* probes late do not end.
Gathered(x, y, n, k, late) ==
    LET report(i) == Seen(Sections[i], x, y,
                          IF i < n THEN Len(Order[Sections[i]]) ELSE IF i = n THEN k ELSE 0, late)
    IN  EvidenceOf(x.cards, report(1), report(2), report(3))

Evidence(x) == Gathered(x, x, 1, 0, {})

----------------------------------------------------------------------------
(* Behaviour                                                               *)

Init ==
    /\ m \in Machines
    /\ plans = [p \in Planners |-> None]
    /\ quality = [p \in Planners |-> "clean"]
    /\ changes = 0

Invoke(p) ==
    /\ plans[p] = None
    /\ \E late \in {{}} \cup {{t} : t \in Timeouts(p) \cap m.others} :
         /\ plans' = [plans EXCEPT ![p] = Proposals(PlanOf(p, Seen(p, m, m, 0, late)))]
         /\ quality' = [quality EXCEPT ![p] = IF late = {} THEN "clean" ELSE "timeout"]
    /\ UNCHANGED <<m, changes>>

\* The same, while somebody changes something.
InvokeDuringChange(p) ==
    /\ plans[p] = None /\ changes < MaxChanges
    /\ \E y \in Changed(m), k \in 0..Len(Order[p]) :
         /\ k \in Cuts(p, m, y)
         /\ plans' = [plans EXCEPT ![p] = Proposals(PlanOf(p, Seen(p, m, y, k, {})))]
         /\ m' = y
    /\ quality' = [q \in Planners |-> "stale"]
    /\ changes' = changes + 1

Follow(p, id) ==
    /\ plans[p] # None
    /\ \E proposal \in plans[p] :
         /\ proposal.id = id
         /\ m' = Install(m, proposal.tools)
         /\ plans' = [plans EXCEPT ![p] = @ \ {proposal}]
    /\ UNCHANGED <<quality, changes>>

PutAway(p) ==
    /\ plans[p] # None
    /\ plans' = [plans EXCEPT ![p] = None]
    /\ quality' = [quality EXCEPT ![p] = "clean"]
    /\ UNCHANGED <<m, changes>>

Boot == m' = Booted(m) /\ UNCHANGED <<plans, quality, changes>>

OthersChange ==
    /\ changes < MaxChanges
    /\ m' \in Changed(m)
    /\ changes' = changes + 1
    /\ quality' = [q \in Planners |-> IF plans[q] = None THEN "clean" ELSE "stale"]
    /\ UNCHANGED plans

ActionIds == DevActions \cup AiActions \cup CyberActions

Next ==
    \/ Boot \/ OthersChange
    \/ \E p \in Planners :
         Invoke(p) \/ InvokeDuringChange(p) \/ PutAway(p) \/ \E id \in ActionIds : Follow(p, id)

Spec == Init /\ [][Next]_vars

----------------------------------------------------------------------------
(* Properties                                                              *)

\* The tools of one purpose: one of them is enough, two are a conflict.
Purposes == {Engines, NodeManagers}

CompetesBy(p, id) ==
    /\ Follow(p, id)
    /\ \/ \E purpose \in Purposes :
            /\ Cardinality(purpose \cap m'.has) > 1
            /\ Cardinality(purpose \cap m.has) < Cardinality(purpose \cap m'.has)
       \/ TorchTools \cap m.has # {} /\ Torch(m') # Torch(m)

\* planner.py, in all three planners: "Serein will not install a competing
\* engine", "will not layer fnm", "does not install a second backend variant".
\* However the proposals of the three plans are mixed, however long the others
\* wait: as long as nobody else changes the machine, carrying them out never
\* puts a second container engine or Node manager beside another, nor one
\* build of PyTorch over another.
PlansNeverCompete ==
    [][\A p \in Planners, id \in ActionIds : quality[p] = "clean" => ~CompetesBy(p, id)]_vars

\* No plan in hand.  Every machine that is reached is reached so (PutAway).
Quiet == \A p \in Planners : plans[p] = None

HoldsBack(action) == action.status # "APPLY"

\* One of the tools asked for, or of the tools with its purpose, is there.
Occupied(action, has) ==
    /\ action.status = "APPLY"
    /\ \E purpose \in Purposes \cup {TorchTools, {"llama-cli", "llama-server"}, NodeManagers \cup {"pnpm"}}
                      \cup {{t} : t \in action.tools} :
         action.tools \cap purpose # {} /\ purpose \cap has # {}

\* A change made while a plan is computed is seen, or it is not, or it leads
\* to a held-back action or to asking for a tool that is there already.  A
\* probe that does not end can in addition make a plan ask for a tool whose
\* purpose another one serves; it never makes it ask for anything else.
TornPlansRepeatOrHoldBack ==
    Quiet => \A p \in Planners :
        /\ \A y \in Changed(m) : \A k \in Cuts(p, m, y) : \A id \in DOMAIN PlanOf(p, At(p, m)) :
             LET action == PlanOf(p, Seen(p, m, y, k, {}))[id] IN
             \/ action \in {PlanOf(p, At(p, m))[id], PlanOf(p, At(p, y))[id]}
             \/ HoldsBack(action)
             \/ action.status = "APPLY" /\ action.tools \cap (m.has \cup y.has) # {}
        /\ \A t \in Timeouts(p) : \A id \in DOMAIN PlanOf(p, At(p, m)) :
             LET action == PlanOf(p, Seen(p, m, m, 0, {t}))[id] IN
             action = PlanOf(p, At(p, m))[id] \/ HoldsBack(action) \/ Occupied(action, m.has)

\* Everything all three plans propose on x, carried out, and a boot.
FollowAll(x) ==
    Booted(Install(x, UNION {proposal.tools : proposal \in
                       UNION {Proposals(PlanOf(p, At(p, x))) : p \in Planners}}))

\* Carried out twice, with a boot after each time (a driver must be loaded
\* before what needs it is proposed), the plans have nothing left to propose
\* but the base packages, which are never looked for.
PlansSettle ==
    Quiet => \A p \in Planners :
        {proposal.id : proposal \in Proposals(PlanOf(p, At(p, FollowAll(FollowAll(m)))))}
            \subseteq {"base.apt_packages"}

\* Every reply there is, for reports made while nothing changes.
Snapshot(x) ==
    [probe \in UNION {Probes(p) : p \in Planners} |-> Reply(x, probe)]

EngineStatuses(s) ==
    {DevPlan(s)["containers.engine"].status, AiPlanOf(s)["containers.engine"].status,
     CyberPlanOf(s)["toolbox.engine"].status}

\* The planners, the capability reports and the doctors decide separately and
\* must say the same of one machine: about the engine and Distrobox, which
\* three planners decide; about what is reported unsupported, installed or
\* usable and what is proposed; and about what a doctor warns of.
ReportsAgree ==
    Quiet => LET s == Snapshot(m)
        dev == DevPlan(s)
        ai == AiPlanOf(s)
        cyber == CyberPlanOf(s)
    IN
    /\ Cardinality(EngineStatuses(s)) = 1
    /\ dev["containers.distrobox"] = cyber["toolbox.distrobox"]
    /\ ~DevCapabilities(s).container_engine.supported <=> EngineStatuses(s) = {"SKIP"}
    /\ DevCapabilities(s).cpp_toolchain.installed <=> dev["cpp.toolchain"].status = "NOOP"
    /\ DoctorEngines(s) = "WARN" => EngineStatuses(s) \subseteq {"NOOP", "SKIP"}
    /\ DoctorNodeConflict(s) = "WARN" =>
           dev["node.manager"].status = "BLOCKED" /\ dev["node.pnpm"].status # "APPLY"
    /\ CyberCapabilities(s).vm_isolation.usable <=> cyber["vm.prerequisites"].status = "NOOP"
    /\ CyberCapabilities(s).vm_isolation.usable <=> DoctorVm(s) = "PASS"
    /\ AiCapabilities(s).pytorch_cuda.usable = TRUE =>
           /\ ai["nvidia.driver"].status = "NOOP" /\ ai["python.pytorch"].status = "NOOP"
           /\ DoctorTorchMismatch(s) = "PASS"
    /\ ai["containers.nvidia_toolkit"].status = "APPLY" =>
           AiCapabilities(s).nvidia_driver.usable = TRUE
    /\ AiCapabilities(s).ai_container_runtime.usable =>
           /\ {ai["containers.engine"].status, ai["containers.nvidia_toolkit"].status}
                 \subseteq {"NOOP", "SKIP"}
           /\ ai["containers.nvidia_toolkit"].status = "NOOP" /\ NvidiaHardware(s)
                 => DoctorCdi(s) = "PASS"
    /\ DoctorBackend(s) = "WARN" => ai["python.pytorch"].status # "BLOCKED"
    /\ DoctorRocm(s) = "WARN" =>
           /\ AiCapabilities(s).rocm_runtime.usable = FALSE
           /\ "torch.rocm" \notin ai["python.pytorch"].tools
    /\ DoctorCudaMarker(s) = "WARN" => ~AiCapabilities(s).cuda_toolkit.installed
    /\ CyberCapabilities(s).packet_capture_permission.usable = FALSE => DoctorCapture(s) = "WARN"

\* A CUDA build, on a card, under a driver that runs.
RunsOnGpu(x) == "torch.cuda" \in x.has /\ DriverRuns(x)

Bounds(E, real) ==
    /\ \A d \in {"dev", "ai", "cyber"} :
          \E R \in real : F!Rank[F!Readiness(d, E)] <= F!Rank[F!Readiness(d, R)]
    /\ F!GpuIntent("ai", E).preferred # None =>
          \E R \in real : F!GpuIntent("ai", R).preferred # None

\* The evidence is gathered by four reports one after another.  Whatever
\* changes in between, and whichever probe does not end, no domain is called
\* readier than it was before or after, the GPU is preferred for AI only where
\* it was before or after, and only on a machine that ran PyTorch on it.
FocusNeverOverclaims ==
    Quiet =>
    /\ \A y \in Changed(m) : \A n \in DOMAIN Sections : \A k \in Cuts(Sections[n], m, y) :
          LET E == Gathered(m, y, n, k, {}) IN
          /\ Bounds(E, {Evidence(m), Evidence(y)})
          /\ F!GpuIntent("ai", E).preferred # None => RunsOnGpu(m) \/ RunsOnGpu(y)
    /\ \A p \in Planners : \A t \in Timeouts(p) :
          Bounds(Gathered(m, m, 1, 0, {t}), {Evidence(m)})
=============================================================================
