------------------------------- MODULE Focus -------------------------------
(***************************************************************************)
(* serein.focus: from what the other subsystems detected on the machine    *)
(* (FocusEvidence) to the policy of a focus target (policy.py,             *)
(* resources.py), the simulated transition between two targets             *)
(* (transition.py) and the checks of `serein focus doctor` (doctor.py).    *)
(* Software and hardware come and go between two invocations; one          *)
(* invocation works on one snapshot.                                       *)
(*                                                                         *)
(* Evidence is the set of facts the policy looks at.  The wording of       *)
(* reasons, and intents that are the same for every policy, are left out.  *)
(***************************************************************************)
EXTENDS Naturals, FiniteSets

CONSTANT None     \* no preferred domain, no plan

VARIABLES
    facts,   \* the evidence an invocation gathers
    plan     \* the transition simulated on it, if one has been

vars == <<facts, plan>>

Domains == {"dev", "ai", "cyber", "private"}
Targets == Domains \cup {"balanced"}

ASSUME NoneAssumption == None \notin Targets

\* A toolchain; a usable GPU PyTorch; any other AI (CPU PyTorch, a runtime);
\* the cyber toolbox or a VM; the Tor client, and a complete privacy boundary
\* (workspace, Whonix, Tor Browser), installed and usable; a GPU on the bus.
Facts == {"toolchain", "gpuTorch", "cpuAi", "isolation", "torInstalled",
          "torUsable", "boundaryInstalled", "boundaryUsable", "gpu"}

\* What the detectors can report: usable implies installed.
Evidence ==
    {E \in SUBSET Facts : /\ "torUsable" \in E => "torInstalled" \in E
                          /\ "boundaryUsable" \in E => "boundaryInstalled" \in E}

----------------------------------------------------------------------------
(* Readiness                                                               *)

\* Mutant: a usable Tor client makes the private focus available.
PrivateReadinessFromTor(E) ==
    IF {"torUsable", "boundaryUsable"} \cap E # {} THEN "available"
    ELSE IF {"torInstalled", "boundaryInstalled"} \cap E # {} THEN "limited"
    ELSE "blocked"

PrivateReadiness(E) ==
    IF "boundaryUsable" \in E THEN "available"
    ELSE IF {"torUsable", "torInstalled", "boundaryInstalled"} \cap E # {} THEN "limited"
    ELSE "blocked"

Supporting == [dev |-> {"toolchain"}, ai |-> {"gpuTorch", "cpuAi"}, cyber |-> {"isolation"}]

\* Mutant: a card without a usable backend holds the CPU path back.
ReadinessNeedsBackend(d, E) ==
    IF d = "private" THEN PrivateReadiness(E)
    ELSE IF d = "ai" /\ "gpu" \in E /\ "gpuTorch" \notin E THEN "limited"
    ELSE IF Supporting[d] \cap E # {} THEN "available" ELSE "limited"

Readiness(d, E) ==
    IF d = "private" THEN PrivateReadiness(E)
    ELSE IF Supporting[d] \cap E # {} THEN "available" ELSE "limited"

----------------------------------------------------------------------------
(* Policy                                                                  *)

RoleTable == [dev     |-> [ai |-> "secondary", cyber |-> "idle", private |-> "off"],
              ai      |-> [dev |-> "secondary", cyber |-> "idle", private |-> "off"],
              cyber   |-> [dev |-> "secondary", ai |-> "idle", private |-> "off"],
              private |-> [dev |-> "secondary", ai |-> "secondary", cyber |-> "idle"]]

Role(target, d, E) ==
    IF target = d THEN "primary"
    ELSE IF target = "balanced"
      THEN IF Readiness(d, E) = "blocked" THEN "off" ELSE "secondary"
    ELSE RoleTable[target][d]

Roles(target, E) == [d \in Domains |-> Role(target, d, E)]

GpuIntent(target, E) ==
    IF "gpu" \notin E THEN [preferred |-> None, mode |-> "unavailable"]
    ELSE IF target = "ai" /\ "gpuTorch" \in E THEN [preferred |-> "ai", mode |-> "preferred"]
    ELSE [preferred |-> None, mode |-> "shared"]

TargetReadiness(target, E) ==
    IF target = "balanced" THEN "available" ELSE Readiness(target, E)

----------------------------------------------------------------------------
(* Transition                                                              *)

MemoryLabel == [primary |-> "high", secondary |-> "medium", idle |-> "low", off |-> "none"]

Change(resource, d, before, after) ==
    [resource |-> resource, domain |-> d, before |-> before, after |-> after]

RoleChanges(from, to, E) ==
    LET changed == {d \in Domains : Role(from, d, E) # Role(to, d, E)}
    IN  {Change("cpu", d, Role(from, d, E), Role(to, d, E)) : d \in changed}
        \cup {Change("memory", d, MemoryLabel[Role(from, d, E)],
                     MemoryLabel[Role(to, d, E)]) : d \in changed}

GpuLabel(gpu) == IF gpu.preferred # None THEN gpu.preferred ELSE gpu.mode

\* Mutant: the change is filed under the domain that will hold the GPU.
GpuChangeAfter(from, to, E) ==
    LET before == GpuIntent(from, E)
        after  == GpuIntent(to, E)
    IN  IF before = after THEN {}
        ELSE {Change("gpu", IF after.preferred # None THEN after.preferred ELSE "shared",
                     GpuLabel(before), GpuLabel(after))}

GpuChange(from, to, E) ==
    LET before == GpuIntent(from, E)
        after  == GpuIntent(to, E)
    IN  IF before = after THEN {}
        ELSE {Change("gpu",
                     IF after.preferred # None THEN after.preferred
                     ELSE IF before.preferred # None THEN before.preferred ELSE "shared",
                     GpuLabel(before), GpuLabel(after))}

\* build_focus_transition; reversible is TRUE in every plan it builds.
Transition(from, to, E) ==
    IF from = to
      THEN [from |-> from, to |-> to, status |-> "NOOP",
            prerequisite |-> FALSE, blocker |-> FALSE, changes |-> {}]
      ELSE [from |-> from, to |-> to,
            status |-> IF TargetReadiness(to, E) = "blocked" THEN "BLOCKED" ELSE "PLANNABLE",
            prerequisite |-> TargetReadiness(to, E) # "available",
            blocker |-> TargetReadiness(to, E) = "blocked",
            changes |-> RoleChanges(from, to, E) \cup GpuChange(from, to, E)]

----------------------------------------------------------------------------
Init == facts \in Evidence /\ plan = None

\* Something is installed, removed, plugged in or made usable; the next
\* invocation gathers its evidence anew.
MachineChanges ==
    /\ \E f \in Facts : facts' \in {facts \cup {f}, facts \ {f}} \cap Evidence
    /\ plan' = None

\* serein focus transition --from from --to to
Simulate ==
    /\ plan = None
    /\ \E from, to \in Targets : plan' = Transition(from, to, facts)
    /\ UNCHANGED facts

Next == MachineChanges \/ Simulate

Spec == Init /\ [][Next]_vars

----------------------------------------------------------------------------
(* Properties                                                              *)

Planned == plan # None

\* The roles, and the GPU's label, that somebody ends with who starts from the
\* policy of plan.from and carries out the listed changes and nothing else.
After(p) ==
    [d \in Domains |->
        IF \E c \in p.changes : c.resource = "cpu" /\ c.domain = d
          THEN (CHOOSE c \in p.changes : c.resource = "cpu" /\ c.domain = d).after
          ELSE Role(p.from, d, facts)]

GpuAfter(p) ==
    IF \E c \in p.changes : c.resource = "gpu"
      THEN (CHOOSE c \in p.changes : c.resource = "gpu").after
      ELSE GpuLabel(GpuIntent(p.from, facts))

Mirror(S) == {Change(c.resource, c.domain, c.after, c.before) : c \in S}

\* Carrying out the changes of a plan on the policy it starts from gives the
\* policy of its target, domain for domain, and the target's GPU lease; and
\* reversible = TRUE is justified: what the way back changes is what this way
\* changed, the other way round.
PlanReachesTargetAndBack ==
    Planned =>
        /\ After(plan) = Roles(plan.to, facts)
        /\ GpuAfter(plan) = GpuLabel(GpuIntent(plan.to, facts))
        /\ Transition(plan.to, plan.from, facts).changes = Mirror(plan.changes)

\* The checks of `serein focus doctor` that can fail at all never do, whatever
\* is detected: one primary, the AI GPU preference gated on a usable backend,
\* the private focus not made available by the Tor client alone.
DoctorPasses ==
    /\ \A t \in Targets :
         {d \in Domains : Role(t, d, facts) = "primary"} = {t} \ {"balanced"}
    /\ GpuIntent("ai", facts).preferred = "ai" => "gpuTorch" \in facts
    /\ ("torUsable" \in facts /\ "boundaryUsable" \notin facts)
         => Readiness("private", facts) # "available"

Rank == [available |-> 2, limited |-> 1, blocked |-> 0]

\* More on the machine never makes a domain less ready, nor takes the GPU from
\* a focus that preferred it.
MoreNeverHurts ==
    [][facts \subseteq facts' =>
         /\ \A d \in Domains : Rank[Readiness(d, facts)] <= Rank[Readiness(d, facts')]
         /\ \A t \in Targets : GpuIntent(t, facts).preferred # None
                => GpuIntent(t, facts') = GpuIntent(t, facts)]_vars
=============================================================================
