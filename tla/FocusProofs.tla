---------------------------- MODULE FocusProofs ----------------------------
(***************************************************************************)
(* Theorems about Focus, on whatever evidence a machine gives.             *)
(***************************************************************************)
EXTENDS Focus, TLAPS

\* A plan in hand is one computed on the evidence as it is.
IInv == plan = None \/ \E from, to \in Targets : plan = Transition(from, to, facts)

\* No plan outlives the evidence it was computed on.
THEOREM Invariance == Spec => []IInv
<1>1. Init => IInv
  BY DEF Init, IInv
<1>2. IInv /\ [Next]_vars => IInv'
  <2> SUFFICES ASSUME IInv, [Next]_vars PROVE IInv'
    OBVIOUS
  <2>1. CASE MachineChanges
    BY <2>1 DEF MachineChanges, IInv
  <2>2. CASE Simulate
    BY <2>2 DEF Simulate, IInv
  <2>3. CASE UNCHANGED vars
    BY <2>3 DEF vars, IInv
  <2>4. QED
    BY <2>1, <2>2, <2>3 DEF Next
<1>3. QED
  BY <1>1, <1>2, PTL DEF Spec

----------------------------------------------------------------------------
(* The changes of a transition                                             *)

\* Of the changes listed, those of the processor are one for each domain
\* whose role changes.
LEMMA CpuChanges ==
    ASSUME NEW from, NEW to, NEW E, NEW c \in RoleChanges(from, to, E) \cup GpuChange(from, to, E),
           NEW d \in Domains, c.resource = "cpu", c.domain = d
    PROVE  c.after = Role(to, d, E)
<1>1. c \in RoleChanges(from, to, E)
  BY DEF GpuChange, Change
<1>2. QED
  BY <1>1 DEF RoleChanges, Change

\* A domain whose role changes has its change of the processor in the list.
LEMMA CpuChangeListed ==
    ASSUME NEW from, NEW to, NEW E, NEW d \in Domains, Role(from, d, E) # Role(to, d, E)
    PROVE  \E c \in RoleChanges(from, to, E) : c.resource = "cpu" /\ c.domain = d
<1>1. Change("cpu", d, Role(from, d, E), Role(to, d, E)) \in RoleChanges(from, to, E)
  BY DEF RoleChanges
<1>2. QED
  BY <1>1 DEF Change

\* At most one of them is about the GPU.
LEMMA GpuChanges ==
    ASSUME NEW from, NEW to, NEW E, NEW c \in RoleChanges(from, to, E) \cup GpuChange(from, to, E),
           c.resource = "gpu"
    PROVE  c.after = GpuLabel(GpuIntent(to, E))
<1>1. c \in GpuChange(from, to, E)
  BY DEF RoleChanges, Change
<1>2. QED
  BY <1>1 DEF GpuChange, Change

\* Where the GPU's intent changes the list says so.
LEMMA GpuChangeListed ==
    ASSUME NEW from, NEW to, NEW E, GpuIntent(from, E) # GpuIntent(to, E)
    PROVE  \E c \in GpuChange(from, to, E) : c.resource = "gpu"
BY DEF GpuChange, Change

\* A role that changes on the way there changes back on the way back.
LEMMA RoleChangesBack ==
    ASSUME NEW from, NEW to, NEW E, NEW c \in RoleChanges(from, to, E)
    PROVE  /\ Change(c.resource, c.domain, c.after, c.before) \in RoleChanges(to, from, E)
           /\ c = Change(c.resource, c.domain, c.before, c.after)
<1>1. PICK d \in Domains :
        /\ Role(from, d, E) # Role(to, d, E)
        /\ \/ c = Change("cpu", d, Role(from, d, E), Role(to, d, E))
           \/ c = Change("memory", d, MemoryLabel[Role(from, d, E)],
                        MemoryLabel[Role(to, d, E)])
  BY DEF RoleChanges
<1>2. LET back == Change(c.resource, c.domain, c.after, c.before) IN
      \/ back = Change("cpu", d, Role(to, d, E), Role(from, d, E))
      \/ back = Change("memory", d, MemoryLabel[Role(to, d, E)], MemoryLabel[Role(from, d, E)])
  BY <1>1 DEF Change
<1>3. c = Change(c.resource, c.domain, c.before, c.after)
  BY <1>1 DEF Change
<1>4. QED
  BY <1>1, <1>2, <1>3 DEF RoleChanges

\* The way back changes what the way there changed, the other way round: in
\* the roles because each is listed with its value before and after, and in
\* the GPU because no two policies prefer it for different domains.
LEMMA RolesMirror ==
    ASSUME NEW from, NEW to, NEW E
    PROVE  RoleChanges(to, from, E) = Mirror(RoleChanges(from, to, E))
<1>1. ASSUME NEW c \in RoleChanges(to, from, E) PROVE c \in Mirror(RoleChanges(from, to, E))
  <2> DEFINE there == Change(c.resource, c.domain, c.after, c.before)
  <2>1. there \in RoleChanges(from, to, E) /\ c = Change(c.resource, c.domain, c.before, c.after)
    BY RoleChangesBack
  <2>2. c = Change(there.resource, there.domain, there.after, there.before)
    BY <2>1 DEF Change
  <2>3. QED
    BY <2>1, <2>2 DEF Mirror
<1>2. ASSUME NEW c \in Mirror(RoleChanges(from, to, E)) PROVE c \in RoleChanges(to, from, E)
  BY RoleChangesBack DEF Mirror
<1>3. QED
  BY <1>1, <1>2

\* On the way back the change of the GPU is the same one, turned round.
LEMMA GpuMirrors ==
    ASSUME NEW from, NEW to, NEW E
    PROVE  GpuChange(to, from, E) = Mirror(GpuChange(from, to, E))
<1>1. GpuIntent(from, E).preferred \in {None, "ai"} /\ GpuIntent(to, E).preferred \in {None, "ai"}
  BY DEF GpuIntent
<1>2. CASE GpuIntent(from, E) = GpuIntent(to, E)
  BY <1>2 DEF GpuChange, Mirror
<1>3. CASE GpuIntent(from, E) # GpuIntent(to, E)
  BY <1>1, <1>3 DEF GpuChange, Mirror, Change
<1>4. QED
  BY <1>2, <1>3

----------------------------------------------------------------------------
(* The properties                                                          *)

\* Whatever is detected, carrying out a plan reaches the policy of its target,
\* and `reversible` is justified.
THEOREM PlansReachTarget == Spec => []PlanReachesTargetAndBack
<1>1. IInv => PlanReachesTargetAndBack
  <2> SUFFICES ASSUME NEW from \in Targets, NEW to \in Targets,
                      plan = Transition(from, to, facts)
               PROVE  PlanReachesTargetAndBack
    BY DEF IInv, PlanReachesTargetAndBack, Planned
  <2>1. plan.from = from /\ plan.to = to
    BY DEF Transition
  <2>2. CASE from = to
    <3>1. plan.changes = {} /\ Transition(to, from, facts).changes = {}
      BY <2>2 DEF Transition
    <3>2. After(plan) = Roles(to, facts)
      BY <2>1, <2>2, <3>1 DEF After, Roles
    <3>3. GpuAfter(plan) = GpuLabel(GpuIntent(to, facts))
      BY <2>1, <2>2, <3>1 DEF GpuAfter
    <3>4. QED
      BY <2>1, <3>1, <3>2, <3>3 DEF PlanReachesTargetAndBack, Mirror
  <2>3. CASE from # to
    <3>1. /\ plan.changes = RoleChanges(from, to, facts) \cup GpuChange(from, to, facts)
          /\ Transition(to, from, facts).changes
               = RoleChanges(to, from, facts) \cup GpuChange(to, from, facts)
      BY <2>3 DEF Transition
    <3>2. ASSUME NEW d \in Domains PROVE After(plan)[d] = Role(to, d, facts)
      <4>1. CASE \E c \in plan.changes : c.resource = "cpu" /\ c.domain = d
        BY <2>1, <3>1, <4>1, CpuChanges DEF After
      <4>2. CASE ~\E c \in plan.changes : c.resource = "cpu" /\ c.domain = d
        BY <2>1, <3>1, <4>2, CpuChangeListed DEF After
      <4>3. QED
        BY <4>1, <4>2
    <3>3. After(plan) = Roles(to, facts)
      BY <3>2 DEF After, Roles
    <3>4. GpuAfter(plan) = GpuLabel(GpuIntent(to, facts))
      BY <2>1, <3>1, GpuChanges, GpuChangeListed DEF GpuAfter
    <3>5. Transition(to, from, facts).changes = Mirror(plan.changes)
      <4>1. Mirror(plan.changes) = Mirror(RoleChanges(from, to, facts))
                                     \cup Mirror(GpuChange(from, to, facts))
        BY <3>1 DEF Mirror
      <4>2. QED
        BY <3>1, <4>1, RolesMirror, GpuMirrors
    <3>6. QED
      BY <2>1, <3>3, <3>4, <3>5 DEF PlanReachesTargetAndBack
  <2>4. QED
    BY <2>2, <2>3
<1>2. QED
  BY <1>1, Invariance, PTL

\* The checks of the doctor that can fail never do: they are true of the
\* policy, whatever is detected.
THEOREM DoctorAlwaysPasses == Spec => []DoctorPasses
<1>1. DoctorPasses
  <2>1. ASSUME NEW t \in Targets, NEW d \in Domains
        PROVE  Role(t, d, facts) = "primary" <=> t = d
    <3>1. CASE t = "balanced"
      BY <3>1 DEF Role, Domains
    <3>2. CASE t \in Domains /\ t # d
      <4>1. RoleTable[t][d] # "primary"
        BY <3>2 DEF RoleTable, Domains
      <4>2. QED
        BY <3>2, <4>1 DEF Role, Domains
    <3>3. CASE t = d
      BY <3>3 DEF Role
    <3>4. QED
      BY <3>1, <3>2, <3>3 DEF Targets
  <2>2. \A t \in Targets :
          {d \in Domains : Role(t, d, facts) = "primary"} = {t} \ {"balanced"}
    BY <2>1 DEF Targets, Domains
  <2>3. GpuIntent("ai", facts).preferred = "ai" => "gpuTorch" \in facts
    BY NoneAssumption DEF GpuIntent, Targets, Domains
  <2>4. QED
    BY <2>2, <2>3 DEF DoctorPasses, Readiness, PrivateReadiness
<1>2. QED
  BY <1>1, PTL

\* More on the machine never makes a domain less ready, nor takes the GPU from
\* a focus that preferred it.
THEOREM MoreNeverHurtsHolds == Spec => MoreNeverHurts
<1> DEFINE Step == facts \subseteq facts' =>
                     /\ \A d \in Domains : Rank[Readiness(d, facts)] <= Rank[Readiness(d, facts')]
                     /\ \A t \in Targets : GpuIntent(t, facts).preferred # None
                            => GpuIntent(t, facts') = GpuIntent(t, facts)
<1>1. Step
  <2> SUFFICES ASSUME facts \subseteq facts' PROVE Step
    OBVIOUS
  <2>1. ASSUME NEW d \in Domains
        PROVE  Rank[Readiness(d, facts)] <= Rank[Readiness(d, facts')]
    <3>1. CASE d = "private"
      BY <3>1 DEF Readiness, PrivateReadiness, Rank
    <3>2. CASE d # "private"
      <4>1. Supporting[d] \cap facts # {} => Supporting[d] \cap facts' # {}
        OBVIOUS
      <4>2. QED
        BY <3>2, <4>1 DEF Readiness, Rank
    <3>3. QED
      BY <3>1, <3>2
  <2>2. ASSUME NEW t \in Targets, GpuIntent(t, facts).preferred # None
        PROVE  GpuIntent(t, facts') = GpuIntent(t, facts)
    BY <2>2 DEF GpuIntent
  <2>3. QED
    BY <2>1, <2>2
<1>2. QED
  BY <1>1, PTL DEF MoreNeverHurts
=============================================================================
