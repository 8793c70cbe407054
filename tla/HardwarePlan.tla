---------------------------- MODULE HardwarePlan ----------------------------
(***************************************************************************)
(* serein.hardware: `serein hardware plan <profile>` (planner.py), the      *)
(* detectors it calls one after another, the capability report built from  *)
(* the same detectors (capabilities.py) and the doctor (doctor.py).        *)
(*                                                                         *)
(* Nothing is locked: the machine may change between two reads of one      *)
(* invocation, and between the listing of a directory and the reading of   *)
(* the files of what was listed.  There is no apply engine; somebody may   *)
(* carry out an APPLY action of a plan, at once or long after.             *)
(*                                                                         *)
(* Not distinguished: reasons and wording, sizes, names of disks, the      *)
(* algorithm of a zram device, battery charge levels.                      *)
(***************************************************************************)
EXTENDS GpuPolicy, FiniteSets, FiniteSetsExt, SequencesExt

CONSTANTS
    None,         \* nothing read, no such value
    Machines,     \* the machines a behaviour starts on
    MaxChanges,   \* bound: changes of the machine in a behaviour
    MaxEntries    \* bound: names of power supplies, and of graphics cards

ASSUME BoundsAssumption == MaxChanges \in Nat /\ MaxEntries \in Nat

\* Energy-performance preferences.
Preferences == {"power", "balance_power", "default", "balance_performance", "performance"}
\* zram-generator configuration files: one in the package's, one in the
\* administrator's directory.
ConfFiles == {"usr", "etc"}
ConfContents == {"absent", "empty", "section"}

\* A power supply as sysfs shows it; of the last, online cannot be read.
Supplies == [battery    |-> [type |-> "Battery", online |-> "unread"],
             online     |-> [type |-> "Mains",   online |-> "1"],
             offline    |-> [type |-> "Mains",   online |-> "0"],
             unreadable |-> [type |-> "Mains",   online |-> "unread"]]

\* A directory holds some names, an entry under each.
Directory(kinds) == UNION {[names -> kinds] : names \in SUBSET (1..MaxEntries)}

Machine ==
    [ram : BOOLEAN, cards : Directory(DOMAIN Cards), nvmod : BOOLEAN,
     supplies : Directory(DOMAIN Supplies),
     virt : SUBSET {"microsoft", "dockerenv", "cgroup", "dmi", "hypervisor"},
     cpufreq : BOOLEAN, avail : SUBSET Preferences, current : Preferences \cup {None},
     usr : ConfContents, etc : ConfContents, zdev : BOOLEAN, zctl : BOOLEAN,
     disks : SUBSET {"plain", "scheduled"}, ppd : BOOLEAN]

\* What the kernel says of one machine: the preference in force is one of
\* those it offers, and one card at most is the boot display.
Coherent(x) ==
    /\ x.current \in x.avail \cup {None}
    /\ \A i, j \in DOMAIN x.cards :
          Cards[x.cards[i]].boot /\ Cards[x.cards[j]].boot => i = j

ASSUME MachinesAssumption == \A x \in Machines : x \in Machine /\ Coherent(x)

VARIABLES
    m,         \* the machine: sysfs, procfs and configuration files
    profile,   \* the profile being planned for
    pc,        \* the next thing the invocation reads; 0 when none is running
    left,      \* files it has yet to read in the directory it listed last
    got,       \* what it has read
    first,     \* the machine when the invocation started
    moved,     \* changes of the machine since then
    changes,   \* changes of the machine in all
    plan       \* the plan in somebody's hands, None without one

vars == <<m, profile, pc, left, got, first, moved, changes, plan>>

VALID_PROFILES == {"balanced", "dev", "ai", "battery", "cyber"}

\* The reads of one invocation, in their order: probe_hardware (memory, power,
\* environment; what it finds of the cards goes into no action), the policies,
\* and the kernel's zram support last.
Reads == <<"ram", "supplies", "virt", "current", "avail", "usr", "etc", "zdev",
           "disks", "ppd", "cards", "nvmod", "zctl">>

Fields == ToSet(Reads)

\* Two of them are directories: listed in one step, and the files of each entry
\* read one after another, in the order of the names.
Directories == {"supplies", "cards"}
Entries(d) == IF d = "supplies" THEN Supplies ELSE Cards
Files(d) == IF d = "supplies" THEN {"type", "online"} ELSE {"vendor", "class", "boot"}
Position == [type |-> 1, online |-> 2, vendor |-> 1, class |-> 2, boot |-> 3]

\* read_text gives nothing of a file that is gone, or that is not read yet; of
\* boot_vga nothing is as good as a zero.
Nothing(file) == IF file = "boot" THEN FALSE ELSE "unread"

Content(x, d, name, file) ==
    IF name \in DOMAIN x[d] THEN Entries(d)[x[d][name]][file] ELSE Nothing(file)

Listed(x, d) == [name \in DOMAIN x[d] |-> [file \in Files(d) |-> Nothing(file)]]
Shown(x, d) == [name \in DOMAIN x[d] |-> [file \in Files(d) |-> Content(x, d, name, file)]]

\* Everything read while the machine stands still.
AllOf(x) == [f \in Fields |-> IF f \in Directories THEN Shown(x, f) ELSE x[f]]

----------------------------------------------------------------------------
(* Detectors                                                               *)

\* detect_environment.  A Docker container under WSL is both.
Environment(marks) ==
    [virtualization |-> IF "microsoft" \in marks THEN "wsl"
                        ELSE IF {"dockerenv", "cgroup"} \cap marks # {} THEN "container"
                        ELSE IF "dmi" \in marks THEN "vm"
                        ELSE IF "hypervisor" \in marks THEN "unknown-hypervisor" ELSE "none",
     is_container |-> {"dockerenv", "cgroup"} \cap marks # {}]

Virtualized(marks) ==
    Environment(marks).virtualization = "wsl" \/ Environment(marks).is_container

HasBattery(supplies) == \E i \in DOMAIN supplies : supplies[i].type = "Battery"

\* The last mains adapter whose state can be read decides; None is unknown.
OnAc(supplies) ==
    LET mains == {i \in DOMAIN supplies :
                     supplies[i].type = "Mains" /\ supplies[i].online # "unread"}
    IN  IF mains = {} THEN None
        ELSE \E i \in mains : (\A j \in mains : i >= j) /\ supplies[i].online = "1"

\* Only a file with a [zramN] section counts.
ConfSources(x) == {f \in ConfFiles : x[f] = "section"}

ZramSupport(zctl, zdev) == zctl \/ zdev

ZramCapability(virt, zctl, zdev) == ~Virtualized(virt) /\ ZramSupport(zctl, zdev)

----------------------------------------------------------------------------
(* The plan: from what was read, a status and a target for each action     *)

Action(status, target) == [status |-> status, target |-> target]

\* None is no action and no preference.
ASSUME NoneAssumption ==
    /\ None \notin Preferences
    /\ \A status \in {"APPLY", "NOOP", "SKIP", "BLOCKED", "DONE"} :
          \A target \in Preferences \cup {None, "zram", "balanced", "power-saver"} :
             None # Action(status, target)

EppCandidates(p, supplies) ==
    IF p = "ai"
      THEN IF OnAc(supplies) = TRUE \/ ~HasBattery(supplies)
             THEN <<"performance", "balance_performance">>
             ELSE <<"balance_performance">>
    ELSE IF p = "battery" THEN <<"balance_power", "power">>
    ELSE <<"balance_performance", "default", "balance_power">>

\* The first preference wanted that is available, if any.
Wanted(p, g) ==
    LET candidates == EppCandidates(p, g.supplies)
        available  == {i \in DOMAIN candidates : candidates[i] \in g.avail}
    IN  IF available = {} THEN None ELSE candidates[Min(available)]

\* Mutant: the current value is not looked at.
CpuActionAgain(p, g) ==
    IF Virtualized(g.virt) \/ g.avail = {} THEN Action("SKIP", None)
    ELSE IF Wanted(p, g) = None THEN Action("BLOCKED", EppCandidates(p, g.supplies)[1])
    ELSE Action("APPLY", Wanted(p, g))

\* Without cpufreq nothing is available.
CpuAction(p, g) ==
    IF Virtualized(g.virt) \/ g.avail = {} THEN Action("SKIP", None)
    ELSE IF Wanted(p, g) = None THEN Action("BLOCKED", EppCandidates(p, g.supplies)[1])
    ELSE Action(IF g.current = Wanted(p, g) THEN "NOOP" ELSE "APPLY", Wanted(p, g))

PowerProfileAction(p, g) ==
    IF g.ppd THEN Action("APPLY", IF p = "battery" THEN "power-saver" ELSE "balanced")
    ELSE Action("SKIP", None)

ZramAction(g) ==
    IF g.zdev \/ ConfSources(g) # {} THEN Action("NOOP", None)
    ELSE IF Virtualized(g.virt) THEN Action("SKIP", None)
    ELSE IF ~g.ram THEN Action("BLOCKED", "zram")
    ELSE IF ~ZramCapability(g.virt, g.zctl, g.zdev) THEN Action("BLOCKED", "zram")
    ELSE Action("APPLY", "zram")

\* Disks are grouped by whether they have a queue/scheduler file; none is ever
\* changed.
StorageAction(g) ==
    [d \in g.disks |->
        Action(IF Virtualized(g.virt) \/ d = "plain" THEN "SKIP" ELSE "NOOP", None)]

\* A topology report for every profile: with its confidence for battery, and
\* for ai with what it says of a card to compute on.
GpuAction(p, g) ==
    [status |-> "NOOP", target |-> None,
     confidence |-> IF p # "battery" \/ Hybrid(g.cards).is = "no" THEN "high"
                    ELSE Hybrid(g.cards).confidence,
     compute |-> p = "ai" /\ ("discrete" \in Kinds(g.cards) \/ g.nvmod)]

ActionIds == {"cpu.epp", "power.ppd_profile", "memory.zram", "storage", "gpu"}

\* build_hardware_plan, once everything it reads is read.
PlanOf(p, g) ==
    [id \in ActionIds |->
        IF p = "battery" /\ ~HasBattery(g.supplies) THEN None
        ELSE CASE id = "cpu.epp"           -> CpuAction(p, g)
               [] id = "power.ppd_profile" -> PowerProfileAction(p, g)
               [] id = "memory.zram"       -> ZramAction(g)
               [] id = "storage"           -> StorageAction(g)
               [] id = "gpu"               -> GpuAction(p, g)]

\* The actions of a plan that change something.
Proposals(pl) ==
    {id \in {"cpu.epp", "power.ppd_profile", "memory.zram"} :
        pl[id] # None /\ pl[id].status = "APPLY"}

----------------------------------------------------------------------------
(* The capability report and the doctor, on a machine that stands still     *)

Capable(x) ==
    [cpu_governor_control |-> ~Virtualized(x.virt) /\ x.cpufreq,
     cpu_epp_control      |-> ~Virtualized(x.virt) /\ x.avail # {},
     zram_configurable    |-> ZramCapability(x.virt, x.zctl, x.zdev),
     storage_scheduler_configurable |-> ~Virtualized(x.virt) /\ "scheduled" \in x.disks,
     battery_detected     |-> HasBattery(AllOf(x).supplies),
     power_profile_control |-> x.ppd,
     nvidia_compute_gpu   |-> NvidiaPresent(x.cards)]

\* Mutant: several configurations are reported before a device is looked for.
DoctorZramOfSources(x) ==
    IF Cardinality(ConfSources(x)) > 1 THEN "WARN"
    ELSE IF ConfSources(x) # {} THEN "PASS" ELSE "SKIP"

DoctorZram(x) ==
    IF Cardinality(ConfSources(x)) > 1 THEN "WARN"
    ELSE IF x.zdev \/ ConfSources(x) # {} THEN "PASS" ELSE "SKIP"

DoctorGpu(x) ==
    IF DOMAIN x.cards = {} THEN "SKIP"
    ELSE IF Hybrid(AllOf(x).cards).is = "unknown" THEN "WARN" ELSE "PASS"

DoctorVirtualization(x) ==
    IF ~Virtualized(x.virt) THEN "SKIP"
    ELSE IF CpuAction("balanced", AllOf(x)).status = "SKIP" THEN "PASS" ELSE "FAIL"

----------------------------------------------------------------------------
(* Behaviour                                                               *)

Init ==
    /\ m \in Machines
    /\ profile = None /\ pc = 0 /\ left = {} /\ first = None /\ plan = None
    /\ got = [f \in Fields |-> None]
    /\ moved = 0 /\ changes = 0

\* Mutant: the hardware report of the invocation before is used again.
StartFromLastProbe ==
    /\ pc = 0 /\ plan = None
    /\ profile' \in VALID_PROFILES
    /\ pc' = IF got.zctl = None THEN 1 ELSE 4
    /\ first' = m /\ moved' = 0
    /\ UNCHANGED <<m, left, got, changes, plan>>

Start ==
    /\ pc = 0 /\ plan = None
    /\ profile' \in VALID_PROFILES
    /\ pc' = 1 /\ first' = m /\ moved' = 0
    /\ got' = [f \in Fields |-> None]
    /\ UNCHANGED <<m, left, changes, plan>>

\* Something that is one file, or whose files cannot disagree.
Read ==
    /\ pc \in DOMAIN Reads /\ left = {} /\ Reads[pc] \notin Directories
    /\ got' = [got EXCEPT ![Reads[pc]] = m[Reads[pc]]]
    /\ pc' = pc + 1
    /\ UNCHANGED <<m, profile, left, first, moved, changes, plan>>

\* iterdir: the names that are there now.
List ==
    /\ pc \in DOMAIN Reads /\ left = {} /\ Reads[pc] \in Directories
    /\ got' = [got EXCEPT ![Reads[pc]] = Listed(m, Reads[pc])]
    /\ left' = (DOMAIN m[Reads[pc]]) \X Files(Reads[pc])
    /\ pc' = pc + 1
    /\ UNCHANGED <<m, profile, first, moved, changes, plan>>

IsNext(name, file) ==
    /\ <<name, file>> \in left
    /\ \A other \in left : \/ name < other[1]
                           \/ name = other[1] /\ Position[file] <= Position[other[2]]

\* One file of a name that was listed, as it is by now.  The online file is
\* looked at of a mains adapter only.
ReadFile ==
    /\ left # {}
    /\ LET d == Reads[pc - 1] IN
       \E name \in DOMAIN got[d], file \in Files(d) :
          /\ IsNext(name, file)
          /\ got' = [got EXCEPT ![d][name][file] = Content(m, d, name, file)]
          /\ left' = left \ (IF file = "type" /\ Content(m, d, name, file) # "Mains"
                               THEN {name} \X Files(d) ELSE {<<name, file>>})
    /\ UNCHANGED <<m, profile, pc, first, moved, changes, plan>>

Plan ==
    /\ pc = Len(Reads) + 1
    /\ plan' = PlanOf(profile, got)
    /\ pc' = 0
    /\ UNCHANGED <<m, profile, left, got, first, moved, changes>>

\* A directory with kind under name, and without it.
With(directory, name, kind) ==
    [n \in DOMAIN directory \cup {name} |-> IF n = name THEN kind ELSE directory[n]]
Without(directory, name) == Restrict(directory, DOMAIN directory \ {name})

\* Mains power goes or comes; an adapter or a battery is plugged in or taken out.
SupplyChange(s) ==
    {With(s, n, kind) : n \in {n \in DOMAIN s : s[n] # "battery"}, kind \in {"online", "offline"}}
    \cup {With(s, n, kind) : n \in (1..MaxEntries) \ DOMAIN s, kind \in {"battery", "online"}}
    \cup {Without(s, n) : n \in DOMAIN s}

\* A card is put into a dock, or one that is not the boot display taken away.
CardChange(c) ==
    {With(c, n, "nvidia") : n \in (1..MaxEntries) \ DOMAIN c}
    \cup {Without(c, n) : n \in {n \in DOMAIN c : ~Cards[c[n]].boot}}

\* One entry of a directory; a package; a configuration file; a settings tool;
\* a module of the graphics driver.
OneThing(x) ==
    {[x EXCEPT !.supplies = s] : s \in SupplyChange(x.supplies)}
    \cup {[x EXCEPT !.cards = c] : c \in CardChange(x.cards)}
    \cup {[x EXCEPT !.nvmod = ~@]}
    \cup {[x EXCEPT !.ppd = ~@], [x EXCEPT !.zdev = FALSE]}
    \cup {[x EXCEPT !.usr = t] : t \in {"absent", "section"}}
    \cup {[x EXCEPT !.etc = t] : t \in {"absent", "empty", "section"}}
    \cup {[x EXCEPT !.current = e] : e \in x.avail}

\* Loading the zram module brings its control interface and a device, and
\* unloading it takes both away; another cpufreq driver brings or takes away
\* the list of preferences and the current one.
DriverChange(x) ==
    {[x EXCEPT !.zctl = z, !.zdev = z] : z \in BOOLEAN}
    \cup (IF x.cpufreq THEN {[x EXCEPT !.avail = {}, !.current = None],
                             [x EXCEPT !.avail = {"default", "performance"},
                                       !.current = "default"]} ELSE {})

MachineChanges ==
    /\ changes < MaxChanges
    /\ m' \in (OneThing(m) \cup DriverChange(m)) \ {m}
    /\ changes' = changes + 1 /\ moved' = moved + 1
    /\ UNCHANGED <<profile, pc, left, got, first, plan>>

\* A boot creates the device that is configured, if the kernel can, and the
\* driver sets its default preference.  A plan on paper survives it.
Boot ==
    /\ pc = 0 /\ changes < MaxChanges
    /\ m' = [m EXCEPT !.zdev = @ \/ (ConfSources(m) # {} /\ ~Virtualized(m.virt) /\ m.zctl),
                      !.current = IF "default" \in m.avail THEN "default" ELSE @]
    /\ changes' = changes + 1 /\ moved' = moved + 1
    /\ UNCHANGED <<profile, pc, left, got, first, plan>>

\* What carrying out action id of plan pl makes of machine x.
Carry(x, pl, id) ==
    CASE id = "cpu.epp"           -> IF pl[id].target \in x.avail
                                       THEN [x EXCEPT !.current = pl[id].target]
                                       ELSE x      \* the write is refused
      [] id = "power.ppd_profile" -> x      \* the active profile is not readable
      [] id = "memory.zram"       -> [x EXCEPT !.etc = "section"]

\* Somebody carries out one proposal of the plan, or puts the plan away.
Follow(id) ==
    /\ pc = 0 /\ plan # None /\ id \in Proposals(plan)
    /\ m' = Carry(m, plan, id)
    /\ plan' = [plan EXCEPT ![id].status = "DONE"]
    /\ UNCHANGED <<profile, pc, left, got, first, moved, changes>>

PutAway ==
    /\ pc = 0 /\ plan # None
    /\ plan' = None /\ profile' = None /\ first' = None /\ moved' = 0
    /\ UNCHANGED <<m, pc, left, got, changes>>

Next ==
    \/ Start \/ Read \/ List \/ ReadFile \/ Plan \/ MachineChanges \/ Boot \/ PutAway
    \/ \E id \in ActionIds : Follow(id)

Spec == Init /\ [][Next]_vars

----------------------------------------------------------------------------
(* Properties                                                              *)

Quiet == pc = 0 /\ plan = None

Untouched == plan # None /\ \A id \in ActionIds : plan[id] = None \/ id = "storage"
                                                     \/ plan[id].status # "DONE"

OfAnInstant(id) == plan[id] \in {PlanOf(profile, AllOf(first))[id], PlanOf(profile, AllOf(m))[id]}

\* The reads are not atomic, and one change of the machine can tear a plan in
\* three ways, of which the last is owned up to: the zram module loaded between
\* the scan for devices and the look for its control interface (a second zram
\* is proposed); a cpufreq driver that changes between the reads of the current
\* preference and of the list (the current one is proposed again); a graphics
\* card that goes between the listing and the reading of its files (counted
\* and never classified, it lowers the confidence of the topology to low, and
\* never raises it).  Every other action is that of the moment before the
\* change or of the one after it, a power supply that goes while it is listed
\* included.
TornInThreeWays ==
    (Untouched /\ moved <= 1) => \A id \in ActionIds :
        \/ OfAnInstant(id)
        \/ id = "memory.zram" /\ id \in Proposals(plan) /\ ~first.zctl /\ m.zdev
        \/ id = "cpu.epp" /\ id \in Proposals(plan) /\ first.avail # m.avail
              /\ plan[id].target = m.current
        \/ id = "gpu" /\ plan[id].confidence = "low"
              /\ \E name \in DOMAIN first.cards : name \notin DOMAIN m.cards

\* The actions of a plan change different things.
CarryAll(x, pl) ==
    LET carried(y, id) == IF id \in Proposals(pl) THEN Carry(y, pl, id) ELSE y
    IN  carried(carried(carried(x, "cpu.epp"), "power.ppd_profile"), "memory.zram")

\* A plan carried out settles: planned again, for the same profile, nothing is
\* proposed but the power profile, whose active value cannot be read back.
FollowedPlanSettles ==
    Quiet => \A p \in VALID_PROFILES :
        LET pl == PlanOf(p, AllOf(m))
            after == CarryAll(m, pl)
        IN  Proposals(PlanOf(p, AllOf(after))) \subseteq {"power.ppd_profile"}

IsHybrid(cards) ==
    {"integrated", "discrete"} \subseteq {Cards[cards[i]].is : i \in DOMAIN cards}

\* A topology stated with high confidence is the real one, and a lone card is
\* never taken for integrated on the strength of boot_vga.
HighConfidenceIsRight ==
    Quiet =>
        LET read == AllOf(m).cards IN
        /\ Hybrid(read).confidence = "high" => ((Hybrid(read).is = "yes") <=> IsHybrid(m.cards))
        /\ ~Several(read) => "integrated" \notin Kinds(read)

\* The doctor, the capability report and the planner decide separately and
\* tell one story.  Nothing is proposed that the report calls impossible; a
\* battery profile has a plan exactly when a battery is reported.  The zram
\* check promises "no second one" exactly when every plan leaves zram alone
\* because one exists, the virtualization check never fails, and where the
\* doctor calls the GPU topology unresolved the battery plan claims no
\* confidence either.  The report finds an NVIDIA card by vendor, the plan a
\* card to compute on by classification: where the one is there the ai plan
\* speaks of the other, and of a card that no driver module speaks for only
\* where the doctor finds a card as well.
ReportsSpeakForPlanner ==
    Quiet =>
        /\ DoctorVirtualization(m) # "FAIL"
        /\ \A p \in VALID_PROFILES :
               LET pl == PlanOf(p, AllOf(m)) IN
               /\ "cpu.epp" \in Proposals(pl) => Capable(m).cpu_epp_control
               /\ "memory.zram" \in Proposals(pl) => Capable(m).zram_configurable
               /\ "power.ppd_profile" \in Proposals(pl) => Capable(m).power_profile_control
               /\ (pl["cpu.epp"] = None) <=> (p = "battery" /\ ~Capable(m).battery_detected)
               /\ pl["memory.zram"] # None =>
                     (DoctorZram(m) # "SKIP" <=> pl["memory.zram"].status = "NOOP")
               /\ DoctorGpu(m) = "WARN" /\ p = "battery" /\ Capable(m).battery_detected =>
                     pl["gpu"].confidence = "low"
               /\ p = "ai" => /\ Capable(m).nvidia_compute_gpu => pl["gpu"].compute
                              /\ pl["gpu"].compute /\ ~m.nvmod => DoctorGpu(m) # "SKIP"
=============================================================================
