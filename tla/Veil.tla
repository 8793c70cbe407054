-------------------------------- MODULE Veil --------------------------------
(***************************************************************************)
(* serein.veil: `serein veil plan` and `serein veil capabilities` probe the  *)
(* Tor client, read the torrc (Torrc), look for a listener, for a VM backend *)
(* and for Whonix images, one after another, while Tor is started, stopped   *)
(* or reconfigured.  What they report are functions of the replies, as are   *)
(* the checks of the doctor.                                               *)
(*                                                                         *)
(* Not distinguished: versions, reasons, confidence; nyx, obfs4proxy and     *)
(* ordinary browsers; the directives that no decision depends on, which are  *)
(* evaluated like SocksPort; a machine without /proc/net/tcp, which is taken *)
(* for one without a listener.                                             *)
(***************************************************************************)
EXTENDS CyberPlan, Torrc

CONSTANTS
    None,          \* no command
    Worlds,        \* the machines and file systems a behaviour starts on
    Edits,         \* the edits of the torrc: paths and what is written there
    Toggles,       \* what can be installed or removed meanwhile
    MaxChanges,    \* bound: changes while commands run
    MaxTimeouts    \* bound: probes that do not end, in one command

\* What a machine can have, the daemon's states, and whether another process
\* holds the port.
Things == {"systemd", "masterUp", "tor", "torPackage", "torsocks", "launcher", "kvm", "kvmModule",
           "kvmAccess", "kvmUnreadable", "qemu", "libvirt", "gateway", "workstation"}

Machines == [has : SUBSET Things, daemon : {"stopped", "silent", "serving"}, foreign : BOOLEAN]

ASSUME VeilAssumption ==
    /\ MaxChanges \in Nat /\ MaxTimeouts \in Nat
    /\ \A w \in Worlds : w.m \in Machines /\ w.fs \in [Paths -> Entries]
    /\ Toggles \subseteq SUBSET Things
    /\ \A e \in Edits : e.path \in Paths /\ e.entry \in Entries

\* One thing comes or goes at a time, a package with its program, and systemd
\* does not under a running command.
ASSUME TogglesAssumption ==
    \A things \in Toggles :
        /\ things = {"tor", "torPackage"} \/ \E thing \in Things : things = {thing}
        /\ "systemd" \notin things

VARIABLES
    m,        \* the machine: what it has, the Tor daemon, another process on the port
    cmd,      \* the command that runs or has run
    seen,     \* probe -> what it replied
    during,   \* the worlds there were since the command began
    changes

veilVars == <<fs, todo, lines, m, cmd, seen, during, changes>>

Commands == {"plan", "capabilities"}

TorProbes == <<"tor", "torPackage", "torsocks", "master", "unit", "unitActive", "torrc",
               "listener">>
VmAgain   == <<"kvm2", "kvmModule2", "qemu2", "libvirt2", "kvmAccess2">>

Order == [plan         |-> TorProbes \o VmProbes \o <<"gateway", "workstation", "torPackage2",
                                                      "launcher">>,
          capabilities |-> TorProbes \o <<"launcher">> \o VmProbes \o <<"gateway", "workstation">>
                           \o VmAgain]

AllProbes == UNION {{Order[c][i] : i \in DOMAIN Order[c]} : c \in Commands}

----------------------------------------------------------------------------
(* What the directives mean                                                *)

\* What a loop over the directives leaves for one option: whether the last one
\* of its name enables it, or any since the last clear where that counts too.
Evaluate(directives, name, cleared, additive) ==
    LET value[i \in 0..Len(directives)] ==
            IF i = 0 THEN Unknown
            ELSE IF directives[i].name # name THEN value[i - 1]
            ELSE IF directives[i].op = "clear" THEN cleared
            ELSE (additive /\ value[i - 1] = TRUE) \/ directives[i].value # "0"
    IN  value[Len(directives)]

\* Mutant: an option that is cleared counts as one that is not mentioned.
MultiValueForgetful(directives, name) == Evaluate(directives, name, Unknown, TRUE)

\* _evaluate_multi_value: set and append add an entry, clear removes all.
MultiValue(directives, name) == Evaluate(directives, name, FALSE, TRUE)

\* _evaluate_scalar: the last one counts, clear leaves it open.
Scalar(directives, name) == Evaluate(directives, name, Unknown, FALSE)

\* The text of a body's paths that are taken.
Among(below, body, taken, chain) ==
    FlattenSeq([i \in DOMAIN body |-> IF body[i].of \in taken THEN below[body[i].of][chain]
                                      ELSE <<>>])

\* The text a line stands for, which is nested in a chain of files.
LineText(f, below, line, chain) ==
    CASE line.kind = "directive" -> <<line>>
      [] line.kind = "include"   -> below[line.of][chain]
      [] line.kind = "wildcard"  ->
           IF f[line.of].kind = "dir" /\ line.of \notin Outside
             THEN Among(below, f[line.of].body, line.match, chain) ELSE <<>>

\* The text of a path that is nested in a chain, given what is below it.
PathText(f, below, p, chain) ==
    LET body == f[p].body IN
    IF p \in chain \cup Outside THEN <<>>
    ELSE IF f[p].kind = "dir"
      THEN Among(below, body, {q \in Paths : f[q].kind = "file"}, chain \cup {p})
    ELSE FlattenSeq([i \in DOMAIN body |-> LineText(f, below, body[i], chain \cup {p})])

\* The torrc as it reads at one moment: an include stands for the text it
\* names, down to so many levels.
Text(f, levels) ==
    LET T[n \in 0..levels] ==
            [p \in Paths |-> [chain \in SUBSET Paths |->
                IF n = 0 THEN <<>> ELSE PathText(f, T[n - 1], p, chain)]]
    IN  IF f[Main].kind = "file" THEN T[levels][Main][{}] ELSE <<>>

\* What the bound on nesting leaves of it.
Readable(f) == Text(f, MaxIncludeDepth + 1)

Directives(found) == [i \in DOMAIN found |-> found[i].said]

----------------------------------------------------------------------------
(* The machine                                                             *)

World == [m |-> m, fs |-> fs]

\* The ports the daemon opens: what is set after the last clear, 9050 where
\* nothing is said.  No chain is longer than there are paths.
Ports(f) ==
    LET text == Text(f, Cardinality(Paths))
        said == {i \in DOMAIN text : text[i].name = "SocksPort"}
        kept == {i \in said : \A j \in said : j >= i => text[j].op # "clear"}
    IN  IF said = {} THEN {"9050"} ELSE {text[i].value : i \in kept} \ {"0"}

\* The daemon as it is after loading its configuration.
Loaded(x, f) == IF "9050" \in Ports(f) /\ ~x.foreign THEN "serving" ELSE "silent"

Has(x, thing) ==
    IF thing # "kvmAccess" THEN thing \in x.has
    ELSE IF "kvmUnreadable" \in x.has THEN Unknown ELSE {"kvm", "kvmAccess"} \subseteq x.has

Once == [kvm2 |-> "kvm", kvmModule2 |-> "kvmModule", qemu2 |-> "qemu", libvirt2 |-> "libvirt",
         kvmAccess2 |-> "kvmAccess", torPackage2 |-> "torPackage"]

\* A unit is that of the package.
Unit(x) == {"systemd", "torPackage"} \subseteq x.has

Reply(w, probe) ==
    IF probe \in {"master", "unit"} /\ "systemd" \notin w.m.has THEN Unknown
    ELSE IF probe = "master" THEN Unit(w.m) /\ "masterUp" \in w.m.has
    ELSE IF probe = "unit" THEN Unit(w.m)
    ELSE IF probe = "unitActive" THEN Unit(w.m) /\ w.m.daemon # "stopped"
    ELSE IF probe = "torrc" THEN MultiValue(Readable(w.fs), "SocksPort")
    ELSE IF probe = "listener" THEN w.m.daemon = "serving" \/ w.m.foreign
    ELSE Has(w.m, IF probe \in DOMAIN Once THEN Once[probe] ELSE probe)

\* Files, and what is looked for in two ways, do not depend on one command.
Commanded == {"tor", "torPackage", "torPackage2", "torsocks", "master", "unit", "unitActive",
              "qemu", "libvirt", "qemu2", "libvirt2"}

\* Mutant: a unit that does not answer is taken to be active.
NoReplyHopeful(probe) ==
    IF probe \in {"master", "unit"} THEN Unknown ELSE probe = "unitActive"

NoReply(probe) == IF probe \in {"master", "unit"} THEN Unknown ELSE FALSE

At(w) == [probe \in AllProbes |-> Reply(w, probe)]

----------------------------------------------------------------------------
(* Verdicts                                                                *)

TorInstalled(s) == s.tor \/ s.torPackage

\* _probe_unit asks for activity only of a unit that is there.
UnitActive(s) == IF s.unit = TRUE THEN s.unitActive ELSE s.unit

\* _evaluate_tor_usable
TorUsable(s) ==
    IF ~TorInstalled(s) THEN FALSE
    ELSE IF s.unit # TRUE THEN s.unit
    ELSE IF ~s.unitActive \/ s.torrc = FALSE THEN FALSE
    ELSE IF s.listener THEN TRUE ELSE Unknown

\* evaluate_workspace_readiness: no boundary is ever configured.
WorkspaceUsable(s) == IF TorUsable(s) = FALSE THEN FALSE ELSE Unknown
PrivacyLevel(s) == IF TorUsable(s) = TRUE THEN "tor_application" ELSE "none"

\* Nothing verifies an image or ties a domain to it.
Verified(s, image) == Unknown
Defined(s, image)  == Unknown

Stages == <<"absent", "present_unverified", "verified", "defined", "topology_configured">>

Stage(s, image) ==
    IF ~s[image] THEN 1
    ELSE IF Verified(s, image) # TRUE THEN 2
    ELSE IF Defined(s, image) # TRUE THEN 3 ELSE 4

\* _joint_stage: no further than the weaker half.
Lifecycle(s) ==
    Stages[IF Stage(s, "gateway") < Stage(s, "workstation") THEN Stage(s, "gateway")
                                                            ELSE Stage(s, "workstation")]

BothImages(s) == s.gateway /\ s.workstation

WhonixUsable(s) == IF VmReadiness(s) = "ready" /\ BothImages(s) THEN Unknown ELSE FALSE

\* The VM backend is asked a second time in the capability report.
Again(s) == [kvm |-> s.kvm2, kvmModule |-> s.kvmModule2, qemu |-> s.qemu2,
             libvirt |-> s.libvirt2, kvmAccess |-> s.kvmAccess2]

VeilCapabilities(s) ==
    [tor_client        |-> Usable(TRUE, TorInstalled(s), TorUsable(s)),
     tor_socks         |-> Usable(TRUE, s.torsocks, Unknown),
     tor_browser       |-> Usable(TRUE, s.launcher, Unknown),
     private_browser_profile |-> Usable(TRUE, FALSE, Unknown),
     dns_isolation     |-> Usable(TRUE, FALSE, Unknown),
     tor_only_routing  |-> Usable(TRUE, FALSE, Unknown),
     kill_switch       |-> Usable(TRUE, FALSE, Unknown),
     private_workspace |-> Usable(TRUE, FALSE, WorkspaceUsable(s)),
     whonix_vm         |-> Usable(TRUE, BothImages(s), WhonixUsable(s)),
     vm_privacy_boundary |-> Usable(TRUE, s.qemu2 \/ s.libvirt2, VmReadiness(Again(s)) = "ready")]

----------------------------------------------------------------------------
(* The plan                                                                *)

\* Mutant: the package is there when its unit is.
TorPackageByUnit(s) ==
    IF s.unit = TRUE THEN Do("NOOP", {}) ELSE Do("APPLY", {"tor", "torPackage"})

TorPackage(s) ==
    IF s.torPackage2 \/ TorInstalled(s) THEN Do("NOOP", {}) ELSE Do("APPLY", {"tor", "torPackage"})

PrivateProfile(s) == Do(IF TorUsable(s) = TRUE THEN "APPLY" ELSE "BLOCKED", {})

VM_BLOCKED == {"blocked_no_hardware", "blocked_module_missing", "blocked_no_access",
               "blocked_access_unknown"}

WhonixVm(s) ==
    IF VmReadiness(s) \in VM_BLOCKED THEN Do("BLOCKED", {})
    ELSE IF VmReadiness(s) = "ready" THEN Do("NOOP", {}) ELSE Do("APPLY", {"qemu", "libvirt"})

\* Mutant: an image is planned for before there is anything to run it.
ArtifactEarly(s, image) ==
    IF VmReadiness(s) \in VM_BLOCKED THEN Do("BLOCKED", {}) ELSE InstallTool(s, image)

Artifact(s, image) ==
    IF VmReadiness(s) # "ready" THEN Do("BLOCKED", {}) ELSE InstallTool(s, image)

Verification(s, image) ==
    Do(IF s[image] /\ Verified(s, image) = TRUE THEN "NOOP" ELSE "BLOCKED", {})

Topology(s) ==
    IF /\ VmReadiness(s) = "ready" /\ BothImages(s)
       /\ \A image \in {"gateway", "workstation"} :
             Verified(s, image) = TRUE /\ Defined(s, image) = TRUE
      THEN Do("APPLY", {"topology"}) ELSE Do("BLOCKED", {})

\* build_veil_plan
VeilPlan(s) ==
    [tor_package  |-> TorPackage(s),
     tor_torsocks |-> InstallTool(s, "torsocks"),
     browser_tor_browser          |-> InstallTool(s, "launcher"),
     workspace_private_profile    |-> PrivateProfile(s),
     workspace_routing            |-> Do("NOOP", {}),
     workspace_kill_switch_policy |-> Do("NOOP", {}),
     whonix_vm_prerequisites      |-> WhonixVm(s),
     whonix_gateway_artifact      |-> Artifact(s, "gateway"),
     whonix_gateway_verification  |-> Verification(s, "gateway"),
     whonix_workstation_artifact     |-> Artifact(s, "workstation"),
     whonix_workstation_verification |-> Verification(s, "workstation"),
     whonix_network_topology         |-> Topology(s)]

----------------------------------------------------------------------------
(* The doctor                                                              *)

DoctorTorService(s) ==
    IF \/ TorInstalled(s) /\ s.unit = FALSE
       \/ s.master = TRUE /\ s.unit # Unknown /\ UnitActive(s) # TRUE
      THEN "WARN" ELSE "PASS"

DoctorTorSocks(s) == IF s.torrc = TRUE /\ UnitActive(s) = FALSE THEN "WARN" ELSE "PASS"

DoctorWorkspace(s) == IF TorUsable(s) = TRUE THEN "WARN" ELSE "SKIP"

DoctorWhonixBackend(s) ==
    CASE VmReadiness(s) = "blocked_no_hardware" -> "SKIP"
      [] VmReadiness(s) = "ready"               -> "PASS"
      [] OTHER                                  -> "WARN"

DoctorWhonixImages(s) == IF s.gateway = s.workstation THEN "PASS" ELSE "WARN"

----------------------------------------------------------------------------
(* Behaviour                                                               *)

Idle == [name |-> None, at |-> 0, reading |-> FALSE, late |-> {}]

Init ==
    /\ \E w \in Worlds : m = w.m /\ fs = w.fs
    /\ todo = <<>> /\ lines = <<>>
    /\ cmd = Idle /\ seen = <<>> /\ during = {} /\ changes = 0

Done    == cmd.name # None /\ cmd.at > Len(Order[cmd.name])
Running == cmd.name # None /\ ~Done
Asked   == Order[cmd.name][cmd.at]

Start(c) ==
    /\ cmd = Idle
    /\ cmd' = [Idle EXCEPT !.name = c, !.at = 1]
    /\ seen' = <<>> /\ during' = {World}
    /\ UNCHANGED <<readVars, m, changes>>

Answer(reply) == seen' = [p \in DOMAIN seen \cup {Asked} |-> IF p = Asked THEN reply ELSE seen[p]]

Ask ==
    /\ Running /\ Asked # "torrc"
    /\ Answer(Reply(World, Asked))
    /\ cmd' = [cmd EXCEPT !.at = @ + 1]
    /\ UNCHANGED <<readVars, m, during, changes>>

\* The command that is asked does not end within three seconds.
TimeOut ==
    /\ Running /\ Asked \in Commanded /\ Cardinality(cmd.late) < MaxTimeouts
    /\ Answer(NoReply(Asked))
    /\ cmd' = [cmd EXCEPT !.at = @ + 1, !.late = @ \cup {Asked}]
    /\ UNCHANGED <<readVars, m, during, changes>>

BeginRead ==
    /\ Running /\ Asked = "torrc" /\ ~cmd.reading
    /\ Begin
    /\ cmd' = [cmd EXCEPT !.reading = TRUE]
    /\ UNCHANGED <<m, seen, during, changes>>

ReadOn == cmd.reading /\ Read /\ UNCHANGED <<m, cmd, seen, during, changes>>

EndRead ==
    /\ cmd.reading /\ todo = <<>>
    /\ Answer(MultiValue(Directives(lines), "SocksPort"))
    /\ cmd' = [cmd EXCEPT !.reading = FALSE, !.at = @ + 1]
    /\ UNCHANGED <<readVars, m, during, changes>>

PutAway ==
    /\ Done
    /\ cmd' = Idle /\ seen' = <<>> /\ during' = {}
    /\ UNCHANGED <<readVars, m, changes>>

\* Whatever happens on the machine while a command runs.
Change(w) ==
    /\ Running /\ changes < MaxChanges /\ w # World
    /\ m' = w.m /\ fs' = w.fs
    /\ during' = during \cup {w} /\ changes' = changes + 1
    /\ UNCHANGED <<todo, lines, cmd, seen>>

EditTorrc ==
    \E e \in Edits : Change([World EXCEPT !.fs[e.path] = e.entry])

\* Tor is started or reloads its configuration, or it is stopped.
RunTor ==
    \/ "tor" \in m.has /\ Change([World EXCEPT !.m.daemon = Loaded(m, fs)])
    \/ Change([World EXCEPT !.m.daemon = "stopped"])

\* Another process takes the port or leaves it.
TakePort == m.daemon # "serving" /\ Change([World EXCEPT !.m.foreign = ~@])

Toggle(things) ==
    \/ Change([World EXCEPT !.m.has = @ \cup things])
    \/ /\ "tor" \in things => m.daemon = "stopped"
       /\ Change([World EXCEPT !.m.has = @ \ things])

Others == EditTorrc \/ RunTor \/ TakePort \/ \E things \in Toggles : Toggle(things)

Step == Ask \/ TimeOut \/ BeginRead \/ ReadOn \/ EndRead

Next == (\E c \in Commands : Start(c)) \/ Step \/ PutAway \/ Others

\* A command runs on: no probe takes longer than its timeout.
Spec == Init /\ [][Next]_veilVars /\ WF_veilVars(Step)

----------------------------------------------------------------------------
(* Properties                                                              *)

\* The verdicts of the two commands: what is said to be usable or not, and
\* what a plan would have somebody do.
F == INSTANCE Focus WITH facts <- {}, plan <- None

PrivateFacts(s) ==
    LET caps == VeilCapabilities(s)
        boundary == {"tor_browser", "private_workspace", "whonix_vm"}
    IN  {fact \in {"torInstalled", "torUsable", "boundaryInstalled", "boundaryUsable"} :
            CASE fact = "torInstalled"      -> caps.tor_client.installed
              [] fact = "torUsable"         -> caps.tor_client.usable = TRUE
              [] fact = "boundaryInstalled" -> \E c \in boundary : caps[c].installed
              [] fact = "boundaryUsable"    -> \E c \in boundary : caps[c].usable = TRUE}

\* The paths that a path brings in, one level down.
Brought(f, p) ==
    LET body == f[p].body
        children(d) == {f[d].body[i].of : i \in DOMAIN f[d].body}
        named(line) == CASE line.kind = "directive" -> {}
                         [] line.kind = "include"   -> {line.of}
                         [] line.kind = "wildcard"  ->
                              {q \in children(line.of) \cap line.match : f[line.of].kind = "dir"}
    IN  IF f[p].kind = "dir" THEN children(p) \cap {q \in Paths : f[q].kind = "file"}
        ELSE UNION {named(body[i]) : i \in DOMAIN body}

\* No include is cut off for being nested too deep, or in itself.
Whole(f) ==
    LET level[n \in 0..(MaxIncludeDepth + 1)] ==
            IF n = 0 THEN {Main} ELSE UNION {Brought(f, p) : p \in level[n - 1]}
    IN  level[MaxIncludeDepth + 1] = {}

\* The torrc before and after the edit of a file, read as a whole.
Edited(f, g) ==
    /\ Whole(f) /\ Whole(g)
    /\ \A p \in Paths : f[p] # g[p] => f[p].kind # "dir" /\ g[p].kind # "dir"

\* Nothing changes while the command runs, or one thing.
OneChange == \E v, w \in during : during = {v, w}

\* veil/planner.py:9, "A plan is a pure function of on-disk/PATH state", and
\* tor.py, "real, combined runtime + listener evidence": a command probes a
\* dozen things one after another.  Whatever one thing changes meanwhile, each
\* definite verdict, each action to carry out and the readiness of the private
\* focus is that of one moment during the command; and also where a probe does
\* not end, Tor is called usable only if it was at one moment.  A file is
\* edited, and no include cut off: a directory that changes between two
\* wildcards of it, or a file that includes itself, says something else at each
\* place, and half of the old and half of the new text can say what neither
\* does.
VerdictsHadAMoment ==
    Done /\ OneChange /\ (\A w \in during : w.fs = fs \/ Edited(w.fs, fs)) =>
    LET moments == {At(w) : w \in during} IN
    /\ TorUsable(seen) = TRUE => \E s \in moments : TorUsable(s) = TRUE
    /\ cmd.late = {} /\ cmd.name = "capabilities" =>
          /\ \A c \in DOMAIN VeilCapabilities(seen) :
                LET usable == VeilCapabilities(seen)[c].usable IN
                usable # Unknown => \E s \in moments : VeilCapabilities(s)[c].usable = usable
          /\ \E s \in moments : F!Rank[F!Readiness("private", PrivateFacts(seen))]
                                  <= F!Rank[F!Readiness("private", PrivateFacts(s))]
    /\ cmd.late = {} /\ cmd.name = "plan" =>
          \A id \in DOMAIN VeilPlan(seen) :
             VeilPlan(seen)[id].status = "APPLY" =>
                \E s \in moments : VeilPlan(s)[id] = VeilPlan(seen)[id]

\* What SocksPort and CookieAuthentication amount to, said without an order
\* of evaluation.
Enabled(directives, name) ==
    \E i \in DOMAIN directives :
        /\ directives[i].name = name /\ directives[i].op # "clear" /\ directives[i].value # "0"
        /\ \A j \in i..Len(directives) : directives[j].name = name => directives[j].op # "clear"

LastOf(directives, name) ==
    LET at == {i \in DOMAIN directives : directives[i].name = name}
    IN  directives[CHOOSE i \in at : \A j \in at : j <= i]

\* tor.py:246-271 and the include rules of _resolve_include: where no file
\* changes meanwhile, the directives found are those of the torrc and of all it
\* includes, in the order of the text, each include as often as it stands there
\* and none inside itself; an option is enabled exactly if it is set after the
\* last time it is cleared, and open only if it is never mentioned (or, for a
\* flag, if the last word is a clear).
ReadsTheTorrc ==
    cmd.reading /\ todo = <<>> /\ (\A w \in during : w.fs = fs) =>
    LET ds == Directives(lines) IN
    /\ ds = Readable(fs)
    /\ \A name \in {"SocksPort", "CookieAuthentication"} :
          LET v == MultiValue(ds, name)
              flag == Scalar(ds, name)
              mentioned == \E i \in DOMAIN ds : ds[i].name = name
          IN
          /\ v = Unknown <=> ~mentioned
          /\ v = TRUE <=> Enabled(ds, name)
          /\ flag = Unknown <=> (mentioned => LastOf(ds, name).op = "clear")
          /\ flag = TRUE => v = TRUE

\* Planner, capability report, doctor, the cyber planner and the private focus
\* decide separately and must say the same of one machine: on the Tor client,
\* on the VM backend, on the Whonix images; and no image is trusted because it
\* is there (whonix.py:83).
VeilReportsAgree ==
    cmd = Idle =>
    LET s == At(World)
        plan == VeilPlan(s)
        caps == VeilCapabilities(s)
        usable == caps.tor_client.usable = TRUE
    IN
    /\ plan.tor_package.status = "NOOP" <=> caps.tor_client.installed
    /\ usable <=> plan.workspace_private_profile.status = "APPLY"
    /\ usable <=> DoctorWorkspace(s) = "WARN" /\ PrivacyLevel(s) = "tor_application"
    /\ usable => DoctorTorService(s) = "PASS" /\ DoctorTorSocks(s) = "PASS"
    /\ DoctorTorSocks(s) = "WARN" => caps.tor_client.usable = FALSE
    /\ plan.whonix_vm_prerequisites = VmPrerequisites(s) /\ DoctorWhonixBackend(s) = DoctorVm(s)
    /\ caps.vm_privacy_boundary.usable <=> plan.whonix_vm_prerequisites.status = "NOOP"
    /\ {plan.whonix_gateway_artifact.status, plan.whonix_workstation_artifact.status} = {"NOOP"}
         <=> caps.vm_privacy_boundary.usable /\ caps.whonix_vm.installed
    /\ caps.whonix_vm.installed => DoctorWhonixImages(s) = "PASS"
    /\ caps.whonix_vm.installed <=> Lifecycle(s) = "present_unverified"
    /\ caps.whonix_vm.usable # TRUE /\ plan.whonix_network_topology.status = "BLOCKED"
    /\ usable => F!Readiness("private", PrivateFacts(s)) = "limited"

\* Everything the plan proposes, carried out; the package starts the daemon.
Followed(w) ==
    LET plan == VeilPlan(At(w))
        has == w.m.has \cup UNION {plan[id].tools : id \in {i \in DOMAIN plan : plan[i].status = "APPLY"}}
    IN  [w EXCEPT !.m.has = has,
                  !.m.daemon = IF "torPackage" \in has \ w.m.has THEN Loaded(w.m, w.fs) ELSE @]

\* Carried out twice (the images only once there is something to run them),
\* the plan has nothing left to propose but the private profile, which
\* nothing creates and nothing detects, and its proposals never take Tor away
\* from a machine where it was usable.
VeilPlansSettle ==
    cmd = Idle =>
    LET plan == VeilPlan(At(Followed(Followed(World)))) IN
    /\ {id \in DOMAIN plan : plan[id].status = "APPLY"} \subseteq {"workspace_private_profile"}
    /\ TorUsable(At(World)) = TRUE => TorUsable(At(Followed(World))) = TRUE
=============================================================================
