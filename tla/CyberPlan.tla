------------------------------ MODULE CyberPlan ------------------------------
(***************************************************************************)
(* serein.cyber: the plan of `serein cyber plan`, the capability report     *)
(* and the doctor, as functions of what the probes of one invocation       *)
(* replied.  Nothing is captured, scanned or started.                      *)
(*                                                                         *)
(* Not distinguished: versions, reasons, the tools of the toolbox and VM    *)
(* tiers, which only the hygiene check looks for.                          *)
(***************************************************************************)
EXTENDS DevelopmentPlan

CONSTANT Unknown    \* a question the system did not answer

ASSUME UnknownAssumption == Unknown \notin BOOLEAN

\* Package name -> installed: the default host tier.  Wireshark's window is
\* host tier but not installed by default.
HOST_TOOLS == {"nmap", "tcpdump", "dig", "whois", "socat", "netcat", "mtr", "ethtool",
               "openssl", "tshark", "file", "binutils", "exiftool"}

\* The probes of each detector, and of build_cyber_plan, in their order; gdb
\* and strace come with those of the C toolchain and decide nothing here.
NetworkProbes == <<"nmap", "tcpdump", "dig", "whois", "socat", "netcat", "mtr", "ethtool",
                   "openssl">>
CaptureProbes == <<"dumpcap", "capture", "wireshark", "tshark">>
ReverseProbes == <<"binutils", "file">>
ToolboxProbes == ContainerProbes
VmProbes      == <<"kvm", "kvmModule", "qemu", "libvirt", "kvmAccess">>
CyberProbes == NetworkProbes \o CaptureProbes \o ReverseProbes \o <<"exiftool">>
               \o ToolboxProbes \o VmProbes \o <<"container">>

\* evaluate_vm_readiness: each requirement in its turn.  kvmAccess is Unknown
\* when os.access cannot tell.
VmReadiness(s) ==
    IF ~s.kvm THEN "blocked_no_hardware"
    ELSE IF ~s.kvmModule THEN "blocked_module_missing"
    ELSE IF s.kvmAccess = Unknown THEN "blocked_access_unknown"
    ELSE IF s.kvmAccess = FALSE THEN "blocked_no_access"
    ELSE IF ~s.qemu THEN "needs_qemu"
    ELSE IF ~s.libvirt THEN "needs_libvirt" ELSE "ready"

\* Mutant: the packages alone make a VM usable.
VmPrerequisitesByPackage(s) ==
    IF s.qemu /\ s.libvirt THEN Do("NOOP", {})
    ELSE IF VmReadiness(s) \in {"needs_qemu", "needs_libvirt"}
      THEN Do("APPLY", {"qemu", "libvirt"}) ELSE Do("BLOCKED", {})

VmPrerequisites(s) ==
    IF VmReadiness(s) = "ready" THEN Do("NOOP", {})
    ELSE IF VmReadiness(s) \in {"needs_qemu", "needs_libvirt"}
      THEN Do("APPLY", {"qemu", "libvirt"}) ELSE Do("BLOCKED", {})

\* Mutant: only the preferred engine is looked for.
ToolboxEngineOfPodman(s) ==
    IF s.container THEN Do("SKIP", {})
    ELSE IF s.podman THEN Do("NOOP", {}) ELSE Do("APPLY", {"podman"})

\* The engine and Distrobox once more, decided by the cyber planner itself.
ToolboxEngine(s) ==
    IF s.container THEN Do("SKIP", {})
    ELSE IF s.podman \/ s.docker THEN Do("NOOP", {}) ELSE Do("APPLY", {"podman"})

ToolboxDistrobox(s) ==
    IF s.container THEN Do("SKIP", {})
    ELSE IF s.distrobox THEN Do("NOOP", {}) ELSE Do("APPLY", {"distrobox"})

CyberActions == {"host.baseline", "toolbox.engine", "toolbox.distrobox",
                 "vm.prerequisites", "vm.isolation_policy"}

\* build_cyber_plan
CyberPlanOf(s) ==
    [id \in CyberActions |->
        CASE id = "host.baseline"       -> AptGroup(s, HOST_TOOLS)
          [] id = "toolbox.engine"      -> ToolboxEngine(s)
          [] id = "toolbox.distrobox"   -> ToolboxDistrobox(s)
          [] id = "vm.prerequisites"    -> VmPrerequisites(s)
          [] id = "vm.isolation_policy" -> Do("NOOP", {})]

----------------------------------------------------------------------------
Usable(supported, installed, usable) ==
    [supported |-> supported, installed |-> installed, usable |-> usable]

\* Capture is permitted, denied or Unknown by what `dumpcap -D` says.
CapturePermission(s) == IF s.dumpcap THEN s.capture ELSE Unknown

CyberCapabilities(s) ==
    [network_diagnostics |->
         LET some == s.tcpdump \/ s.mtr \/ s.ethtool \/ s.socat IN Usable(TRUE, some, some),
     packet_capture_tools |->
         Usable(TRUE, s.wireshark \/ s.tshark, s.wireshark \/ s.tshark),
     packet_capture_permission |-> Usable(s.dumpcap, s.dumpcap, CapturePermission(s)),
     dns_diagnostics        |-> Usable(TRUE, s.dig, s.dig),
     tls_diagnostics        |-> Usable(TRUE, s.openssl, s.openssl),
     network_scanning_tools |-> Usable(TRUE, s.nmap, s.nmap),
     container_toolbox |->
         Usable(~s.container, (s.podman \/ s.docker) /\ s.distrobox, Unknown),
     vm_isolation |-> Usable(TRUE, s.qemu \/ s.libvirt, VmReadiness(s) = "ready")]

DoctorCapture(s) ==
    IF (s.wireshark \/ s.tshark) /\ ~s.dumpcap THEN "WARN"
    ELSE IF s.dumpcap /\ CapturePermission(s) = FALSE THEN "WARN" ELSE "PASS"

DoctorVm(s) ==
    CASE VmReadiness(s) = "blocked_no_hardware" -> "SKIP"
      [] VmReadiness(s) = "ready"               -> "PASS"
      [] OTHER                                  -> "WARN"

\* _cyber_readiness of the focus policy
CyberReady(s) ==
    CyberCapabilities(s).container_toolbox.installed \/ CyberCapabilities(s).vm_isolation.usable
=============================================================================
