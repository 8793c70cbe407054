---------------------------- MODULE WorkstationProofs ----------------------------
(***************************************************************************)
(* Theorems about Workstation: for every set of machines, however long      *)
(* others go on changing them and however many plans are in hand.           *)
(*                                                                         *)
(* An inductive invariant and what follows from it of the plans in hand;    *)
(* then what holds of the plans, the reports and the evidence on every      *)
(* machine there can be, which needs of the invariant only that the machine *)
(* is one.                                                                 *)
(***************************************************************************)
EXTENDS Workstation, TLAPS, SequenceTheorems, FiniteSetTheorems

----------------------------------------------------------------------------
(* What the plans propose                                                  *)

\* The actions of each plan, one by one.
LEMMA DevParts ==
    ASSUME NEW s
    PROVE  /\ DOMAIN DevPlan(s) = DevActions
           /\ DevPlan(s)["base.apt_packages"] = Do("APPLY", BASE_TOOLS)
           /\ DevPlan(s)["git.apt_packages"] = AptGroup(s, GIT_TOOLS)
           /\ DevPlan(s)["python.uv"] = InstallTool(s, "uv")
           /\ DevPlan(s)["python.existing_managers"] = Do("NOOP", {})
           /\ DevPlan(s)["node.manager"] = NodeManager(s)
           /\ DevPlan(s)["node.pnpm"] = Pnpm(s)
           /\ DevPlan(s)["rust.rustup"] = Rust(s)
           /\ DevPlan(s)["go.toolchain"] = Go(s)
           /\ DevPlan(s)["cpp.toolchain"] = AptGroup(s, CPP_TOOLS)
           /\ DevPlan(s)["containers.engine"] = ContainersAction(s)
           /\ DevPlan(s)["containers.distrobox"] = DistroboxAction(s)
           /\ DevPlan(s)["editor.zed"] = InstallTool(s, "zed")
BY DEF DevPlan, DevActions

\* The AI planner's actions, one by one.
LEMMA AiParts ==
    ASSUME NEW s
    PROVE  /\ DOMAIN AiPlanOf(s) = AiActions
           /\ AiPlanOf(s)["nvidia.driver"] = DriverAction(s)
           /\ AiPlanOf(s)["nvidia.cuda_toolkit"] = CudaToolkitAction(s)
           /\ AiPlanOf(s)["amd.rocm"] = RocmAction(s)
           /\ AiPlanOf(s)["python.pytorch"] = PyTorch(s)
           /\ AiPlanOf(s)["python.transformers_baseline"] = AptGroup(s, Baseline)
           /\ AiPlanOf(s)["inference.ollama"] = InstallTool(s, "ollama")
           /\ AiPlanOf(s)["inference.llama_cpp"] = LlamaCpp(s)
           /\ AiPlanOf(s)["containers.engine"] = AiContainers(s)
           /\ AiPlanOf(s)["containers.nvidia_toolkit"] = NvidiaToolkit(s)
           /\ AiPlanOf(s)["voice.workload_note"] = Do("NOOP", {})
BY DEF AiPlanOf, AiActions

\* The cyber planner's actions, one by one.
LEMMA CyberParts ==
    ASSUME NEW s
    PROVE  /\ DOMAIN CyberPlanOf(s) = CyberActions
           /\ CyberPlanOf(s)["host.baseline"] = AptGroup(s, HOST_TOOLS)
           /\ CyberPlanOf(s)["toolbox.engine"] = ToolboxEngine(s)
           /\ CyberPlanOf(s)["toolbox.distrobox"] = ToolboxDistrobox(s)
           /\ CyberPlanOf(s)["vm.prerequisites"] = VmPrerequisites(s)
           /\ CyberPlanOf(s)["vm.isolation_policy"] = Do("NOOP", {})
BY DEF CyberPlanOf, CyberActions

\* Each planner's plan.
LEMMA Parts ==
    ASSUME NEW s
    PROVE  /\ PlanOf("development", s) = DevPlan(s)
           /\ PlanOf("ai", s) = AiPlanOf(s)
           /\ PlanOf("cyber", s) = CyberPlanOf(s)
BY DEF PlanOf

\* What an action asks for serves none of the purposes of which one tool is
\* enough.
Plain(a) == a.tools \cap (Engines \cup NodeManagers \cup TorchTools) = {}

\* What the groups and the single tools are for.
LEMMA Purposeful ==
    /\ TorchTools = {"torch.cuda", "torch.rocm", "torch.xpu", "torch.cpu"}
    /\ \A status : Plain(Do(status, {}))
    /\ \A status : Plain(Do(status, BASE_TOOLS)) /\ Plain(Do(status, GIT_TOOLS))
                     /\ Plain(Do(status, CPP_TOOLS)) /\ Plain(Do(status, HOST_TOOLS))
                     /\ Plain(Do(status, Baseline))
    /\ \A status : \A t \in {"uv", "pnpm", "rustup", "go", "distrobox", "zed", "ollama", "llama-cli",
                             "nvidia-ctk", "nvidia-driver"} : Plain(Do(status, {t}))
    /\ \A status : Plain(Do(status, {"qemu", "libvirt"}))
<1>1. TorchTools = {"torch.cuda", "torch.rocm", "torch.xpu", "torch.cpu"}
  BY DEF TorchTools, TorchBuild
<1>2. \A status : Plain(Do(status, {})) /\ Plain(Do(status, {"qemu", "libvirt"}))
  BY <1>1 DEF Plain, Do, Engines, NodeManagers
<1>3. \A status : Plain(Do(status, BASE_TOOLS))
  BY <1>1 DEF Plain, Do, Engines, NodeManagers, BASE_TOOLS
<1>4. \A status : Plain(Do(status, GIT_TOOLS)) /\ Plain(Do(status, Baseline))
  BY <1>1 DEF Plain, Do, Engines, NodeManagers, GIT_TOOLS, Baseline
<1>5. \A status : Plain(Do(status, CPP_TOOLS))
  BY <1>1 DEF Plain, Do, Engines, NodeManagers, CPP_TOOLS
<1>6. \A status : Plain(Do(status, HOST_TOOLS))
  BY <1>1 DEF Plain, Do, Engines, NodeManagers, HOST_TOOLS
<1>7. \A status : \A t \in {"uv", "pnpm", "rustup", "go", "distrobox", "zed", "ollama", "llama-cli",
                             "nvidia-ctk", "nvidia-driver"} : Plain(Do(status, {t}))
  BY <1>1 DEF Plain, Do, Engines, NodeManagers
<1>8. QED
  BY <1>1, <1>2, <1>3, <1>4, <1>5, <1>6, <1>7

\* Nothing is asked for that has a purpose another tool serves, as far as the
\* replies go.
Careful(p, s, a) ==
    a.status = "APPLY" =>
        \/ Plain(a)
        \/ a.tools = {"podman"} /\ ~s["docker"]
        \/ p = "development" /\ a.tools = {"fnm"} /\ ~s["mise"] /\ ~s["nvm"]

\* One tool, or a group, without such a purpose is proposed carefully.
LEMMA ToolIsCareful ==
    ASSUME NEW p, NEW s, NEW t, Plain(Do("APPLY", {t}))
    PROVE  Careful(p, s, InstallTool(s, t))
<1>1. CASE s[t]
  BY <1>1 DEF InstallTool, Careful, Do
<1>2. CASE ~s[t]
  BY <1>2 DEF InstallTool, Careful
<1>3. QED
  BY <1>1, <1>2

\* A group of such packages is proposed carefully.
LEMMA GroupIsCareful ==
    ASSUME NEW p, NEW s, NEW G, Plain(Do("APPLY", G))
    PROVE  Careful(p, s, AptGroup(s, G))
<1>1. CASE \A t \in G : s[t]
  BY <1>1 DEF AptGroup, Careful, Do
<1>2. CASE ~\A t \in G : s[t]
  BY <1>2 DEF AptGroup, Careful
<1>3. QED
  BY <1>1, <1>2

\* Without a conflict neither mise nor nvm manages Node.
LEMMA NoConflict ==
    ASSUME NEW s, ~NodeManagerConflict(s)
    PROVE  ~s["mise"] /\ ~s["nvm"]
<1>1. Managers(s) \in {{}, {"fnm"}}
  BY DEF NodeManagerConflict
<1>2. "mise" \notin Managers(s) /\ "nvm" \notin Managers(s)
  BY <1>1
<1>3. QED
  BY <1>2 DEF Managers, NodeManagers

\* Each planner proposes carefully; the build of PyTorch follows below.
LEMMA DevIsCareful ==
    ASSUME NEW s, NEW id \in DevActions
    PROVE  Careful("development", s, DevPlan(s)[id])
<1>0. \A status : Careful("development", s, Do(status, {}))
  BY Purposeful DEF Careful
<1>1. Careful("development", s, Do("APPLY", BASE_TOOLS))
  BY Purposeful DEF Careful
<1>2. Careful("development", s, AptGroup(s, GIT_TOOLS)) /\ Careful("development", s, AptGroup(s, CPP_TOOLS))
  BY Purposeful, GroupIsCareful
<1>3. \A t \in {"uv", "zed", "pnpm", "rustup", "go", "distrobox"} : Careful("development", s, InstallTool(s, t))
  BY Purposeful, ToolIsCareful
<1>4. Careful("development", s, NodeManager(s))
  <2>1. CASE NodeManagerConflict(s)
    BY <1>0, <2>1 DEF NodeManager
  <2>2. CASE ~NodeManagerConflict(s)
    <3>1. InstallTool(s, "fnm").tools \in {{}, {"fnm"}} /\ ~s["mise"] /\ ~s["nvm"]
      BY <2>2, NoConflict DEF InstallTool, Do
    <3>2. NodeManager(s) = InstallTool(s, "fnm")
      BY <2>2 DEF NodeManager
    <3>3. QED
      BY <3>1, <3>2 DEF Careful, Plain
  <2>3. QED
    BY <2>1, <2>2
<1>5. /\ Careful("development", s, Pnpm(s)) /\ Careful("development", s, Rust(s))
      /\ Careful("development", s, Go(s)) /\ Careful("development", s, DistroboxAction(s))
  BY <1>0, <1>3 DEF Pnpm, Rust, Go, DistroboxAction
<1>6. Careful("development", s, ContainersAction(s))
  BY <1>0 DEF ContainersAction, Careful, Do, Plain
<1>7. QED
  BY <1>0, <1>1, <1>2, <1>3, <1>4, <1>5, <1>6, DevParts DEF DevActions

\* Every action of the cyber planner is careful.
LEMMA CyberIsCareful ==
    ASSUME NEW s, NEW id \in CyberActions PROVE Careful("cyber", s, CyberPlanOf(s)[id])
<1>0. \A status : Careful("cyber", s, Do(status, {}))
  BY Purposeful DEF Careful
<1>1. Careful("cyber", s, AptGroup(s, HOST_TOOLS))
  BY Purposeful, GroupIsCareful
<1>2. Careful("cyber", s, ToolboxEngine(s))
  BY <1>0 DEF ToolboxEngine, Careful, Do, Plain
<1>3. Careful("cyber", s, ToolboxDistrobox(s))
  BY Purposeful DEF ToolboxDistrobox, Careful
<1>4. Careful("cyber", s, VmPrerequisites(s))
  BY Purposeful DEF VmPrerequisites, Careful
<1>5. QED
  BY <1>0, <1>1, <1>2, <1>3, <1>4, CyberParts DEF CyberActions

\* So is every action of the AI planner but PyTorch's.
LEMMA AiIsCareful ==
    ASSUME NEW s, NEW id \in AiActions \ {"python.pytorch"} PROVE Careful("ai", s, AiPlanOf(s)[id])
<1>0. \A status : Careful("ai", s, Do(status, {}))
  BY Purposeful DEF Careful
<1>1. Careful("ai", s, AptGroup(s, Baseline))
  BY Purposeful, GroupIsCareful
<1>2. Careful("ai", s, InstallTool(s, "ollama"))
  BY Purposeful, ToolIsCareful
<1>3. Careful("ai", s, DriverAction(s)) /\ Careful("ai", s, NvidiaToolkit(s)) /\ Careful("ai", s, LlamaCpp(s))
  BY Purposeful DEF DriverAction, NvidiaToolkit, LlamaCpp, Careful
<1>4. Careful("ai", s, CudaToolkitAction(s)) /\ Careful("ai", s, RocmAction(s))
  BY <1>0 DEF CudaToolkitAction, RocmAction
<1>5. Careful("ai", s, AiContainers(s))
  BY <1>0 DEF AiContainers, Careful, Do, Plain
<1>6. QED
  BY <1>0, <1>1, <1>2, <1>3, <1>4, <1>5, AiParts DEF AiActions

\* A build of PyTorch is asked for where none replied.
LEMMA TorchIsCareful ==
    ASSUME NEW s, PyTorch(s).status = "APPLY"
    PROVE  s["torch"] = Unknown /\ \E t \in TorchTools : PyTorch(s).tools = {t}
<1>1. s["torch"] = Unknown /\ PyTorch(s) = Do("APPLY", {TorchBuild[Select(s).target]})
  BY DEF PyTorch, Do
<1>2. Select(s).target \in {"cuda", "cpu", "rocm", "xpu"}
  <2>1. Primary(s) \in {"nvidia_cuda", "amd_rocm", "intel_gpu", "unknown", "cpu"}
    BY DEF Primary
  <2>2. QED
    BY <2>1 DEF Select, Decision
<1>3. TorchBuild[Select(s).target] \in TorchTools
  BY <1>2 DEF TorchTools, TorchBuild
<1>4. QED
  BY <1>1, <1>3 DEF Do

----------------------------------------------------------------------------
(* What the probes reply                                                   *)

Names == {"container", "git", "git-lfs", "gh", "uv", "fnm", "mise", "nvm", "pnpm", "rustup", "go",
          "gcc", "g++", "clang", "cmake", "ninja-build", "gdb", "lldb", "pkg-config", "strace",
          "build-essential", "zed", "podman", "docker", "distrobox",
          "cards1", "cards2", "nvidia-smi", "nvcc", "cuda-toolkit", "cudaMarker", "rocminfo",
          "rocmAgents", "torch", "transformers", "accelerate", "safetensors", "huggingface_hub",
          "ollama", "llama-cli", "llama-server", "nvidia-ctk", "cdi",
          "nmap", "tcpdump", "dig", "whois", "socat", "netcat", "mtr", "ethtool", "openssl",
          "dumpcap", "capture", "wireshark", "tshark", "binutils", "file", "exiftool",
          "kvm", "kvmModule", "qemu", "libvirt", "kvmAccess"}

\* Every probe of each planner, by name.
LEMMA DevAsks ==
    Probes("development") =
        {"container", "git", "git-lfs", "gh", "uv", "fnm", "mise", "nvm", "pnpm", "rustup", "go",
         "zed", "podman", "docker", "distrobox"} \cup CPP_TOOLS
<1> DEFINE a0 == <<"container">>
           a1 == GitProbes
           a2 == PythonProbes
           a3 == NodeProbes
           a4 == RustProbes
           a5 == GoProbes
           a6 == CppProbes
           a7 == EditorProbes
           a8 == ContainerProbes
           b1 == a0 \o a1
           b2 == b1 \o a2
           b3 == b2 \o a3
           b4 == b3 \o a4
           b5 == b4 \o a5
           b6 == b5 \o a6
           b7 == b6 \o a7
           b8 == b7 \o a8
<1>1. a0 \in Seq(Names) /\ Range(a0) = {"container"}
  BY DEF Names, Range
<1>2. a1 \in Seq(Names) /\ Range(a1) = {"git", "git-lfs", "gh"}
  BY DEF Names, Range, GitProbes
<1>3. a2 \in Seq(Names) /\ Range(a2) = {"uv"}
  BY DEF Names, Range, PythonProbes
<1>4. a3 \in Seq(Names) /\ Range(a3) = {"fnm", "mise", "nvm", "pnpm"}
  BY DEF Names, Range, NodeProbes
<1>5. a4 \in Seq(Names) /\ Range(a4) = {"rustup"}
  BY DEF Names, Range, RustProbes
<1>6. a5 \in Seq(Names) /\ Range(a5) = {"go"}
  BY DEF Names, Range, GoProbes
<1>7. a6 \in Seq(Names) /\ Range(a6) = CPP_TOOLS
  BY DEF Names, Range, CppProbes, CPP_TOOLS
<1>8. a7 \in Seq(Names) /\ Range(a7) = {"zed"}
  BY DEF Names, Range, EditorProbes
<1>9. a8 \in Seq(Names) /\ Range(a8) = {"podman", "docker", "distrobox"}
  BY DEF Names, Range, ContainerProbes
<1>10. Order["development"] = b8
  BY DEF Order, DevProbes
<1> HIDE DEF a0, a1, a2, a3, a4, a5, a6, a7, a8
<1>11. b1 \in Seq(Names) /\ Range(b1) = Range(a0) \cup Range(a1)
  BY <1>1, <1>2, RangeConcatenation
<1> HIDE DEF b1
<1>12. b2 \in Seq(Names) /\ Range(b2) = Range(b1) \cup Range(a2)
  BY <1>11, <1>3, RangeConcatenation
<1> HIDE DEF b2
<1>13. b3 \in Seq(Names) /\ Range(b3) = Range(b2) \cup Range(a3)
  BY <1>12, <1>4, RangeConcatenation
<1> HIDE DEF b3
<1>14. b4 \in Seq(Names) /\ Range(b4) = Range(b3) \cup Range(a4)
  BY <1>13, <1>5, RangeConcatenation
<1> HIDE DEF b4
<1>15. b5 \in Seq(Names) /\ Range(b5) = Range(b4) \cup Range(a5)
  BY <1>14, <1>6, RangeConcatenation
<1> HIDE DEF b5
<1>16. b6 \in Seq(Names) /\ Range(b6) = Range(b5) \cup Range(a6)
  BY <1>15, <1>7, RangeConcatenation
<1> HIDE DEF b6
<1>17. b7 \in Seq(Names) /\ Range(b7) = Range(b6) \cup Range(a7)
  BY <1>16, <1>8, RangeConcatenation
<1> HIDE DEF b7
<1>18. b8 \in Seq(Names) /\ Range(b8) = Range(b7) \cup Range(a8)
  BY <1>17, <1>9, RangeConcatenation
<1> HIDE DEF b8
<1>19. QED
  BY <1>1, <1>2, <1>3, <1>4, <1>5, <1>6, <1>7, <1>8, <1>9, <1>10, <1>11, <1>12, <1>13, <1>14, <1>15, <1>16, <1>17, <1>18 DEF Probes

\* What the AI planner's collection probes.
LEMMA AiAsks ==
    Probes("ai") =
        {"cards1", "cards2", "nvidia-smi", "nvcc", "cuda-toolkit", "cudaMarker", "rocminfo",
         "rocmAgents", "torch", "ollama", "llama-cli", "llama-server", "podman", "docker",
         "distrobox", "nvidia-ctk", "cdi", "container"} \cup Baseline
<1> DEFINE a0 == <<"cards1", "cards2">>
           a1 == NvidiaProbes
           a2 == AmdProbes
           a3 == <<"torch">>
           a4 == PackageProbes
           a5 == InferenceProbes
           a6 == AiContainerProbes
           a7 == <<"container">>
           b1 == a0 \o a1
           b2 == b1 \o a2
           b3 == b2 \o a3
           b4 == b3 \o a4
           b5 == b4 \o a5
           b6 == b5 \o a6
           b7 == b6 \o a7
<1>1. a0 \in Seq(Names) /\ Range(a0) = {"cards1", "cards2"}
  BY DEF Names, Range
<1>2. a1 \in Seq(Names) /\ Range(a1) = {"nvidia-smi", "nvcc", "cuda-toolkit", "cudaMarker"}
  BY DEF Names, Range, NvidiaProbes
<1>3. a2 \in Seq(Names) /\ Range(a2) = {"rocminfo", "rocmAgents"}
  BY DEF Names, Range, AmdProbes
<1>4. a3 \in Seq(Names) /\ Range(a3) = {"torch"}
  BY DEF Names, Range
<1>5. a4 \in Seq(Names) /\ Range(a4) = Baseline
  BY DEF Names, Range, PackageProbes, Baseline
<1>6. a5 \in Seq(Names) /\ Range(a5) = {"ollama", "llama-cli", "llama-server"}
  BY DEF Names, Range, InferenceProbes
<1>7. a6 \in Seq(Names) /\ Range(a6) = {"podman", "docker", "distrobox", "nvidia-ctk", "cdi"}
  BY DEF Names, Range, AiContainerProbes, ContainerProbes
<1>8. a7 \in Seq(Names) /\ Range(a7) = {"container"}
  BY DEF Names, Range
<1>9. Order["ai"] = b7
  BY DEF Order, AiProbes
<1> HIDE DEF a0, a1, a2, a3, a4, a5, a6, a7
<1>10. b1 \in Seq(Names) /\ Range(b1) = Range(a0) \cup Range(a1)
  BY <1>1, <1>2, RangeConcatenation
<1> HIDE DEF b1
<1>11. b2 \in Seq(Names) /\ Range(b2) = Range(b1) \cup Range(a2)
  BY <1>10, <1>3, RangeConcatenation
<1> HIDE DEF b2
<1>12. b3 \in Seq(Names) /\ Range(b3) = Range(b2) \cup Range(a3)
  BY <1>11, <1>4, RangeConcatenation
<1> HIDE DEF b3
<1>13. b4 \in Seq(Names) /\ Range(b4) = Range(b3) \cup Range(a4)
  BY <1>12, <1>5, RangeConcatenation
<1> HIDE DEF b4
<1>14. b5 \in Seq(Names) /\ Range(b5) = Range(b4) \cup Range(a5)
  BY <1>13, <1>6, RangeConcatenation
<1> HIDE DEF b5
<1>15. b6 \in Seq(Names) /\ Range(b6) = Range(b5) \cup Range(a6)
  BY <1>14, <1>7, RangeConcatenation
<1> HIDE DEF b6
<1>16. b7 \in Seq(Names) /\ Range(b7) = Range(b6) \cup Range(a7)
  BY <1>15, <1>8, RangeConcatenation
<1> HIDE DEF b7
<1>17. QED
  BY <1>1, <1>2, <1>3, <1>4, <1>5, <1>6, <1>7, <1>8, <1>9, <1>10, <1>11, <1>12, <1>13, <1>14, <1>15, <1>16 DEF Probes

\* What the cyber planner's collection probes.
LEMMA CyberAsks ==
    Probes("cyber") =
        HOST_TOOLS \cup {"dumpcap", "capture", "wireshark", "podman", "docker", "distrobox",
         "kvm", "kvmModule", "qemu", "libvirt", "kvmAccess", "container"}
<1> DEFINE a0 == NetworkProbes
           a1 == CaptureProbes
           a2 == ReverseProbes
           a3 == <<"exiftool">>
           a4 == ToolboxProbes
           a5 == VmProbes
           a6 == <<"container">>
           b1 == a0 \o a1
           b2 == b1 \o a2
           b3 == b2 \o a3
           b4 == b3 \o a4
           b5 == b4 \o a5
           b6 == b5 \o a6
<1>1. a0 \in Seq(Names) /\ Range(a0) = {"nmap", "tcpdump", "dig", "whois", "socat", "netcat", "mtr", "ethtool", "openssl"}
  BY DEF Names, Range, NetworkProbes
<1>2. a1 \in Seq(Names) /\ Range(a1) = {"dumpcap", "capture", "wireshark", "tshark"}
  BY DEF Names, Range, CaptureProbes
<1>3. a2 \in Seq(Names) /\ Range(a2) = {"binutils", "file"}
  BY DEF Names, Range, ReverseProbes
<1>4. a3 \in Seq(Names) /\ Range(a3) = {"exiftool"}
  BY DEF Names, Range
<1>5. a4 \in Seq(Names) /\ Range(a4) = {"podman", "docker", "distrobox"}
  BY DEF Names, Range, ToolboxProbes, ContainerProbes
<1>6. a5 \in Seq(Names) /\ Range(a5) = {"kvm", "kvmModule", "qemu", "libvirt", "kvmAccess"}
  BY DEF Names, Range, VmProbes
<1>7. a6 \in Seq(Names) /\ Range(a6) = {"container"}
  BY DEF Names, Range
<1>8. Order["cyber"] = b6
  BY DEF Order, CyberProbes
<1> HIDE DEF a0, a1, a2, a3, a4, a5, a6
<1>9. b1 \in Seq(Names) /\ Range(b1) = Range(a0) \cup Range(a1)
  BY <1>1, <1>2, RangeConcatenation
<1> HIDE DEF b1
<1>10. b2 \in Seq(Names) /\ Range(b2) = Range(b1) \cup Range(a2)
  BY <1>3, <1>9, RangeConcatenation
<1> HIDE DEF b2
<1>11. b3 \in Seq(Names) /\ Range(b3) = Range(b2) \cup Range(a3)
  BY <1>10, <1>4, RangeConcatenation
<1> HIDE DEF b3
<1>12. b4 \in Seq(Names) /\ Range(b4) = Range(b3) \cup Range(a4)
  BY <1>11, <1>5, RangeConcatenation
<1> HIDE DEF b4
<1>13. b5 \in Seq(Names) /\ Range(b5) = Range(b4) \cup Range(a5)
  BY <1>12, <1>6, RangeConcatenation
<1> HIDE DEF b5
<1>14. b6 \in Seq(Names) /\ Range(b6) = Range(b5) \cup Range(a6)
  BY <1>13, <1>7, RangeConcatenation
<1> HIDE DEF b6
<1>15. QED
  BY <1>1, <1>2, <1>3, <1>4, <1>5, <1>6, <1>7, <1>8, <1>9, <1>10, <1>11, <1>12, <1>13, <1>14 DEF Probes, HOST_TOOLS

\* Without a change and a timeout a plan sees what the machine replies.
LEMMA SeenIsReply ==
    ASSUME NEW p \in Planners, NEW x, NEW probe \in Probes(p)
    PROVE  Seen(p, x, x, 0, {})[probe] = Reply(x, probe)
BY DEF Seen

\* The replies that decide what has a purpose.
LEMMA RepliesOfPurposes ==
    ASSUME NEW x
    PROVE  /\ Reply(x, "docker") <=> "docker" \in x.has
           /\ Reply(x, "mise") <=> "mise" \in x.has
           /\ Reply(x, "nvm") <=> "nvm" \in x.has
           /\ Reply(x, "torch") = Torch(x)
BY DEF Reply

\* No build replied, so there is none.
LEMMA NoTorch ==
    ASSUME NEW x
    PROVE  /\ Torch(x) = Unknown => Builds(x) = {}
           /\ Builds(x) = {} <=> TorchTools \cap x.has = {}
<1>1. Builds(x) # {} => Torch(x) \in Builds(x)
  BY Zenon DEF Torch
<1>2. Builds(x) \subseteq DOMAIN TorchBuild
  BY DEF Builds
<1>3. Builds(x) = {} <=> TorchTools \cap x.has = {}
  BY DEF Builds, TorchTools
<1>4. QED
  BY <1>1, <1>2, <1>3, UnknownBuildAssumption

----------------------------------------------------------------------------
(* The invariant                                                           *)

\* Of the tools with a purpose a proposal asks for podman, for fnm, or for one
\* build of PyTorch, which only one action does.
AsksForTorch(a) == \E t \in TorchTools : a.tools = {t}

Sound(p, a) ==
    \/ Plain(a)
    \/ a.tools = {"podman"}
    \/ a.tools = {"fnm"}
    \/ p = "ai" /\ a.id = "python.pytorch" /\ AsksForTorch(a)

\* Nothing with the purpose of what it asks for is on the machine.
Free(a, has) ==
    /\ a.tools = {"podman"} => "docker" \notin has
    /\ a.tools = {"fnm"} => "mise" \notin has /\ "nvm" \notin has
    /\ AsksForTorch(a) => TorchTools \cap has = {}

Shaped == Machine(m)

Tables ==
    /\ plans = [p \in Planners |-> plans[p]]
    /\ quality = [p \in Planners |-> quality[p]]

\* A plan in hand has one proposal for each action, all of them sound.
Orderly ==
    \A p \in Planners : plans[p] # None =>
        \A a \in plans[p] : /\ Sound(p, a)
                            /\ \A b \in plans[p] : a.id = b.id => a = b

\* What a plan made in peace asks for is still missing.
InPeace ==
    \A p \in Planners : plans[p] # None /\ quality[p] = "clean" =>
        \A a \in plans[p] : Free(a, m.has)

IInv == Shaped /\ Tables /\ Orderly /\ InPeace

\* A proposal is sound, the only one of its action, and was made where the
\* tools with its purpose did not reply.
LEMMA ProposedIsSound ==
    ASSUME NEW p \in Planners, NEW s, NEW a \in Proposals(PlanOf(p, s))
    PROVE  /\ Sound(p, a)
           /\ \A b \in Proposals(PlanOf(p, s)) : a.id = b.id => a = b
           /\ a.tools = {"podman"} => ~s["docker"]
           /\ a.tools = {"fnm"} => p = "development" /\ ~s["mise"] /\ ~s["nvm"]
           /\ AsksForTorch(a) => p = "ai" /\ s["torch"] = Unknown
<1> DEFINE plan == PlanOf(p, s)
<1>1. PICK id \in DOMAIN plan : plan[id].status = "APPLY" /\ a = [id |-> id, tools |-> plan[id].tools]
  BY DEF Proposals
<1>2. \A b \in Proposals(plan) : \E i \in DOMAIN plan : b = [id |-> i, tools |-> plan[i].tools]
  BY DEF Proposals
<1>3. a.id = id /\ a.tools = plan[id].tools
  BY <1>1
<1>4. \A b \in Proposals(plan) : a.id = b.id => a = b
  BY <1>1, <1>2
<1>5. CASE p = "ai" /\ id = "python.pytorch"
  <2>1. plan[id] = PyTorch(s)
    BY <1>5, AiParts, Parts
  <2>2. s["torch"] = Unknown /\ AsksForTorch(a)
    BY <1>1, <1>3, <2>1, TorchIsCareful DEF AsksForTorch
  <2>3. a.tools # {"podman"} /\ a.tools # {"fnm"}
    BY <2>2, Purposeful DEF AsksForTorch
  <2>4. QED
    BY <1>3, <1>4, <1>5, <2>2, <2>3 DEF Sound
<1>6. CASE ~(p = "ai" /\ id = "python.pytorch")
  <2>1. Careful(p, s, plan[id])
    <3>1. CASE p = "development"
      BY <3>1, DevParts, Parts, DevIsCareful
    <3>2. CASE p = "ai"
      BY <1>6, <3>2, AiParts, Parts, AiIsCareful
    <3>3. CASE p = "cyber"
      BY <3>3, CyberParts, Parts, CyberIsCareful
    <3>4. QED
      BY <3>1, <3>2, <3>3 DEF Planners
  <2>2. \/ Plain(plan[id])
        \/ a.tools = {"podman"} /\ ~s["docker"]
        \/ p = "development" /\ a.tools = {"fnm"} /\ ~s["mise"] /\ ~s["nvm"]
    BY <1>1, <1>3, <2>1 DEF Careful
  <2>3. Plain(plan[id]) => Plain(a)
    BY <1>3 DEF Plain
  <2>4. Plain(a) => a.tools # {"podman"} /\ a.tools # {"fnm"} /\ ~AsksForTorch(a)
    BY DEF Plain, Engines, NodeManagers, AsksForTorch
  <2>5. ~AsksForTorch(a)
    BY <2>2, <2>3, <2>4, Purposeful DEF AsksForTorch
  <2>6. QED
    BY <1>4, <2>2, <2>3, <2>4, <2>5 DEF Sound
<1>7. QED
  BY <1>5, <1>6

\* A plan made in peace asks for what is missing.
LEMMA PeacefulIsFree ==
    ASSUME NEW p \in Planners, NEW x, NEW a \in Proposals(PlanOf(p, Seen(p, x, x, 0, {})))
    PROVE  Free(a, x.has)
<1> DEFINE s == Seen(p, x, x, 0, {})
<1>1. /\ a.tools = {"podman"} => ~s["docker"]
      /\ a.tools = {"fnm"} => p = "development" /\ ~s["mise"] /\ ~s["nvm"]
      /\ AsksForTorch(a) => p = "ai" /\ s["torch"] = Unknown
  BY ProposedIsSound
<1>2. /\ s["docker"] <=> "docker" \in x.has
      /\ p = "development" => (s["mise"] <=> "mise" \in x.has) /\ (s["nvm"] <=> "nvm" \in x.has)
      /\ p = "ai" => s["torch"] = Torch(x)
  <2>1. /\ "docker" \in Probes(p)
        /\ p = "development" => "mise" \in Probes(p) /\ "nvm" \in Probes(p)
        /\ p = "ai" => "torch" \in Probes(p)
    BY DevAsks, AiAsks, CyberAsks DEF Planners
  <2>2. QED
    BY <2>1, SeenIsReply, RepliesOfPurposes
<1>3. QED
  BY <1>1, <1>2, NoTorch DEF Free

\* What a change makes of a machine is one.
LEMMA Assembled ==
    \A h, c, o, y : y = [has |-> h, cards |-> c, others |-> o] /\ c \in Seq(DOMAIN Cards)
        => Machine(y) /\ y.has = h /\ y.cards = c
BY DEF Machine

\* What installing leaves: a machine with the tools, the one PyTorch build in place
\* of any other.
LEMMA InstallIs ==
    ASSUME NEW x, Machine(x), NEW T
    PROVE  /\ Machine(Install(x, T)) /\ Install(x, T).cards = x.cards
           /\ Install(x, T).has =
                (IF T \cap TorchTools # {} THEN x.has \ TorchTools ELSE x.has) \cup T
           /\ T \cap TorchTools = {} => Install(x, T).has = x.has \cup T
           /\ Install(x, T).has \subseteq x.has \cup T
<1> DEFINE h == (IF T \cap TorchTools # {} THEN x.has \ TorchTools ELSE x.has) \cup T
<1>1. Install(x, T) = [has |-> h, cards |-> x.cards, others |-> x.others]
  <2>1. x = [has |-> x.has, cards |-> x.cards, others |-> x.others]
    BY DEF Machine
  <2>2. Install(x, T) = [x EXCEPT !.has = h]
    BY DEF Install
  <2> HIDE DEF h
  <2>3. QED
    BY <2>1, <2>2
<1>2. x.cards \in Seq(DOMAIN Cards)
  BY DEF Machine
<1>3. Machine(Install(x, T)) /\ Install(x, T).has = h /\ Install(x, T).cards = x.cards
  <2> HIDE DEF h
  <2>1. QED
    BY <1>1, <1>2, Assembled
<1>4. QED
  BY <1>3

\* What a boot leaves: at most the driver's module is new, and it is loaded where
\* the driver is installed.
LEMMA BootedIs ==
    ASSUME NEW x, Machine(x)
    PROVE  /\ Machine(Booted(x)) /\ Booted(x).cards = x.cards
           /\ x.has \subseteq Booted(x).has /\ Booted(x).has \subseteq x.has \cup {"loaded"}
           /\ "nvidia-driver" \in Booted(x).has => "loaded" \in Booted(x).has
<1>1. CASE "nvidia-driver" \in x.has
  <2>1. Booted(x) = [has |-> x.has \cup {"loaded"}, cards |-> x.cards, others |-> x.others]
    BY <1>1 DEF Booted, Machine
  <2>2. x.cards \in Seq(DOMAIN Cards)
    BY DEF Machine
  <2>3. /\ Machine(Booted(x)) /\ Booted(x).cards = x.cards
        /\ Booted(x).has = x.has \cup {"loaded"}
    BY <2>1, <2>2, Assembled
  <2>4. QED
    BY <2>3
<1>2. CASE "nvidia-driver" \notin x.has
  BY <1>2 DEF Booted
<1>3. QED
  BY <1>1, <1>2

\* A card in the dock is an NVIDIA card: whether there are others does not change.
LEMMA DockIs ==
    ASSUME NEW x, Machine(x)
    PROVE  /\ Machine(Dock(x)) /\ Dock(x).has = x.has
           /\ OfVendor(Dock(x).cards, "AMD") <=> OfVendor(x.cards, "AMD")
<1>1. x.cards \in Seq(DOMAIN Cards)
  BY DEF Machine
<1>2. "nvidia" \in DOMAIN Cards /\ Cards["nvidia"].vendor = "NVIDIA"
  BY DEF Cards
<1>3. CASE Docked(x)
  <2> DEFINE c == SubSeq(x.cards, 1, Len(x.cards) - 1)
  <2>1. Len(x.cards) \in Nat \ {0} /\ x.cards[Len(x.cards)] = "nvidia"
    BY <1>1, <1>3, EmptySeq, LenProperties DEF Docked
  <2>2. /\ c \in Seq(DOMAIN Cards) /\ DOMAIN c = 1..(Len(x.cards) - 1)
        /\ \A i \in 1..(Len(x.cards) - 1) : c[i] = x.cards[i]
    BY <1>1, <2>1, SubSeqProperties
  <2>3. DOMAIN x.cards = 1..Len(x.cards)
    BY <1>1
  <2>4. Dock(x) = [has |-> x.has, cards |-> c, others |-> x.others]
    BY <1>3 DEF Dock, Machine
  <2> HIDE DEF c
  <2>5. Machine(Dock(x)) /\ Dock(x).has = x.has /\ Dock(x).cards = c
    BY <2>2, <2>4, Assembled
  <2>6. OfVendor(c, "AMD") <=> OfVendor(x.cards, "AMD")
    <3>1. OfVendor(c, "AMD") => OfVendor(x.cards, "AMD")
      BY <2>1, <2>2, <2>3 DEF OfVendor
    <3>2. ASSUME OfVendor(x.cards, "AMD") PROVE OfVendor(c, "AMD")
      <4>1. PICK i \in 1..Len(x.cards) : Cards[x.cards[i]].vendor = "AMD"
        BY <2>3, <3>2 DEF OfVendor
      <4>2. i # Len(x.cards)
        BY <1>2, <2>1, <4>1
      <4>3. i \in 1..(Len(x.cards) - 1)
        BY <2>1, <4>2
      <4>4. QED
        BY <2>2, <4>1, <4>3 DEF OfVendor
    <3>3. QED
      BY <3>1, <3>2
  <2>7. QED
    BY <2>5, <2>6
<1>4. CASE ~Docked(x)
  <2> DEFINE c == Append(x.cards, "nvidia")
  <2>1. /\ c \in Seq(DOMAIN Cards) /\ DOMAIN c = 1..(Len(x.cards) + 1)
        /\ \A i \in 1..Len(x.cards) : c[i] = x.cards[i]
        /\ c[Len(x.cards) + 1] = "nvidia"
    BY <1>1, <1>2, AppendProperties
  <2>2. DOMAIN x.cards = 1..Len(x.cards) /\ Len(x.cards) \in Nat
    BY <1>1
  <2>3. Dock(x) = [has |-> x.has, cards |-> c, others |-> x.others]
    BY <1>4 DEF Dock, Machine
  <2> HIDE DEF c
  <2>4. Machine(Dock(x)) /\ Dock(x).has = x.has /\ Dock(x).cards = c
    BY <2>1, <2>3, Assembled
  <2>5. OfVendor(c, "AMD") <=> OfVendor(x.cards, "AMD")
    <3>1. \A i \in 1..(Len(x.cards) + 1) : i \in 1..Len(x.cards) \/ i = Len(x.cards) + 1
      BY <2>2
    <3>2. \A i \in 1..Len(x.cards) : i \in 1..(Len(x.cards) + 1)
      BY <2>2
    <3>3. QED
      BY <1>2, <2>1, <2>2, <3>1, <3>2 DEF OfVendor
  <2>6. QED
    BY <2>4, <2>5
<1>5. QED
  BY <1>3, <1>4

\* Others change one thing: a tool, the build of PyTorch, or the dock.
LEMMA OneChange ==
    ASSUME NEW x, Machine(x), NEW y \in Changed(x)
    PROVE  /\ Machine(y)
           /\ \/ y.cards = x.cards /\ \E t : t \notin TorchTools /\ \A n : n # t => (n \in x.has <=> n \in y.has)
              \/ y.cards = x.cards /\ \A n : n \notin TorchTools => (n \in x.has <=> n \in y.has)
              \/ y.has = x.has /\ (OfVendor(y.cards, "AMD") <=> OfVendor(x.cards, "AMD"))
<1>1. ASSUME NEW t, y = Install(x, {t})
      PROVE  /\ Machine(y) /\ y.cards = x.cards
             /\ t \notin TorchTools => \A n : n # t => (n \in x.has <=> n \in y.has)
             /\ t \in TorchTools => \A n : n \notin TorchTools => (n \in x.has <=> n \in y.has)
  <2>1. /\ Machine(y) /\ y.cards = x.cards
        /\ y.has = (IF {t} \cap TorchTools # {} THEN x.has \ TorchTools ELSE x.has) \cup {t}
    BY <1>1, InstallIs
  <2>2. QED
    BY <2>1
<1>2. ASSUME NEW t, y = [x EXCEPT !.has = @ \ {t}]
      PROVE  Machine(y) /\ y.cards = x.cards /\ \A n : n # t => (n \in x.has <=> n \in y.has)
  <2>1. y = [has |-> x.has \ {t}, cards |-> x.cards, others |-> x.others] /\ x.cards \in Seq(DOMAIN Cards)
    BY <1>2 DEF Machine
  <2>2. Machine(y) /\ y.has = x.has \ {t} /\ y.cards = x.cards
    BY <2>1, Assembled
  <2>3. QED
    BY <2>2
<1>3. CASE y = Dock(x)
  BY <1>3, DockIs
<1>4. (\E t : y = Install(x, {t})) \/ (\E t : y = [x EXCEPT !.has = @ \ {t}]) \/ y = Dock(x)
  BY DEF Changed
<1>5. CASE \E t : y = Install(x, {t})
  <2>1. PICK t : y = Install(x, {t})
    BY <1>5
  <2>2. QED
    BY <1>1, <2>1
<1>6. CASE \E t : y = [x EXCEPT !.has = @ \ {t}]
  <2>1. PICK t : y = [x EXCEPT !.has = @ \ {t}]
    BY <1>6
  <2>2. Machine(y) /\ y.cards = x.cards /\ \A n : n # t => (n \in x.has <=> n \in y.has)
    BY <1>2, <2>1
  <2>3. QED
    BY <2>2
<1>7. QED
  BY <1>3, <1>4, <1>5, <1>6

\* The kinds of proposals exclude each other.
LEMMA ToolsOfOneKind ==
    \A a : /\ Plain(a) => /\ ~AsksForTorch(a) /\ a.tools \cap TorchTools = {}
                          /\ a.tools \cap Engines = {} /\ a.tools \cap NodeManagers = {}
           /\ a.tools = {"podman"} => /\ ~AsksForTorch(a) /\ a.tools \cap TorchTools = {}
                                      /\ a.tools \cap NodeManagers = {}
           /\ a.tools = {"fnm"} => /\ ~AsksForTorch(a) /\ a.tools \cap TorchTools = {}
                                   /\ a.tools \cap Engines = {}
           /\ AsksForTorch(a) => /\ a.tools \cap Engines = {} /\ a.tools \cap NodeManagers = {}
                                 /\ a.tools # {"podman"} /\ a.tools # {"fnm"}
<1> SUFFICES ASSUME NEW a
             PROVE  /\ Plain(a) => /\ ~AsksForTorch(a) /\ a.tools \cap TorchTools = {}
                                   /\ a.tools \cap Engines = {} /\ a.tools \cap NodeManagers = {}
                    /\ a.tools = {"podman"} => /\ ~AsksForTorch(a) /\ a.tools \cap TorchTools = {}
                                               /\ a.tools \cap NodeManagers = {}
                    /\ a.tools = {"fnm"} => /\ ~AsksForTorch(a) /\ a.tools \cap TorchTools = {}
                                            /\ a.tools \cap Engines = {}
                    /\ AsksForTorch(a) => /\ a.tools \cap Engines = {} /\ a.tools \cap NodeManagers = {}
                                          /\ a.tools # {"podman"} /\ a.tools # {"fnm"}
  OBVIOUS
<1>1. TorchTools = {"torch.cuda", "torch.rocm", "torch.xpu", "torch.cpu"}
  BY Purposeful
<1>2. Plain(a) => /\ ~AsksForTorch(a) /\ a.tools \cap TorchTools = {}
                          /\ a.tools \cap Engines = {} /\ a.tools \cap NodeManagers = {}
  BY DEF Plain, AsksForTorch
<1>3. a.tools = {"podman"} => /\ ~AsksForTorch(a) /\ a.tools \cap TorchTools = {}
                                      /\ a.tools \cap NodeManagers = {}
  BY <1>1 DEF AsksForTorch, NodeManagers
<1>4. a.tools = {"fnm"} => /\ ~AsksForTorch(a) /\ a.tools \cap TorchTools = {}
                                   /\ a.tools \cap Engines = {}
  BY <1>1 DEF AsksForTorch, Engines
<1>5. AsksForTorch(a) => /\ a.tools \cap Engines = {} /\ a.tools \cap NodeManagers = {}
                                 /\ a.tools # {"podman"} /\ a.tools # {"fnm"}
  BY <1>1 DEF AsksForTorch, NodeManagers, Engines
<1>6. QED
  BY <1>2, <1>3, <1>4, <1>5

\* The build that replies depends on the builds there are.
LEMMA SameTorch == ASSUME NEW x, NEW y, Builds(x) = Builds(y) PROVE Torch(x) = Torch(y)
<1> DEFINE Of(B) == IF B = {} THEN Unknown ELSE CHOOSE b \in B : TRUE
<1>1. Torch(x) = Of(Builds(x)) /\ Torch(y) = Of(Builds(y))
  BY DEF Torch
<1> HIDE DEF Of
<1>2. QED
  BY <1>1

\* Init makes the invariant true, and each action keeps it so.
LEMMA Start == Init => IInv
<1> SUFFICES ASSUME Init PROVE IInv
  OBVIOUS
<1>1. Shaped
  BY MachinesAssumption DEF Init, Shaped
<1>2. Tables /\ \A p \in Planners : plans[p] = None
  BY DEF Init, Tables
<1>3. QED
  BY <1>1, <1>2 DEF IInv, Orderly, InPeace

\* A plan is made: the hands hold what it proposes.
LEMMA InvokeKeeps == ASSUME IInv, NEW p \in Planners, Invoke(p) PROVE IInv'
<1>1. PICK late : /\ plans' = [plans EXCEPT ![p] = Proposals(PlanOf(p, Seen(p, m, m, 0, late)))]
                  /\ quality' = [quality EXCEPT ![p] = IF late = {} THEN "clean" ELSE "timeout"]
  BY DEF Invoke
<1>2. /\ plans'[p] = Proposals(PlanOf(p, Seen(p, m, m, 0, late)))
      /\ quality'[p] = IF late = {} THEN "clean" ELSE "timeout"
      /\ \A q \in Planners \ {p} : plans'[q] = plans[q] /\ quality'[q] = quality[q]
      /\ Tables'
  BY <1>1 DEF IInv, Tables
<1>3. m' = m
  BY DEF Invoke
<1>4. Orderly'
  BY <1>2, ProposedIsSound DEF IInv, Orderly
<1>5. InPeace'
  <2> SUFFICES ASSUME NEW q \in Planners, plans'[q] # None, quality'[q] = "clean", NEW a \in plans'[q]
               PROVE  Free(a, m'.has)
    BY DEF InPeace
  <2>1. CASE q = p
    <3>1. late = {}
      BY <1>2, <2>1
    <3>2. QED
      BY <1>2, <1>3, <2>1, <3>1, PeacefulIsFree
  <2>2. CASE q # p
    BY <1>2, <1>3, <2>2 DEF IInv, InPeace
  <2>3. QED
    BY <2>1, <2>2
<1>6. QED
  BY <1>2, <1>3, <1>4, <1>5 DEF IInv, Shaped

\* So does one during which the machine changes.
LEMMA InvokeDuringChangeKeeps ==
    ASSUME IInv, NEW p \in Planners, InvokeDuringChange(p) PROVE IInv'
<1>1. PICK y \in Changed(m), k \in 0..Len(Order[p]) :
          /\ plans' = [plans EXCEPT ![p] = Proposals(PlanOf(p, Seen(p, m, y, k, {})))]
          /\ m' = y
  BY DEF InvokeDuringChange
<1>2. /\ plans'[p] = Proposals(PlanOf(p, Seen(p, m, y, k, {})))
      /\ \A q \in Planners \ {p} : plans'[q] = plans[q]
      /\ \A q \in Planners : quality'[q] # "clean"
      /\ Tables'
  BY <1>1 DEF IInv, Tables, InvokeDuringChange
<1>3. Shaped'
  BY <1>1, OneChange DEF IInv, Shaped
<1>4. Orderly'
  BY <1>2, ProposedIsSound DEF IInv, Orderly
<1>5. InPeace'
  BY <1>2 DEF InPeace
<1>6. QED
  BY <1>2, <1>3, <1>4, <1>5 DEF IInv

\* A proposal is carried out: what the others ask for is still missing.
LEMMA FollowKeeps ==
    ASSUME IInv, NEW p \in Planners, NEW id \in ActionIds, Follow(p, id) PROVE IInv'
<1>1. PICK a \in plans[p] : m' = Install(m, a.tools) /\ plans' = [plans EXCEPT ![p] = @ \ {a}]
  BY DEF Follow
<1>2. /\ plans'[p] = plans[p] \ {a}
      /\ \A q \in Planners \ {p} : plans'[q] = plans[q]
      /\ Tables' /\ quality' = quality /\ plans[p] # None
  BY <1>1 DEF IInv, Tables, Follow
<1>3. Sound(p, a)
  BY <1>2 DEF IInv, Orderly
<1>4. Shaped' /\ m'.has \subseteq m.has \cup a.tools
              /\ (a.tools \cap TorchTools = {} => m'.has = m.has \cup a.tools)
  BY <1>1, InstallIs DEF IInv, Shaped
<1>5. Orderly'
  BY <1>2 DEF IInv, Orderly
<1>6. InPeace'
  <2> SUFFICES ASSUME NEW q \in Planners, plans'[q] # None, quality'[q] = "clean", NEW b \in plans'[q]
               PROVE  Free(b, m'.has)
    BY DEF InPeace
  <2>1. plans[q] # None /\ b \in plans[q] /\ (q = p => b # a)
    BY <1>2
  <2>2. Free(b, m.has) /\ Sound(q, b)
    BY <1>2, <2>1 DEF IInv, InPeace, Orderly
  <2>3. {"docker", "mise", "nvm"} \cap a.tools = {}
    BY <1>3, ToolsOfOneKind, Purposeful DEF Sound, AsksForTorch, Engines, NodeManagers
  <2>4. AsksForTorch(b) => TorchTools \cap m'.has = {}
    <3> SUFFICES ASSUME AsksForTorch(b) PROVE TorchTools \cap m'.has = {}
      OBVIOUS
    <3>1. q = "ai" /\ b.id = "python.pytorch"
      BY <2>2, ToolsOfOneKind DEF Sound
    <3>2. ~AsksForTorch(a)
      <4> SUFFICES ASSUME AsksForTorch(a) PROVE FALSE
        OBVIOUS
      <4>1. p = "ai" /\ a.id = "python.pytorch"
        BY <1>3, ToolsOfOneKind DEF Sound
      <4>2. a = b
        BY <1>2, <2>1, <3>1, <4>1 DEF IInv, Orderly
      <4>3. QED
        BY <2>1, <3>1, <4>1, <4>2
    <3>3. a.tools \cap TorchTools = {}
      BY <1>3, <3>2, ToolsOfOneKind DEF Sound
    <3>4. QED
      BY <1>4, <2>2, <3>3 DEF Free
  <2>5. QED
    BY <1>4, <2>2, <2>3, <2>4 DEF Free
<1>7. QED
  BY <1>2, <1>4, <1>5, <1>6 DEF IInv

\* So does a report that is put away.
LEMMA PutAwayKeeps == ASSUME IInv, NEW p \in Planners, PutAway(p) PROVE IInv'
<1>1. /\ plans'[p] = None
      /\ \A q \in Planners \ {p} : plans'[q] = plans[q] /\ quality'[q] = quality[q]
      /\ Tables' /\ m' = m
  BY DEF IInv, Tables, PutAway
<1>2. QED
  BY <1>1 DEF IInv, Shaped, Orderly, InPeace

\* So do a boot and the changes of others.
LEMMA EnvironmentKeeps == ASSUME IInv, Boot \/ OthersChange PROVE IInv'
<1>1. CASE Boot
  <2>1. Shaped' /\ m'.has \subseteq m.has \cup {"loaded"}
    BY <1>1, BootedIs DEF Boot, IInv, Shaped
  <2>2. UNCHANGED <<plans, quality>>
    BY <1>1 DEF Boot
  <2>3. Tables' /\ Orderly'
    BY <2>2 DEF IInv, Tables, Orderly
  <2>4. "loaded" \notin TorchTools
    BY Purposeful
  <2>5. \A a : Free(a, m.has) => Free(a, m'.has)
    BY <2>1, <2>4 DEF Free
  <2>6. InPeace'
    BY <2>2, <2>5 DEF IInv, InPeace
  <2>7. QED
    BY <2>1, <2>3, <2>6 DEF IInv
<1>2. CASE OthersChange
  <2>1. Shaped'
    BY <1>2, OneChange DEF IInv, Shaped, OthersChange
  <2>2. Orderly'
    BY <1>2 DEF IInv, Orderly, OthersChange
  <2>3. Tables'
    BY <1>2 DEF IInv, Tables, OthersChange
  <2>4. \A q \in Planners : plans'[q] # None => quality'[q] # "clean"
    BY <1>2 DEF OthersChange
  <2>5. InPeace'
    BY <2>4 DEF InPeace
  <2>6. QED
    BY <2>1, <2>2, <2>3, <2>5 DEF IInv
<1>3. QED
  BY <1>1, <1>2

\* IInv is inductive: others may change the machine as they like (what they do
\* ends the peace), but no proposal carried out in peace takes away what
\* another one was made for.
THEOREM Invariance == Spec => []IInv
<1>1. IInv /\ [Next]_vars => IInv'
  <2> SUFFICES ASSUME IInv, [Next]_vars PROVE IInv'
    OBVIOUS
  <2>1. CASE Boot \/ OthersChange
    BY <2>1, EnvironmentKeeps
  <2>2. ASSUME NEW p \in Planners, Invoke(p) PROVE IInv'
    BY <2>2, InvokeKeeps
  <2>3. ASSUME NEW p \in Planners, InvokeDuringChange(p) PROVE IInv'
    BY <2>3, InvokeDuringChangeKeeps
  <2>4. ASSUME NEW p \in Planners, PutAway(p) PROVE IInv'
    BY <2>4, PutAwayKeeps
  <2>5. ASSUME NEW p \in Planners, NEW id \in ActionIds, Follow(p, id) PROVE IInv'
    BY <2>5, FollowKeeps
  <2>6. CASE UNCHANGED vars
    BY <2>6 DEF vars, IInv, Shaped, Tables, Orderly, InPeace
  <2>7. QED
    BY <2>1, <2>2, <2>3, <2>4, <2>5, <2>6 DEF Next
<1>2. QED
  BY <1>1, Start, PTL DEF Spec

\* Tools of a purpose can be counted.
LEMMA Purposed ==
    ASSUME NEW has
    PROVE  \A purpose \in Purposes : Cardinality(purpose \cap has) \in Nat
<1>1. IsFiniteSet(Engines) /\ IsFiniteSet(NodeManagers)
  <2>1. IsFiniteSet({}) /\ IsFiniteSet({"docker"}) /\ IsFiniteSet({"mise"})
    BY FS_EmptySet, FS_Singleton
  <2>2. IsFiniteSet({"docker"} \cup {"podman"})
    BY <2>1, FS_AddElement
  <2>3. IsFiniteSet({"mise"} \cup {"nvm"})
    BY <2>1, FS_AddElement
  <2>4. IsFiniteSet(({"mise"} \cup {"nvm"}) \cup {"fnm"})
    BY <2>3, FS_AddElement
  <2>5. Engines = {"docker"} \cup {"podman"} /\ NodeManagers = ({"mise"} \cup {"nvm"}) \cup {"fnm"}
    BY DEF Engines, NodeManagers
  <2>6. QED
    BY <2>2, <2>4, <2>5
<1>2. \A purpose \in Purposes : IsFiniteSet(purpose \cap has)
  BY <1>1, FS_Subset DEF Purposes
<1>3. QED
  BY <1>2, FS_CardinalityType

\* A proposal that asks for a tool with a purpose finds none there, or the
\* very tool.
LEMMA FollowNeverCompetes ==
    ASSUME IInv, NEW p \in Planners, NEW id \in ActionIds, quality[p] = "clean"
    PROVE  ~CompetesBy(p, id)
<1> SUFFICES ASSUME Follow(p, id)
             PROVE  /\ \A purpose \in Purposes :
                         \/ ~(Cardinality(purpose \cap m'.has) > 1)
                         \/ ~(Cardinality(purpose \cap m.has) < Cardinality(purpose \cap m'.has))
                    /\ TorchTools \cap m.has # {} => Torch(m') = Torch(m)
  BY DEF CompetesBy
<1>1. PICK a \in plans[p] : m' = Install(m, a.tools)
  BY DEF Follow
<1>2. plans[p] # None
  BY DEF Follow
<1>3. Sound(p, a) /\ Free(a, m.has)
  BY <1>2 DEF IInv, Orderly, InPeace
<1>4. m'.has \subseteq m.has \cup a.tools /\ (a.tools \cap TorchTools = {} => m'.has = m.has \cup a.tools)
      /\ m'.has = (IF a.tools \cap TorchTools # {} THEN m.has \ TorchTools ELSE m.has) \cup a.tools
  BY <1>1, InstallIs DEF IInv, Shaped
<1>5. TorchTools \cap Engines = {} /\ TorchTools \cap NodeManagers = {}
  BY Purposeful DEF Engines, NodeManagers
<1>6. \A purpose \in Purposes : a.tools \cap purpose = {} => purpose \cap m'.has = purpose \cap m.has
  BY <1>4, <1>5 DEF Purposes
<1>7. \A purpose \in Purposes : a.tools \cap purpose = {} =>
          ~(Cardinality(purpose \cap m.has) < Cardinality(purpose \cap m'.has))
  <2> SUFFICES ASSUME NEW purpose \in Purposes, a.tools \cap purpose = {}
               PROVE  ~(Cardinality(purpose \cap m.has) < Cardinality(purpose \cap m'.has))
    OBVIOUS
  <2>1. purpose \cap m'.has = purpose \cap m.has
    BY <1>6
  <2>2. Cardinality(purpose \cap m.has) \in Nat
    BY Purposed
  <2>3. \A n \in Nat : ~(n < n)
    OBVIOUS
  <2>4. QED
    BY <2>1, <2>2, <2>3, Zenon
<1>8. a.tools \cap TorchTools = {} => Torch(m') = Torch(m)
  <2>1. a.tools \cap TorchTools = {} => Builds(m') = Builds(m)
    BY <1>4 DEF Builds, TorchTools
  <2>2. QED
    BY <2>1, SameTorch
<1>9. CASE Plain(a)
  <2>1. \A purpose \in Purposes : a.tools \cap purpose = {}
    BY <1>9, ToolsOfOneKind DEF Purposes
  <2>2. QED
    BY <1>7, <1>8, <1>9, <2>1, ToolsOfOneKind
<1>10. CASE a.tools = {"podman"}
  <2>1. Engines \cap m'.has = {"podman"}
    BY <1>3, <1>4, <1>10, ToolsOfOneKind DEF Free, Engines
  <2>2. Cardinality(Engines \cap m'.has) = 1
    BY <2>1, FS_Singleton
  <2>3. QED
    BY <1>7, <1>8, <1>10, <2>2, ToolsOfOneKind DEF Purposes
<1>11. CASE a.tools = {"fnm"}
  <2>1. NodeManagers \cap m'.has = {"fnm"}
    BY <1>3, <1>4, <1>11, ToolsOfOneKind DEF Free, NodeManagers
  <2>2. Cardinality(NodeManagers \cap m'.has) = 1
    BY <2>1, FS_Singleton
  <2>3. QED
    BY <1>7, <1>8, <1>11, <2>2, ToolsOfOneKind DEF Purposes
<1>12. CASE AsksForTorch(a)
  <2>1. TorchTools \cap m.has = {}
    BY <1>3, <1>12 DEF Free
  <2>2. \A purpose \in Purposes : a.tools \cap purpose = {}
    BY <1>12, ToolsOfOneKind DEF Purposes
  <2>3. QED
    BY <1>7, <2>1, <2>2
<1>13. QED
  BY <1>3, <1>9, <1>10, <1>11, <1>12 DEF Sound

\* Proposals of the three plans, carried out in any order and mixture on any
\* machine that nobody else changes, never add a second engine or Node manager
\* and never replace one build of PyTorch by another.
THEOREM NeverCompete == Spec => PlansNeverCompete
<1>1. IInv /\ [Next]_vars =>
          [\A p \in Planners, id \in ActionIds : quality[p] = "clean" => ~CompetesBy(p, id)]_vars
  BY FollowNeverCompetes
<1>2. QED
  BY <1>1, Invariance, PTL DEF Spec, PlansNeverCompete

----------------------------------------------------------------------------
(* What is reported of them                                                 *)

\* What the doctors and the plan are compared with in the capability reports.
LEMMA Reported ==
    ASSUME NEW s
    PROVE  /\ DevCapabilities(s).container_engine.supported <=> ~s.container
           /\ DevCapabilities(s).cpp_toolchain.installed <=> \A t \in CPP_TOOLS : s[t]
           /\ CyberCapabilities(s).vm_isolation.usable <=> VmReadiness(s) = "ready"
           /\ CyberCapabilities(s).packet_capture_permission.usable = CapturePermission(s)
           /\ NvidiaHardware(s) /\ DriverWorks(s) => AiCapabilities(s).nvidia_driver.usable = TRUE
           /\ AiCapabilities(s).cuda_toolkit.installed <=> CudaToolkit(s)
           /\ AiCapabilities(s).rocm_runtime.usable = RocmEnumerated(s)
           /\ AiCapabilities(s).pytorch_cuda.usable = TorchUsable(s, "cuda")
           /\ AiCapabilities(s).ai_container_runtime.usable =>
                  /\ s.podman \/ s.docker
                  /\ OfVendor(s.cards1, "NVIDIA") => DriverWorks(s) /\ s["nvidia-ctk"] /\ s.cdi
<1>1. /\ DevCapabilities(s).container_engine.supported <=> ~s.container
      /\ DevCapabilities(s).cpp_toolchain.installed <=> \A t \in CPP_TOOLS : s[t]
  BY DEF DevCapabilities, Supported
<1>2. /\ CyberCapabilities(s).vm_isolation.usable <=> VmReadiness(s) = "ready"
      /\ CyberCapabilities(s).packet_capture_permission.usable = CapturePermission(s)
  BY DEF CyberCapabilities, Usable
<1>3. /\ NvidiaHardware(s) /\ DriverWorks(s) => AiCapabilities(s).nvidia_driver.usable = TRUE
      /\ AiCapabilities(s).cuda_toolkit.installed <=> CudaToolkit(s)
      /\ AiCapabilities(s).rocm_runtime.usable = RocmEnumerated(s)
      /\ AiCapabilities(s).pytorch_cuda.usable = TorchUsable(s, "cuda")
  BY DEF AiCapabilities, Usable
<1>4. AiCapabilities(s).ai_container_runtime.usable =>
          /\ s.podman \/ s.docker
          /\ OfVendor(s.cards1, "NVIDIA") => DriverWorks(s) /\ s["nvidia-ctk"] /\ s.cdi
  BY DEF AiCapabilities, Usable
<1>5. QED
  BY <1>1, <1>2, <1>3, <1>4

\* What Do assembles.
LEMMA DoFields == \A status, tools : Do(status, tools).status = status /\ Do(status, tools).tools = tools
BY DEF Do

\* The engine is decided once by three planners, and so is Distrobox by two.
LEMMA Engine ==
    ASSUME NEW s
    PROVE  /\ \E e : EngineStatuses(s) = {e}
           /\ s.container <=> EngineStatuses(s) = {"SKIP"}
           /\ ~s.container /\ (s.podman \/ s.docker) => EngineStatuses(s) = {"NOOP"}
<1>1. EngineStatuses(s) = {ContainersAction(s).status}
  <2>1. AiContainers(s) = ContainersAction(s) /\ ToolboxEngine(s) = ContainersAction(s)
    BY DEF AiContainers, ContainersAction, ToolboxEngine
  <2>2. QED
    BY <2>1, DevParts, AiParts, CyberParts DEF EngineStatuses
<1>2. QED
  BY <1>1, DoFields DEF ContainersAction

\* Each part of ReportsAgree, for any replies.
LEMMA EnginesAgree ==
    ASSUME NEW s
    PROVE  /\ Cardinality(EngineStatuses(s)) = 1
           /\ DevPlan(s)["containers.distrobox"] = CyberPlanOf(s)["toolbox.distrobox"]
           /\ ~DevCapabilities(s).container_engine.supported <=> EngineStatuses(s) = {"SKIP"}
           /\ DoctorEngines(s) = "WARN" => EngineStatuses(s) \subseteq {"NOOP", "SKIP"}
<1>1. Cardinality(EngineStatuses(s)) = 1
  <2>1. PICK e : EngineStatuses(s) = {e}
    BY Engine, Zenon
  <2>2. QED
    BY <2>1, FS_Singleton, Zenon
<1>2. DevPlan(s)["containers.distrobox"] = CyberPlanOf(s)["toolbox.distrobox"]
  <2>1. DevPlan(s)["containers.distrobox"] = DistroboxAction(s)
    BY DevParts
  <2>2. CyberPlanOf(s)["toolbox.distrobox"] = ToolboxDistrobox(s)
    BY CyberParts
  <2>3. DistroboxAction(s) = ToolboxDistrobox(s)
    BY DEF DistroboxAction, ToolboxDistrobox, InstallTool
  <2>4. QED
    BY <2>1, <2>2, <2>3, Zenon
<1>3. ~DevCapabilities(s).container_engine.supported <=> EngineStatuses(s) = {"SKIP"}
  BY Reported, Engine
<1>4. DoctorEngines(s) = "WARN" => EngineStatuses(s) \subseteq {"NOOP", "SKIP"}
  <2>1. DoctorEngines(s) = "WARN" => s.podman /\ s.docker
    BY DEF DoctorEngines
  <2>2. QED
    BY <2>1, Engine
<1>5. QED
  BY <1>1, <1>2, <1>3, <1>4

\* The development report and doctor agree with the plan made of the same replies.
LEMMA DevelopmentAgrees ==
    ASSUME NEW s
    PROVE  /\ DevCapabilities(s).cpp_toolchain.installed <=> DevPlan(s)["cpp.toolchain"].status = "NOOP"
           /\ DoctorNodeConflict(s) = "WARN" =>
                  DevPlan(s)["node.manager"].status = "BLOCKED" /\ DevPlan(s)["node.pnpm"].status # "APPLY"
<1>1. DevCapabilities(s).cpp_toolchain.installed <=> \A t \in CPP_TOOLS : s[t]
  BY Reported
<1>2. DevPlan(s)["cpp.toolchain"].status = "NOOP" <=> \A t \in CPP_TOOLS : s[t]
  BY DevParts, DoFields DEF AptGroup
<1>3. ASSUME DoctorNodeConflict(s) = "WARN"
      PROVE  DevPlan(s)["node.manager"].status = "BLOCKED" /\ DevPlan(s)["node.pnpm"].status # "APPLY"
  <2>1. Cardinality(Managers(s)) > 1
    BY <1>3 DEF DoctorNodeConflict
  <2>2. Cardinality({}) = 0 /\ Cardinality({"fnm"}) = 1
    BY FS_EmptySet, FS_Singleton
  <2>3. NodeManagerConflict(s)
    BY <2>1, <2>2 DEF NodeManagerConflict
  <2>4. NodeManager(s) = Do("BLOCKED", {})
    BY <2>3 DEF NodeManager
  <2>5. Pnpm(s) = Do("BLOCKED", {}) \/ Pnpm(s) = Do("NOOP", {})
    BY <2>3 DEF Pnpm, InstallTool
  <2>6. QED
    BY <2>4, <2>5, DevParts, DoFields
<1>4. QED
  BY <1>1, <1>2, <1>3

\* So do the cyber report and doctor.
LEMMA CyberAgrees ==
    ASSUME NEW s
    PROVE  /\ CyberCapabilities(s).vm_isolation.usable <=> CyberPlanOf(s)["vm.prerequisites"].status = "NOOP"
           /\ CyberCapabilities(s).vm_isolation.usable <=> DoctorVm(s) = "PASS"
           /\ CyberCapabilities(s).packet_capture_permission.usable = FALSE => DoctorCapture(s) = "WARN"
<1>1. CyberCapabilities(s).vm_isolation.usable <=> VmReadiness(s) = "ready"
  BY Reported
<1>2. CyberPlanOf(s)["vm.prerequisites"].status = "NOOP" <=> VmReadiness(s) = "ready"
  BY CyberParts, DoFields DEF VmPrerequisites
<1>3. DoctorVm(s) = "PASS" <=> VmReadiness(s) = "ready"
  BY DEF DoctorVm
<1>4. CyberCapabilities(s).packet_capture_permission.usable = CapturePermission(s)
  BY Reported
<1>5. CapturePermission(s) = FALSE => DoctorCapture(s) = "WARN"
  <2>1. Unknown # FALSE
    BY UnknownAssumption
  <2>2. CapturePermission(s) = FALSE => s.dumpcap
    BY <2>1 DEF CapturePermission
  <2>3. QED
    BY <2>2 DEF DoctorCapture
<1>6. QED
  BY <1>1, <1>2, <1>3, <1>4, <1>5

\* What the backend decision rests on.
LEMMA Decided ==
    ASSUME NEW s
    PROVE  /\ Select(s) = Decision("cuda", "APPLY") => OfVendor(s.cards1, "NVIDIA") /\ DriverWorks(s)
           /\ Select(s).target = "rocm" => Select(s).status = "BLOCKED"
           /\ Primary(s) = "unknown" => Select(s).status = "APPLY"
           /\ Select(s).target \in {"cuda", "cpu", "rocm", "xpu"}
<1>1. Primary(s) = "nvidia_cuda" => OfVendor(s.cards1, "NVIDIA")
  BY DEF Primary
<1>2. Primary(s) \in {"nvidia_cuda", "amd_rocm", "intel_gpu", "unknown", "cpu"}
  BY DEF Primary
<1>3. CASE Primary(s) = "nvidia_cuda"
  BY <1>1, <1>3 DEF Select, Decision
<1>4. CASE Primary(s) = "amd_rocm"
  BY <1>4 DEF Select, Decision
<1>5. CASE Primary(s) \notin {"nvidia_cuda", "amd_rocm"}
  BY <1>2, <1>5 DEF Select, Decision
<1>6. QED
  BY <1>3, <1>4, <1>5

\* Both ways of looking for an NVIDIA card find it.
LEMMA CardsOfVendors ==
    ASSUME NEW cards
    PROVE  OfVendor(cards, "NVIDIA") <=> NvidiaPresent(cards)
BY DEF OfVendor, NvidiaPresent

\* NVIDIA's container toolkit is proposed only where the report calls the driver
\* usable.
LEMMA DriverAgrees ==
    ASSUME NEW s
    PROVE  AiPlanOf(s)["containers.nvidia_toolkit"].status = "APPLY" =>
               AiCapabilities(s).nvidia_driver.usable = TRUE
<1> SUFFICES ASSUME AiPlanOf(s)["containers.nvidia_toolkit"].status = "APPLY"
             PROVE  AiCapabilities(s).nvidia_driver.usable = TRUE
  OBVIOUS
<1>1. OfVendor(s.cards1, "NVIDIA") /\ DriverWorks(s)
  BY AiParts, DoFields DEF NvidiaToolkit
<1>2. NvidiaHardware(s)
  BY <1>1, CardsOfVendors DEF NvidiaHardware
<1>3. QED
  BY <1>1, <1>2, Reported

\* Where the report calls CUDA usable from PyTorch, the plan has nothing to do for
\* it and the doctor sees no mismatch.
LEMMA CudaAgrees ==
    ASSUME NEW s
    PROVE  AiCapabilities(s).pytorch_cuda.usable = TRUE =>
               /\ AiPlanOf(s)["nvidia.driver"].status = "NOOP" /\ AiPlanOf(s)["python.pytorch"].status = "NOOP"
               /\ DoctorTorchMismatch(s) = "PASS"
<1> SUFFICES ASSUME AiCapabilities(s).pytorch_cuda.usable = TRUE
             PROVE  /\ DriverAction(s).status = "NOOP" /\ PyTorch(s).status = "NOOP"
                    /\ DoctorTorchMismatch(s) = "PASS"
  BY AiParts
<1>1. TorchUsable(s, "cuda") = TRUE
  BY Reported
<1>2. s.torch = "cuda" /\ Select(s) = Decision("cuda", "APPLY")
  BY <1>1, UnknownAssumption DEF TorchUsable
<1>3. OfVendor(s.cards1, "NVIDIA") /\ DriverWorks(s)
  BY <1>2, Decided
<1>4. NvidiaHardware(s)
  BY <1>3, CardsOfVendors DEF NvidiaHardware
<1>5. "cuda" # Unknown
  BY UnknownBuildAssumption DEF TorchBuild
<1>6. QED
  BY <1>2, <1>3, <1>4, <1>5, DoFields DEF DriverAction, PyTorch, DoctorTorchMismatch

\* Where the report calls AI containers usable, the plan asks for none and the
\* doctor finds the CDI specification.
LEMMA ContainersAgree ==
    ASSUME NEW s
    PROVE  AiCapabilities(s).ai_container_runtime.usable =>
               /\ {AiPlanOf(s)["containers.engine"].status, AiPlanOf(s)["containers.nvidia_toolkit"].status}
                     \subseteq {"NOOP", "SKIP"}
               /\ AiPlanOf(s)["containers.nvidia_toolkit"].status = "NOOP" /\ NvidiaHardware(s)
                     => DoctorCdi(s) = "PASS"
<1> SUFFICES ASSUME AiCapabilities(s).ai_container_runtime.usable
             PROVE  /\ AiContainers(s).status \in {"NOOP", "SKIP"}
                    /\ NvidiaToolkit(s).status \in {"NOOP", "SKIP"}
                    /\ NvidiaHardware(s) => DoctorCdi(s) = "PASS"
  BY AiParts
<1>1. /\ s.podman \/ s.docker
      /\ OfVendor(s.cards1, "NVIDIA") => DriverWorks(s) /\ s["nvidia-ctk"] /\ s.cdi
  BY Reported
<1>2. NvidiaHardware(s) => s.cdi
  BY <1>1, CardsOfVendors DEF NvidiaHardware
<1>3. QED
  BY <1>1, <1>2, DoFields DEF AiContainers, NvidiaToolkit, DoctorCdi

\* The doctor's warnings about backends are not denied by the plan or the report.
LEMMA BackendAgrees ==
    ASSUME NEW s
    PROVE  /\ DoctorBackend(s) = "WARN" => AiPlanOf(s)["python.pytorch"].status # "BLOCKED"
           /\ DoctorRocm(s) = "WARN" =>
                  /\ AiCapabilities(s).rocm_runtime.usable = FALSE
                  /\ "torch.rocm" \notin AiPlanOf(s)["python.pytorch"].tools
           /\ DoctorCudaMarker(s) = "WARN" => ~AiCapabilities(s).cuda_toolkit.installed
<1>1. DoctorBackend(s) = "WARN" => PyTorch(s).status # "BLOCKED"
  <2>1. DoctorBackend(s) = "WARN" => Primary(s) = "unknown"
    BY DEF DoctorBackend
  <2>2. QED
    BY <2>1, Decided, DoFields DEF PyTorch
<1>2. "torch.rocm" \notin PyTorch(s).tools
  <2>1. CASE s.torch # Unknown \/ Select(s).status = "BLOCKED"
    BY <2>1, DoFields DEF PyTorch
  <2>2. CASE s.torch = Unknown /\ Select(s).status # "BLOCKED"
    <3>1. Select(s).target \in {"cuda", "cpu", "xpu"}
      BY <2>2, Decided
    <3>2. TorchBuild[Select(s).target] # "torch.rocm"
      BY <3>1 DEF TorchBuild
    <3>3. QED
      BY <2>2, <3>2, DoFields DEF PyTorch
  <2>3. QED
    BY <2>1, <2>2
<1>3. DoctorRocm(s) = "WARN" => AiCapabilities(s).rocm_runtime.usable = FALSE
  <2>1. DoctorRocm(s) = "WARN" => RocmEnumerated(s) = FALSE
    BY DEF DoctorRocm
  <2>2. QED
    BY <2>1, Reported
<1>4. DoctorCudaMarker(s) = "WARN" => ~AiCapabilities(s).cuda_toolkit.installed
  <2>1. DoctorCudaMarker(s) = "WARN" => ~CudaToolkit(s)
    BY DEF DoctorCudaMarker
  <2>2. QED
    BY <2>1, Reported
<1>5. QED
  BY <1>1, <1>2, <1>3, <1>4, AiParts

\* Planners, capability reports and doctors say the same of every machine.
THEOREM ReportsTellOneStory == Spec => []ReportsAgree
<1>1. ReportsAgree
  BY EnginesAgree, DevelopmentAgrees, CyberAgrees, DriverAgrees, CudaAgrees, ContainersAgree,
     BackendAgrees DEF ReportsAgree
<1>2. QED
  BY <1>1, PTL

----------------------------------------------------------------------------
(* The plans carried out                                                   *)

\* The probes that reply with more than whether a tool is there.
Special == {"cards1", "cards2", "nvidia-smi", "cdi", "rocmAgents", "torch", "kvmAccess", "capture"}

\* A plain probe finds its tool where it is.
LEMMA LookedFor ==
    ASSUME NEW p \in Planners, NEW x, NEW t \in Probes(p) \ Special
    PROVE  At(p, x)[t] <=> t \in x.has
<1>1. At(p, x)[t] = Reply(x, t)
  BY SeenIsReply DEF At
<1>2. Reply(x, t) <=> t \in x.has
  BY DEF Reply, Special
<1>3. QED
  BY <1>1, <1>2

\* What everybody asks for on x.
Asked(x) ==
    UNION {proposal.tools : proposal \in UNION {Proposals(PlanOf(p, At(p, x))) : p \in Planners}}

\* What any of the plans on x asks for.
LEMMA AskedFor ==
    ASSUME NEW x, NEW p \in Planners, NEW id \in DOMAIN PlanOf(p, At(p, x)),
           PlanOf(p, At(p, x))[id].status = "APPLY"
    PROVE  PlanOf(p, At(p, x))[id].tools \subseteq Asked(x)
<1> DEFINE a == [id |-> id, tools |-> PlanOf(p, At(p, x))[id].tools]
<1>1. a \in Proposals(PlanOf(p, At(p, x)))
  BY DEF Proposals
<1>2. a.tools = PlanOf(p, At(p, x))[id].tools
  OBVIOUS
<1>3. QED
  BY <1>1, <1>2 DEF Asked

\* No plan asks for hardware access, nor for ROCm.
Foreign == {"kvm", "kvmModule", "kvmAccess", "rocminfo"}

\* No plan asks for what only the system can grant.
LEMMA NotAskedFor == ASSUME NEW x PROVE Asked(x) \cap Foreign = {}
<1>1. ASSUME NEW p \in Planners, NEW id \in DOMAIN PlanOf(p, At(p, x)) 
      PROVE  PlanOf(p, At(p, x))[id].tools \cap Foreign = {}
  <2> DEFINE s == At(p, x)
  <2> HIDE DEF s
  <2>0. /\ \A status : Do(status, {}).tools \cap Foreign = {}
        /\ \A status : \A t \in {"uv", "fnm", "pnpm", "rustup", "go", "zed", "podman", "distrobox", "nvidia-driver",
               "ollama", "llama-cli", "nvidia-ctk"} : Do(status, {t}).tools \cap Foreign = {}
        /\ \A status : Do(status, {"qemu", "libvirt"}).tools \cap Foreign = {}
    BY DEF Do, Foreign
  <2>1. /\ \A status : Do(status, BASE_TOOLS).tools \cap Foreign = {} /\ Do(status, GIT_TOOLS).tools \cap Foreign = {}
        /\ \A status : Do(status, CPP_TOOLS).tools \cap Foreign = {} /\ Do(status, Baseline).tools \cap Foreign = {}
        /\ \A status : Do(status, HOST_TOOLS).tools \cap Foreign = {}
    BY DEF Do, Foreign, BASE_TOOLS, GIT_TOOLS, CPP_TOOLS, Baseline, HOST_TOOLS
  <2>2. /\ AptGroup(s, GIT_TOOLS).tools \cap Foreign = {} /\ AptGroup(s, CPP_TOOLS).tools \cap Foreign = {}
        /\ AptGroup(s, Baseline).tools \cap Foreign = {} /\ AptGroup(s, HOST_TOOLS).tools \cap Foreign = {}
    BY <2>0, <2>1 DEF AptGroup
  <2>3. \A t \in {"uv", "fnm", "pnpm", "rustup", "go", "zed", "distrobox", "ollama"} :
            InstallTool(s, t).tools \cap Foreign = {}
    BY <2>0 DEF InstallTool
  <2>4. CASE p = "development"
    <3>1. /\ NodeManager(s).tools \cap Foreign = {} /\ Pnpm(s).tools \cap Foreign = {}
          /\ Rust(s).tools \cap Foreign = {} /\ Go(s).tools \cap Foreign = {}
          /\ ContainersAction(s).tools \cap Foreign = {} /\ DistroboxAction(s).tools \cap Foreign = {}
      BY <2>0, <2>3 DEF NodeManager, Pnpm, Rust, Go, ContainersAction, DistroboxAction
    <3>2. \A i \in DevActions : DevPlan(s)[i].tools \cap Foreign = {}
      BY <2>0, <2>1, <2>2, <2>3, <3>1, DevParts DEF DevActions
    <3>3. QED
      BY <2>4, <3>2, Parts, DevParts DEF s
  <2>5. CASE p = "ai"
    <3>1. PyTorch(s).tools \cap Foreign = {}
      <4>1. PyTorch(s).tools = {} \/ \E t \in TorchTools : PyTorch(s).tools = {t}
        <5>1. PyTorch(s).status = "APPLY" \/ PyTorch(s).tools = {}
          BY DEF PyTorch, Do
        <5>2. QED
          BY <5>1, TorchIsCareful
      <4>2. QED
        BY <4>1, Purposeful DEF Foreign
    <3>2. /\ DriverAction(s).tools \cap Foreign = {} /\ CudaToolkitAction(s).tools \cap Foreign = {}
          /\ RocmAction(s).tools \cap Foreign = {} /\ LlamaCpp(s).tools \cap Foreign = {}
          /\ AiContainers(s).tools \cap Foreign = {} /\ NvidiaToolkit(s).tools \cap Foreign = {}
      BY <2>0 DEF DriverAction, CudaToolkitAction, RocmAction, LlamaCpp, AiContainers, NvidiaToolkit
    <3>3. \A i \in AiActions : AiPlanOf(s)[i].tools \cap Foreign = {}
      BY <2>0, <2>1, <2>2, <2>3, <3>1, <3>2, AiParts DEF AiActions
    <3>4. QED
      BY <2>5, <3>3, Parts, AiParts DEF s
  <2>6. CASE p = "cyber"
    <3>1. /\ ToolboxEngine(s).tools \cap Foreign = {} /\ ToolboxDistrobox(s).tools \cap Foreign = {}
          /\ VmPrerequisites(s).tools \cap Foreign = {}
      BY <2>0 DEF ToolboxEngine, ToolboxDistrobox, VmPrerequisites
    <3>2. \A i \in CyberActions : CyberPlanOf(s)[i].tools \cap Foreign = {}
      BY <2>0, <2>2, <3>1, CyberParts DEF CyberActions
    <3>3. QED
      BY <2>6, <3>2, Parts, CyberParts DEF s
  <2>7. QED
    BY <2>4, <2>5, <2>6 DEF Planners
<1>2. \A p \in Planners : \A a \in Proposals(PlanOf(p, At(p, x))) : a.tools \cap Foreign = {}
  BY <1>1 DEF Proposals
<1>3. QED
  BY <1>2 DEF Asked

\* What carrying everything out makes of a machine.
LEMMA Grown ==
    ASSUME NEW x, Machine(x)
    PROVE  /\ Machine(FollowAll(x)) /\ FollowAll(x).cards = x.cards
           /\ (x.has \ TorchTools) \cup Asked(x) \subseteq FollowAll(x).has
           /\ FollowAll(x).has \subseteq x.has \cup Asked(x) \cup {"loaded"}
           /\ Asked(x) \cap TorchTools = {} => x.has \subseteq FollowAll(x).has
           /\ "nvidia-driver" \in FollowAll(x).has => "loaded" \in FollowAll(x).has
<1> DEFINE i == Install(x, Asked(x))
<1>1. /\ Machine(i) /\ i.cards = x.cards
      /\ (x.has \ TorchTools) \cup Asked(x) \subseteq i.has
      /\ i.has \subseteq x.has \cup Asked(x)
      /\ Asked(x) \cap TorchTools = {} => x.has \subseteq i.has
  <2>1. /\ Machine(i) /\ i.cards = x.cards
        /\ i.has = (IF Asked(x) \cap TorchTools # {} THEN x.has \ TorchTools ELSE x.has) \cup Asked(x)
    BY InstallIs
  <2> HIDE DEF i
  <2>2. QED
    BY <2>1
<1>2. FollowAll(x) = Booted(i)
  BY DEF FollowAll, Asked
<1> HIDE DEF i
<1>3. QED
  BY <1>1, <1>2, BootedIs

\* A tool or a group that a plan installs is there when all is carried out.
LEMMA ToolIsThere ==
    ASSUME NEW x, Machine(x),
           NEW p \in Planners, NEW t \in Probes(p) \ (Special \cup TorchTools),
           \/ t \in x.has
           \/ \E id \in DOMAIN PlanOf(p, At(p, x)) :
                PlanOf(p, At(p, x))[id] = InstallTool(At(p, x), t)
    PROVE  t \in FollowAll(x).has
<1>1. CASE t \in x.has
  BY <1>1, Grown
<1>2. CASE t \notin x.has
  <2>1. PICK id \in DOMAIN PlanOf(p, At(p, x)) : PlanOf(p, At(p, x))[id] = InstallTool(At(p, x), t)
    BY <1>2
  <2>2. ~At(p, x)[t]
    BY <1>2, LookedFor
  <2>3. PlanOf(p, At(p, x))[id] = Do("APPLY", {t})
    BY <2>1, <2>2 DEF InstallTool
  <2>4. {t} \subseteq Asked(x)
    BY <2>3, AskedFor DEF Do
  <2>5. QED
    BY <2>4, Grown
<1>3. QED
  BY <1>1, <1>2

\* A group a plan decides on is there once the plans are carried out.
LEMMA GroupIsThere ==
    ASSUME NEW x, Machine(x),
           NEW p \in Planners, NEW G \in SUBSET (Probes(p) \ (Special \cup TorchTools)),
           NEW id \in DOMAIN PlanOf(p, At(p, x)),
           PlanOf(p, At(p, x))[id] = AptGroup(At(p, x), G)
    PROVE  G \subseteq FollowAll(x).has
<1>1. CASE \A t \in G : At(p, x)[t]
  BY <1>1, LookedFor, Grown
<1>2. CASE ~\A t \in G : At(p, x)[t]
  <2>1. PlanOf(p, At(p, x))[id] = Do("APPLY", G)
    BY <1>2 DEF AptGroup
  <2>2. G \subseteq Asked(x)
    BY <2>1, AskedFor DEF Do
  <2>3. QED
    BY <2>2, Grown
<1>3. QED
  BY <1>1, <1>2

\* What is there is not proposed.
LEMMA ToolIsSettled ==
    ASSUME NEW y, NEW p \in Planners, NEW t \in Probes(p) \ Special, t \in y.has
    PROVE  InstallTool(At(p, y), t).status # "APPLY"
BY LookedFor DEF InstallTool, Do

\* A group that is there is not proposed.
LEMMA GroupIsSettled ==
    ASSUME NEW y, NEW p \in Planners, NEW G \in SUBSET (Probes(p) \ Special), G \subseteq y.has
    PROVE  AptGroup(At(p, y), G).status # "APPLY"
BY LookedFor DEF AptGroup, Do

\* The engine, which three planners decide.
LEMMA EngineIsSettled ==
    ASSUME NEW x, Machine(x),
           NEW p \in Planners
    PROVE  ContainersAction(At(p, FollowAll(x))).status # "APPLY"
<1> DEFINE y == FollowAll(x)
<1>1. {"container", "podman", "docker"} \subseteq Probes(p) \ (Special \cup TorchTools)
  BY DevAsks, AiAsks, CyberAsks, Purposeful DEF Planners, Special
<1>2. /\ At(p, x)["container"] <=> "container" \in x.has
      /\ At(p, x)["podman"] <=> "podman" \in x.has
      /\ At(p, x)["docker"] <=> "docker" \in x.has
      /\ At(p, y)["container"] <=> "container" \in y.has
      /\ At(p, y)["podman"] <=> "podman" \in y.has
      /\ At(p, y)["docker"] <=> "docker" \in y.has
  BY <1>1, LookedFor
<1>3. x.has \cap {"container", "podman", "docker"} \subseteq y.has
  BY <1>1, Grown
<1>4. CASE x.has \cap {"container", "podman", "docker"} # {}
  BY <1>2, <1>3, <1>4 DEF ContainersAction, Do
<1>5. CASE x.has \cap {"container", "podman", "docker"} = {}
  <2>1. ContainersAction(At(p, x)) = Do("APPLY", {"podman"})
    BY <1>2, <1>5 DEF ContainersAction
  <2>2. \E id \in DOMAIN PlanOf(p, At(p, x)) : PlanOf(p, At(p, x))[id] = ContainersAction(At(p, x))
    <3>1. /\ AiContainers(At(p, x)) = ContainersAction(At(p, x))
          /\ ToolboxEngine(At(p, x)) = ContainersAction(At(p, x))
      BY DEF AiContainers, ContainersAction, ToolboxEngine
    <3>2. "containers.engine" \in DevActions /\ "containers.engine" \in AiActions /\ "toolbox.engine" \in CyberActions
      BY DEF DevActions, AiActions, CyberActions
    <3>3. QED
      BY <3>1, <3>2, Parts, DevParts, AiParts, CyberParts DEF Planners
  <2>3. {"podman"} \subseteq Asked(x)
    BY <2>1, <2>2, AskedFor DEF Do
  <2>4. "podman" \in y.has
    BY <2>3, Grown
  <2>5. QED
    BY <1>2, <2>4 DEF ContainersAction, Do
<1>6. QED
  BY <1>4, <1>5

\* Once the plans are carried out Distrobox is not proposed again.
LEMMA DistroboxIsSettled ==
    ASSUME NEW x, Machine(x),
           NEW p \in {"development", "cyber"}
    PROVE  DistroboxAction(At(p, FollowAll(x))).status # "APPLY"
<1> DEFINE y == FollowAll(x)
<1>0. p \in Planners
  BY DEF Planners
<1>1. {"container", "distrobox"} \subseteq Probes(p) \ (Special \cup TorchTools)
  BY DevAsks, CyberAsks, Purposeful DEF Planners, Special
<1>2. /\ At(p, x)["container"] <=> "container" \in x.has
      /\ At(p, x)["distrobox"] <=> "distrobox" \in x.has
      /\ At(p, y)["container"] <=> "container" \in y.has
      /\ At(p, y)["distrobox"] <=> "distrobox" \in y.has
  BY <1>0, <1>1, LookedFor
<1>3. x.has \cap {"container", "distrobox"} \subseteq y.has
  BY <1>1, Grown
<1>4. CASE x.has \cap {"container", "distrobox"} # {}
  BY <1>2, <1>3, <1>4 DEF DistroboxAction, InstallTool, Do
<1>5. CASE x.has \cap {"container", "distrobox"} = {}
  <2>1. DistroboxAction(At(p, x)) = Do("APPLY", {"distrobox"})
    BY <1>2, <1>5 DEF DistroboxAction, InstallTool
  <2>2. \E id \in DOMAIN PlanOf(p, At(p, x)) : PlanOf(p, At(p, x))[id] = DistroboxAction(At(p, x))
    <3>1. ToolboxDistrobox(At(p, x)) = DistroboxAction(At(p, x))
      BY DEF DistroboxAction, ToolboxDistrobox, InstallTool
    <3>2. "containers.distrobox" \in DevActions /\ "toolbox.distrobox" \in CyberActions
      BY DEF DevActions, CyberActions
    <3>3. QED
      BY <3>1, <3>2, Parts, DevParts, CyberParts
  <2>3. {"distrobox"} \subseteq Asked(x)
    BY <1>0, <2>1, <2>2, AskedFor DEF Do
  <2>4. "distrobox" \in y.has
    BY <2>3, Grown
  <2>5. QED
    BY <1>2, <2>4 DEF DistroboxAction, InstallTool, Do
<1>6. QED
  BY <1>4, <1>5

\* The Node managers and pnpm, then the packages of a VM.
LEMMA NodeIsSettled ==
    ASSUME NEW x, Machine(x)
    PROVE  LET s == At("development", FollowAll(x))
           IN  NodeManager(s).status # "APPLY" /\ Pnpm(s).status # "APPLY"
<1> DEFINE y == FollowAll(x)
           r == At("development", x)
           s == At("development", y)
<1>1. /\ NodeManagers \cup {"pnpm"} \subseteq Probes("development") \ (Special \cup TorchTools)
      /\ "development" \in Planners
  BY DevAsks, Purposeful DEF Planners, Special, NodeManagers
<1>2. \A t \in NodeManagers \cup {"pnpm"} : (r[t] <=> t \in x.has) /\ (s[t] <=> t \in y.has)
  BY <1>1, LookedFor
<1>3. x.has \cap (NodeManagers \cup {"pnpm"}) \subseteq y.has
  BY <1>1, Grown
<1>4. Managers(r) = NodeManagers \cap x.has /\ Managers(s) = NodeManagers \cap y.has
  BY <1>2 DEF Managers
<1> HIDE DEF r, s, y
<1>5. CASE NodeManagerConflict(r)
  <2>1. NodeManagerConflict(s)
    BY <1>3, <1>4, <1>5 DEF NodeManagerConflict, NodeManagers
  <2>2. QED
    BY <2>1 DEF NodeManager, Pnpm, InstallTool, Do, y, r, s
<1>6. CASE ~NodeManagerConflict(r)
  <2>1. /\ DevPlan(r)["node.manager"] = InstallTool(r, "fnm") /\ DevPlan(r)["node.pnpm"] = InstallTool(r, "pnpm")
        /\ {"node.manager", "node.pnpm"} \subseteq DOMAIN DevPlan(r)
    BY <1>6, DevParts DEF NodeManager, Pnpm, DevActions
  <2>2. "fnm" \in y.has /\ "pnpm" \in y.has
    BY <1>1, <2>1, Parts, ToolIsThere DEF r, y, NodeManagers
  <2>3. s["fnm"] /\ s["pnpm"]
    BY <1>2, <2>2 DEF NodeManagers
  <2>4. QED
    BY <2>3 DEF NodeManager, Pnpm, InstallTool, Do, y, r, s
<1>7. QED
  BY <1>5, <1>6

\* Nor is anything for virtual machines.
LEMMA VmIsSettled ==
    ASSUME NEW x, Machine(x)
    PROVE  VmPrerequisites(At("cyber", FollowAll(x))).status # "APPLY"
<1> DEFINE y == FollowAll(x)
           r == At("cyber", x)
           s == At("cyber", y)
           vm == {"kvm", "kvmModule", "qemu", "libvirt"}
<1>1. /\ vm \subseteq Probes("cyber") \ (Special \cup TorchTools)
      /\ "kvmAccess" \in Probes("cyber") /\ "cyber" \in Planners
      /\ {"kvmUnreadable", "kvmAccess"} \cap TorchTools = {}
  BY CyberAsks, Purposeful DEF Planners, Special
<1>2. \A t \in vm : (r[t] <=> t \in x.has) /\ (s[t] <=> t \in y.has)
  BY <1>1, LookedFor
<1>3. r["kvmAccess"] = KvmAccess(x) /\ s["kvmAccess"] = KvmAccess(y)
  BY <1>1, SeenIsReply DEF At, Reply
<1>4. x.has \cap (vm \cup {"kvmUnreadable", "kvmAccess"}) \subseteq y.has
  BY <1>1, Grown
<1>5. \A t \in {"kvm", "kvmModule", "kvmAccess"} : t \in y.has => t \in x.has
  BY NotAskedFor, Grown DEF Foreign
<1> HIDE DEF r, s, y
<1>6. SUFFICES ASSUME VmPrerequisites(s).status = "APPLY" PROVE FALSE
  BY DEF s, y
<1>7. VmReadiness(s) \in {"needs_qemu", "needs_libvirt"}
  BY <1>6, DoFields DEF VmPrerequisites
<1>8. s["kvm"] /\ s["kvmModule"] /\ s["kvmAccess"] # Unknown /\ s["kvmAccess"] # FALSE
  BY <1>7 DEF VmReadiness
<1>9. ~s["qemu"] \/ ~s["libvirt"]
  BY <1>7 DEF VmReadiness
<1>10. "kvm" \in x.has /\ "kvmModule" \in x.has /\ "kvmAccess" \in x.has /\ "kvmUnreadable" \notin x.has
  BY <1>2, <1>3, <1>4, <1>5, <1>8 DEF KvmAccess
<1>11. r["kvmAccess"] = TRUE
  BY <1>3, <1>10 DEF KvmAccess
<1>12. ~r["qemu"] \/ ~r["libvirt"]
  BY <1>2, <1>4, <1>9
<1>13. r["kvm"] /\ r["kvmModule"]
  BY <1>2, <1>10
<1>14. VmReadiness(r) \in {"needs_qemu", "needs_libvirt"}
  BY <1>11, <1>12, <1>13, UnknownAssumption DEF VmReadiness
<1>15. VmPrerequisites(r) = Do("APPLY", {"qemu", "libvirt"})
  BY <1>14 DEF VmPrerequisites
<1>16. {"qemu", "libvirt"} \subseteq Asked(x)
  <2>1. PlanOf("cyber", At("cyber", x))["vm.prerequisites"] = Do("APPLY", {"qemu", "libvirt"})
    BY <1>15, Parts, CyberParts DEF r
  <2>2. "vm.prerequisites" \in DOMAIN PlanOf("cyber", At("cyber", x))
    BY Parts, CyberParts DEF CyberActions
  <2>3. QED
    BY <1>1, <2>1, <2>2, AskedFor DEF Do
<1>17. "qemu" \in y.has /\ "libvirt" \in y.has
  BY <1>16, Grown DEF y
<1>18. QED
  BY <1>2, <1>9, <1>17

\* All actions but those a second round settles.
LEMMA DevelopmentIsSettled ==
    ASSUME NEW x, Machine(x),
           NEW id \in DevActions \ {"base.apt_packages"}
    PROVE  DevPlan(At("development", FollowAll(x)))[id].status # "APPLY"
<1> DEFINE y == FollowAll(x)
           s == At("development", y)
           tools == {"uv", "rustup", "go", "zed"}
<1>1. /\ tools \cup GIT_TOOLS \cup CPP_TOOLS \subseteq Probes("development") \ (Special \cup TorchTools)
      /\ "development" \in Planners
  BY DevAsks, Purposeful DEF Planners, Special, GIT_TOOLS, CPP_TOOLS
<1>2. tools \subseteq y.has
  <2>1. /\ DevPlan(At("development", x))["python.uv"] = InstallTool(At("development", x), "uv")
        /\ DevPlan(At("development", x))["rust.rustup"] = InstallTool(At("development", x), "rustup")
        /\ DevPlan(At("development", x))["go.toolchain"] = InstallTool(At("development", x), "go")
        /\ DevPlan(At("development", x))["editor.zed"] = InstallTool(At("development", x), "zed")
        /\ {"python.uv", "rust.rustup", "go.toolchain", "editor.zed"} \subseteq
               DOMAIN DevPlan(At("development", x))
    BY DevParts DEF Rust, Go, DevActions
  <2>2. \A t \in tools : \E i \in DOMAIN DevPlan(At("development", x)) :
            DevPlan(At("development", x))[i] = InstallTool(At("development", x), t)
    BY <2>1
  <2>3. QED
    BY <1>1, <2>2, Parts, ToolIsThere
<1>3. GIT_TOOLS \subseteq y.has /\ CPP_TOOLS \subseteq y.has
  <2>1. /\ DevPlan(At("development", x))["git.apt_packages"] = AptGroup(At("development", x), GIT_TOOLS)
        /\ DevPlan(At("development", x))["cpp.toolchain"] = AptGroup(At("development", x), CPP_TOOLS)
        /\ {"git.apt_packages", "cpp.toolchain"} \subseteq DOMAIN DevPlan(At("development", x))
    BY DevParts DEF DevActions
  <2>2. QED
    BY <1>1, <2>1, Parts, GroupIsThere
<1>4. \A t \in tools : InstallTool(s, t).status # "APPLY"
  BY <1>1, <1>2, ToolIsSettled
<1>5. AptGroup(s, GIT_TOOLS).status # "APPLY" /\ AptGroup(s, CPP_TOOLS).status # "APPLY"
  BY <1>1, <1>3, GroupIsSettled
<1>6. NodeManager(s).status # "APPLY" /\ Pnpm(s).status # "APPLY"
  BY NodeIsSettled
<1>7. ContainersAction(s).status # "APPLY" /\ DistroboxAction(s).status # "APPLY"
  BY <1>1, EngineIsSettled, DistroboxIsSettled
<1> HIDE DEF s, y
<1>8. DevPlan(s)[id].status # "APPLY"
  BY <1>4, <1>5, <1>6, <1>7, DevParts, DoFields DEF DevActions, Rust, Go
<1>9. QED
  BY <1>8 DEF s, y

\* Nor is any other action of the cyber planner.
LEMMA CyberIsSettled ==
    ASSUME NEW x, Machine(x),
           NEW id \in CyberActions
    PROVE  CyberPlanOf(At("cyber", FollowAll(x)))[id].status # "APPLY"
<1> DEFINE y == FollowAll(x)
           s == At("cyber", y)
<1>1. HOST_TOOLS \subseteq Probes("cyber") \ (Special \cup TorchTools) /\ "cyber" \in Planners
  BY CyberAsks, Purposeful DEF Planners, Special, HOST_TOOLS
<1>2. HOST_TOOLS \subseteq y.has
  <2>1. /\ CyberPlanOf(At("cyber", x))["host.baseline"] = AptGroup(At("cyber", x), HOST_TOOLS)
        /\ "host.baseline" \in DOMAIN CyberPlanOf(At("cyber", x))
    BY CyberParts DEF CyberActions
  <2>2. QED
    BY <1>1, <2>1, Parts, GroupIsThere
<1>3. AptGroup(s, HOST_TOOLS).status # "APPLY"
  BY <1>1, <1>2, GroupIsSettled
<1>4. ContainersAction(s).status # "APPLY" /\ DistroboxAction(s).status # "APPLY"
  BY <1>1, EngineIsSettled, DistroboxIsSettled
<1>5. VmPrerequisites(s).status # "APPLY"
  BY VmIsSettled
<1> HIDE DEF s, y
<1>6. ToolboxEngine(s) = ContainersAction(s) /\ ToolboxDistrobox(s) = DistroboxAction(s)
  BY DEF ToolboxEngine, ContainersAction, ToolboxDistrobox, DistroboxAction, InstallTool
<1>7. CyberPlanOf(s)[id].status # "APPLY"
  BY <1>3, <1>4, <1>5, <1>6, CyberParts, DoFields DEF CyberActions
<1>8. QED
  BY <1>7 DEF s, y

\* After a boot the driver of every card runs.
LEMMA DriverIsSettled ==
    ASSUME NEW x, Machine(x)
    PROVE  NvidiaPresent(x.cards) => DriverRuns(FollowAll(x))
<1> SUFFICES ASSUME NvidiaPresent(x.cards) PROVE DriverRuns(FollowAll(x))
  OBVIOUS
<1> DEFINE r == At("ai", x)
<1>1. r["nvidia-smi"] = DriverRuns(x) /\ r["cards1"] = x.cards
  <2>1. {"nvidia-smi", "cards1"} \subseteq Probes("ai") /\ "ai" \in Planners
    BY AiAsks DEF Planners
  <2>2. QED
    BY <2>1, SeenIsReply DEF At, Reply
<1>2. "nvidia-driver" \notin TorchTools /\ "loaded" \notin TorchTools
  BY Purposeful
<1>3. CASE DriverRuns(x)
  BY <1>2, <1>3, Grown DEF DriverRuns
<1>4. CASE ~DriverRuns(x)
  <2>1. PlanOf("ai", r)["nvidia.driver"] = Do("APPLY", {"nvidia-driver"})
    <3> HIDE DEF r
    <3>1. DriverAction(r) = Do("APPLY", {"nvidia-driver"})
      BY <1>1, <1>4 DEF DriverAction, NvidiaHardware, DriverWorks
    <3>2. QED
      BY <3>1, Parts, AiParts
  <2>2. "nvidia.driver" \in DOMAIN PlanOf("ai", r) /\ "ai" \in Planners
    BY Parts, AiParts DEF AiActions, Planners
  <2>3. {"nvidia-driver"} \subseteq Asked(x)
    BY <2>1, <2>2, AskedFor DEF Do
  <2>4. QED
    BY <2>3, Grown DEF DriverRuns
<1>5. QED
  BY <1>3, <1>4

\* Nor is any action of the AI planner but two, which wait for a boot with the
\* driver.
LEMMA AiIsSettled ==
    ASSUME NEW x, Machine(x),
           NEW id \in AiActions \ {"python.pytorch", "containers.nvidia_toolkit"}
    PROVE  AiPlanOf(At("ai", FollowAll(x)))[id].status # "APPLY"
<1> DEFINE y == FollowAll(x)
           r == At("ai", x)
           s == At("ai", y)
<1>1. /\ Baseline \cup {"ollama", "llama-cli", "llama-server"} \subseteq Probes("ai") \ (Special \cup TorchTools)
      /\ {"nvidia-smi", "cards1"} \subseteq Probes("ai")
      /\ "ai" \in Planners
  BY AiAsks, Purposeful DEF Planners, Special, Baseline
<1>2. AptGroup(s, Baseline).status # "APPLY"
  <2>1. /\ PlanOf("ai", r)["python.transformers_baseline"] = AptGroup(r, Baseline)
        /\ "python.transformers_baseline" \in DOMAIN PlanOf("ai", r)
    BY Parts, AiParts DEF AiActions
  <2>2. Baseline \subseteq y.has
    BY <1>1, <2>1, GroupIsThere
  <2>3. QED
    BY <1>1, <2>2, GroupIsSettled
<1>3. InstallTool(s, "ollama").status # "APPLY"
  <2>1. /\ PlanOf("ai", r)["inference.ollama"] = InstallTool(r, "ollama")
        /\ "inference.ollama" \in DOMAIN PlanOf("ai", r)
    BY Parts, AiParts DEF AiActions
  <2>2. "ollama" \in y.has
    BY <1>1, <2>1, ToolIsThere
  <2>3. QED
    BY <1>1, <2>2, ToolIsSettled
<1>4. LlamaCpp(s).status # "APPLY"
  <2>1. \A t \in {"llama-cli", "llama-server"} : (r[t] <=> t \in x.has) /\ (s[t] <=> t \in y.has)
    BY <1>1, LookedFor
  <2>2. CASE {"llama-cli", "llama-server"} \cap x.has # {}
    <3>1. {"llama-cli", "llama-server"} \cap y.has # {}
      BY <1>1, <2>2, Grown
    <3>2. QED
      BY <2>1, <3>1 DEF LlamaCpp, Do
  <2>3. CASE {"llama-cli", "llama-server"} \cap x.has = {}
    <3>1. LlamaCpp(r) = Do("APPLY", {"llama-cli"})
      BY <2>1, <2>3 DEF LlamaCpp
    <3>2. /\ PlanOf("ai", r)["inference.llama_cpp"] = Do("APPLY", {"llama-cli"})
          /\ "inference.llama_cpp" \in DOMAIN PlanOf("ai", r)
      BY <3>1, Parts, AiParts DEF AiActions
    <3>3. {"llama-cli"} \subseteq Asked(x)
      BY <1>1, <3>2, AskedFor DEF Do
    <3>4. "llama-cli" \in y.has
      BY <3>3, Grown
    <3>5. QED
      BY <2>1, <3>4 DEF LlamaCpp, Do
  <2>4. QED
    BY <2>2, <2>3
<1>5. DriverAction(s).status # "APPLY"
  <2>1. s["nvidia-smi"] = DriverRuns(y) /\ s["cards1"] = y.cards
    BY <1>1, SeenIsReply DEF At, Reply
  <2>2. y.cards = x.cards
    BY Grown
  <2>3. QED
    BY <2>1, <2>2, DriverIsSettled DEF DriverAction, NvidiaHardware, DriverWorks, Do
<1>6. ContainersAction(s).status # "APPLY"
  BY <1>1, EngineIsSettled
<1> HIDE DEF r, s, y
<1>7. AiContainers(s) = ContainersAction(s)
  BY DEF AiContainers, ContainersAction
<1>8. CudaToolkitAction(s).status # "APPLY" /\ RocmAction(s).status # "APPLY"
  BY DEF CudaToolkitAction, RocmAction, Do
<1>9. AiPlanOf(s)[id].status # "APPLY"
  BY <1>2, <1>3, <1>4, <1>5, <1>6, <1>7, <1>8, AiParts, DoFields DEF AiActions
<1>10. QED
  BY <1>9 DEF s, y

\* What only a second round settles: y is what a first one left.
LEMMA ToolkitIsSettled ==
    ASSUME NEW y, Machine(y),
           NvidiaPresent(y.cards) => DriverRuns(y)
    PROVE  NvidiaToolkit(At("ai", FollowAll(y))).status # "APPLY"
<1> DEFINE z == FollowAll(y)
           r == At("ai", y)
           s == At("ai", z)
<1>1. /\ {"container", "nvidia-ctk"} \subseteq Probes("ai") \ (Special \cup TorchTools)
      /\ {"nvidia-smi", "cards1"} \subseteq Probes("ai") /\ "ai" \in Planners
  BY AiAsks, Purposeful DEF Planners, Special
<1>2. \A t \in {"container", "nvidia-ctk"} : (r[t] <=> t \in y.has) /\ (s[t] <=> t \in z.has)
  BY <1>1, LookedFor
<1>3. r["nvidia-smi"] = DriverRuns(y) /\ r["cards1"] = y.cards /\ s["cards1"] = z.cards
  BY <1>1, SeenIsReply DEF At, Reply
<1>4. {"container", "nvidia-ctk"} \cap y.has \subseteq z.has /\ z.cards = y.cards
  BY <1>1, Grown
<1>5. CASE {"container", "nvidia-ctk"} \cap y.has # {} \/ ~NvidiaPresent(y.cards)
  <2> HIDE DEF r, s, z
  <2>1. NvidiaToolkit(s).status # "APPLY"
    BY <1>2, <1>3, <1>4, <1>5, CardsOfVendors DEF NvidiaToolkit, Do
  <2>2. QED
    BY <2>1 DEF s, z
<1>6. CASE {"container", "nvidia-ctk"} \cap y.has = {} /\ NvidiaPresent(y.cards)
  <2>1. NvidiaToolkit(r) = Do("APPLY", {"nvidia-ctk"})
    <3> HIDE DEF r, s, z
    <3>1. QED
      BY <1>2, <1>3, <1>6, CardsOfVendors DEF NvidiaToolkit, DriverWorks
  <2>2. /\ PlanOf("ai", r)["containers.nvidia_toolkit"] = Do("APPLY", {"nvidia-ctk"})
        /\ "containers.nvidia_toolkit" \in DOMAIN PlanOf("ai", r)
    BY <2>1, Parts, AiParts DEF AiActions
  <2>3. {"nvidia-ctk"} \subseteq Asked(y)
    BY <1>1, <2>2, AskedFor DEF Do
  <2>4. "nvidia-ctk" \in z.has
    BY <2>3, Grown
  <2>5. QED
    BY <1>2, <2>4 DEF NvidiaToolkit, Do
<1>7. QED
  BY <1>5, <1>6

\* A build of PyTorch that is chosen after the first round is installed in the
\* second; until then it is held back by the same replies.
LEMMA TorchIsSettled ==
    ASSUME NEW y, Machine(y),
           NvidiaPresent(y.cards) => DriverRuns(y)
    PROVE  PyTorch(At("ai", FollowAll(y))).status # "APPLY"
<1> DEFINE z == FollowAll(y)
           r == At("ai", y)
           s == At("ai", z)
<1>1. /\ "rocminfo" \in Probes("ai") \ (Special \cup TorchTools)
      /\ {"nvidia-smi", "cards1", "torch", "rocmAgents"} \subseteq Probes("ai") /\ "ai" \in Planners
      /\ "rocmSupports" \notin TorchTools
  BY AiAsks, Purposeful DEF Planners, Special
<1>2. (r["rocminfo"] <=> "rocminfo" \in y.has) /\ (s["rocminfo"] <=> "rocminfo" \in z.has)
  BY <1>1, LookedFor
<1>3. /\ r["nvidia-smi"] = DriverRuns(y) /\ r["cards1"] = y.cards /\ s["cards1"] = z.cards
      /\ r["torch"] = Torch(y) /\ s["torch"] = Torch(z)
  BY <1>1, SeenIsReply DEF At, Reply
<1>4. /\ r["rocmAgents"] = ("rocmSupports" \in y.has /\ OfVendor(y.cards, "AMD"))
      /\ s["rocmAgents"] = ("rocmSupports" \in z.has /\ OfVendor(z.cards, "AMD"))
  BY <1>1, SeenIsReply DEF At, Reply
<1>5. /\ z.cards = y.cards
      /\ "rocminfo" \in z.has => "rocminfo" \in y.has
      /\ "rocmSupports" \in y.has => "rocmSupports" \in z.has
      /\ Asked(y) \subseteq z.has
      /\ Asked(y) \cap TorchTools = {} => y.has \subseteq z.has
  BY <1>1, Grown, NotAskedFor DEF Foreign
<1>6. SUFFICES ASSUME PyTorch(s).status = "APPLY" PROVE FALSE
  OBVIOUS
<1>7. TorchTools \cap z.has = {} /\ Select(s).status # "BLOCKED"
  <2>1. Torch(z) = Unknown /\ Select(s).status # "BLOCKED"
    BY <1>3, <1>6 DEF PyTorch, Do
  <2>2. QED
    BY <2>1, NoTorch
<1>8. Asked(y) \cap TorchTools = {} /\ TorchTools \cap y.has = {}
  BY <1>5, <1>7
<1>9. Torch(y) = Unknown
  BY <1>8, NoTorch DEF Torch
<1>10. PyTorch(r).status # "APPLY"
  <2> SUFFICES ASSUME PyTorch(r).status = "APPLY" PROVE FALSE
    OBVIOUS
  <2>1. /\ PlanOf("ai", r)["python.pytorch"] = PyTorch(r)
        /\ "python.pytorch" \in DOMAIN PlanOf("ai", r)
    BY Parts, AiParts DEF AiActions
  <2>2. PyTorch(r).tools \subseteq Asked(y)
    BY <1>1, <2>1, AskedFor
  <2>3. \E t \in TorchTools : PyTorch(r).tools = {t}
    BY TorchIsCareful
  <2>4. QED
    BY <1>8, <2>2, <2>3
<1>11. Select(r).status = "BLOCKED"
  BY <1>3, <1>9, <1>10 DEF PyTorch, Do
<1> HIDE DEF r, s, z
<1>12. Primary(r) = Primary(s)
  BY <1>3, <1>5 DEF Primary
<1>13. CASE Primary(r) = "nvidia_cuda"
  <2>1. DriverRuns(y)
    BY <1>3, <1>13, CardsOfVendors DEF Primary
  <2>2. QED
    BY <1>3, <1>11, <1>13, <2>1 DEF Select, Decision, DriverWorks
<1>14. CASE Primary(r) = "amd_rocm"
  <2>1. RocmEnumerated(r) # FALSE
    BY <1>11, <1>14 DEF Select, Decision
  <2>2. RocmEnumerated(s) = FALSE
    BY <1>7, <1>12, <1>14 DEF Select, Decision
  <2>3. s["rocminfo"] /\ s["rocmAgents"] = FALSE
    BY <2>2, UnknownAssumption DEF RocmEnumerated
  <2>4. r["rocminfo"] /\ r["rocmAgents"] # FALSE
    BY <1>2, <1>5, <2>1, <2>3 DEF RocmEnumerated
  <2>5. QED
    BY <1>4, <1>5, <2>3, <2>4
<1>15. CASE Primary(r) = "intel_gpu"
  BY <1>7, <1>12, <1>15 DEF Select, Decision
<1>16. CASE Primary(r) \notin {"nvidia_cuda", "amd_rocm", "intel_gpu"}
  BY <1>11, <1>16 DEF Select, Decision
<1>17. QED
  BY <1>13, <1>14, <1>15, <1>16

\* On every machine, two rounds of everything the three plans propose leave
\* nothing to propose but the base packages.
THEOREM PlanSettles == Spec => []PlansSettle
<1>1. IInv => PlansSettle
  <2> SUFFICES ASSUME IInv, NEW p \in Planners
               PROVE  {proposal.id : proposal \in Proposals(PlanOf(p, At(p, FollowAll(FollowAll(m)))))}
                          \subseteq {"base.apt_packages"}
    BY DEF PlansSettle
  <2> DEFINE y == FollowAll(m)
             s == At(p, FollowAll(y))
  <2>1. Machine(m) /\ Machine(y) /\ y.cards = m.cards
    BY Grown DEF IInv, Shaped
  <2>2. NvidiaPresent(y.cards) => DriverRuns(y)
    BY <2>1, DriverIsSettled
  <2>3. ASSUME NEW id \in DOMAIN PlanOf(p, s), id # "base.apt_packages"
        PROVE  PlanOf(p, s)[id].status # "APPLY"
    <3>1. CASE p = "development"
      BY <2>1, <2>3, <3>1, DevelopmentIsSettled, Parts, DevParts
    <3>2. CASE p = "cyber"
      BY <2>1, <2>3, <3>2, CyberIsSettled, Parts, CyberParts
    <3>3. CASE p = "ai"
      <4>1. CASE id = "python.pytorch"
        BY <2>1, <2>2, <3>3, <4>1, TorchIsSettled, Parts, AiParts
      <4>2. CASE id = "containers.nvidia_toolkit"
        BY <2>1, <2>2, <3>3, <4>2, ToolkitIsSettled, Parts, AiParts
      <4>3. CASE id \notin {"python.pytorch", "containers.nvidia_toolkit"}
        BY <2>1, <2>3, <3>3, <4>3, AiIsSettled, Parts, AiParts
      <4>4. QED
        BY <4>1, <4>2, <4>3
    <3>4. QED
      BY <3>1, <3>2, <3>3 DEF Planners
  <2> HIDE DEF s, y
  <2>4. QED
    BY <2>3 DEF Proposals, s, y
<1>2. QED
  BY <1>1, Invariance, PTL

----------------------------------------------------------------------------
(* Plans of two moments, and with a timeout                                *)

\* What has to be on the machine, or not, for a probe to reply as it does.
Depends(probe) ==
    IF probe \in {"cards1", "cards2"} THEN {}
    ELSE IF probe = "nvidia-smi" THEN {"nvidia-driver", "loaded"}
    ELSE IF probe = "cdi"        THEN {"nvidia-ctk", "nvidia-driver", "loaded"}
    ELSE IF probe = "rocmAgents" THEN {"rocmSupports"}
    ELSE IF probe = "torch"      THEN TorchTools
    ELSE IF probe = "kvmAccess"  THEN {"kvmUnreadable", "kvm", "kvmAccess"}
    ELSE IF probe = "capture"    THEN {"captureDenied", "captureAllowed"}
    ELSE {probe}

\* Where that is the same the probe replies the same.
LEMMA ReplyDepends ==
    ASSUME NEW x, NEW y, x.cards = y.cards, NEW probe,
           \A n \in Depends(probe) : n \in x.has <=> n \in y.has
    PROVE  Reply(x, probe) = Reply(y, probe)
<1>1. CASE probe \in {"cards1", "cards2"}
  BY <1>1 DEF Reply
<1>2. CASE probe \in {"nvidia-smi", "cdi"}
  <2>1. DriverRuns(x) <=> DriverRuns(y)
    BY <1>2 DEF Depends, DriverRuns
  <2>2. CASE probe = "nvidia-smi"
    <3>1. Reply(x, probe) = DriverRuns(x) /\ Reply(y, probe) = DriverRuns(y)
      BY <2>2 DEF Reply
    <3>2. DriverRuns(x) \in BOOLEAN /\ DriverRuns(y) \in BOOLEAN
      BY DEF DriverRuns
    <3>3. QED
      BY <2>1, <3>1, <3>2
  <2>3. CASE probe = "cdi"
    <3>1. Reply(x, probe) = CdiResolved(x) /\ Reply(y, probe) = CdiResolved(y)
      BY <2>3 DEF Reply
    <3>2. CdiResolved(x) \in BOOLEAN /\ CdiResolved(y) \in BOOLEAN
      BY DEF CdiResolved
    <3>3. CdiResolved(x) <=> CdiResolved(y)
      BY <2>1, <2>3 DEF Depends, CdiResolved
    <3>4. QED
      BY <3>1, <3>2, <3>3
  <2>4. QED
    BY <1>2, <2>2, <2>3
<1>3. CASE probe = "rocmAgents"
  <2>1. "rocmSupports" \in x.has <=> "rocmSupports" \in y.has
    BY <1>3 DEF Depends
  <2>2. QED
    BY <1>3, <2>1 DEF Reply
<1>4. CASE probe = "torch"
  <2>1. \A n \in TorchTools : n \in x.has <=> n \in y.has
    BY <1>4 DEF Depends
  <2>2. Builds(x) = Builds(y)
    BY <2>1 DEF Builds, TorchTools
  <2>3. QED
    BY <1>4, <2>2, SameTorch DEF Reply
<1>5. CASE probe = "kvmAccess"
  <2>1. \A n \in {"kvmUnreadable", "kvm", "kvmAccess"} : n \in x.has <=> n \in y.has
    BY <1>5 DEF Depends
  <2>2. KvmAccess(x) = KvmAccess(y)
    <3>1. CASE "kvmUnreadable" \in x.has
      BY <2>1, <3>1 DEF KvmAccess
    <3>2. CASE "kvmUnreadable" \notin x.has
      <4>1. ({"kvm", "kvmAccess"} \subseteq x.has) <=> ({"kvm", "kvmAccess"} \subseteq y.has)
        BY <2>1
      <4>2. QED
        BY <2>1, <3>2, <4>1 DEF KvmAccess
    <3>3. QED
      BY <3>1, <3>2
  <2>3. QED
    BY <1>5, <2>2 DEF Reply
<1>6. CASE probe = "capture"
  BY <1>6 DEF Reply, Depends, CapturePermitted
<1>7. CASE probe \notin Special
  <2>1. probe \in x.has <=> probe \in y.has
    BY <1>7 DEF Depends, Special
  <2>2. Reply(x, probe) = (probe \in x.has) /\ Reply(y, probe) = (probe \in y.has)
    BY <1>7 DEF Reply, Special
  <2>3. QED
    BY <2>1, <2>2
<1>8. QED
  BY <1>1, <1>2, <1>3, <1>4, <1>5, <1>6, <1>7 DEF Special

\* Every reply of an invocation is that of one of the two moments.
LEMMA SeenThen ==
    ASSUME NEW p \in Planners, NEW x, NEW y, NEW k, NEW probe \in Probes(p)
    PROVE  Seen(p, x, y, k, {})[probe] \in {At(p, x)[probe], At(p, y)[probe]}
BY DEF Seen, At

\* What replies the same to every probe is the same to a planner.
LEMMA Extensional ==
    ASSUME NEW p \in Planners, NEW x, NEW y, NEW k, NEW late, NEW z,
           \A probe \in Probes(p) : Seen(p, x, y, k, late)[probe] = At(p, z)[probe]
    PROVE  Seen(p, x, y, k, late) = At(p, z)
<1> DEFINE f == Seen(p, x, y, k, late)
           g == At(p, z)
<1>1. f = [probe \in Probes(p) |-> f[probe]] /\ g = [probe \in Probes(p) |-> g[probe]]
  BY DEF Seen, At
<1>2. \A probe \in Probes(p) : f[probe] = g[probe]
  OBVIOUS
<1> HIDE DEF f, g
<1>3. f = g
  BY <1>1, <1>2
<1>4. QED
  BY <1>3 DEF f, g

\* No action of the AI plan asks whether CDI resolves.
LEMMA CdiDecidesNothing ==
    ASSUME NEW s, NEW r, \A probe \in Probes("ai") \ {"cdi"} : s[probe] = r[probe], NEW id \in AiActions
    PROVE  AiPlanOf(s)[id] = AiPlanOf(r)[id]
<1>1. \A probe \in {"cards1", "cards2", "nvidia-smi", "nvcc", "rocminfo", "rocmAgents", "torch", "ollama",
                    "llama-cli", "llama-server", "podman", "docker", "nvidia-ctk", "container"} \cup Baseline :
          s[probe] = r[probe]
  BY AiAsks DEF Baseline
<1>2. /\ DriverAction(s) = DriverAction(r) /\ CudaToolkitAction(s) = CudaToolkitAction(r)
      /\ RocmAction(s) = RocmAction(r) /\ LlamaCpp(s) = LlamaCpp(r)
  BY <1>1 DEF DriverAction, NvidiaHardware, DriverWorks, CudaToolkitAction, RocmAction, LlamaCpp
<1>3. AiContainers(s) = AiContainers(r) /\ NvidiaToolkit(s) = NvidiaToolkit(r)
  BY <1>1 DEF AiContainers, NvidiaToolkit, DriverWorks
<1>4. InstallTool(s, "ollama") = InstallTool(r, "ollama")
  BY <1>1 DEF InstallTool
<1>5. AptGroup(s, Baseline) = AptGroup(r, Baseline)
  BY <1>1 DEF AptGroup
<1>6. PyTorch(s) = PyTorch(r)
  <2>1. Primary(s) = Primary(r) /\ DriverWorks(s) = DriverWorks(r)
    BY <1>1 DEF Primary, DriverWorks
  <2>2. RocmEnumerated(s) = RocmEnumerated(r)
    BY <1>1 DEF RocmEnumerated
  <2>3. Select(s) = Select(r)
    BY <2>1, <2>2 DEF Select
  <2>4. QED
    BY <1>1, <2>3 DEF PyTorch
<1>7. QED
  BY <1>2, <1>3, <1>4, <1>5, <1>6, AiParts DEF AiActions

\* Where one probe replied otherwise before the change than after it (and CDI
\* may have), the plan is that of one of the moments.
LEMMA OneProbeDiffers ==
    ASSUME NEW p \in Planners, NEW x, NEW y, NEW k, NEW d,
           \A probe \in Probes(p) \ {d, "cdi"} : Reply(x, probe) = Reply(y, probe),
           NEW id \in DOMAIN PlanOf(p, At(p, x))
    PROVE  PlanOf(p, Seen(p, x, y, k, {}))[id] \in {PlanOf(p, At(p, x))[id], PlanOf(p, At(p, y))[id]}
<1> DEFINE s == Seen(p, x, y, k, {})
<1>1. \A probe \in Probes(p) : s[probe] \in {At(p, x)[probe], At(p, y)[probe]}
  BY SeenThen
<1>2. \A probe \in Probes(p) \ {d, "cdi"} : At(p, x)[probe] = At(p, y)[probe]
  BY SeenIsReply DEF At
<1> HIDE DEF s
<1>3. PICK w \in {x, y} : d \in Probes(p) => s[d] = At(p, w)[d]
  BY <1>1
<1>4. \A probe \in Probes(p) \ {"cdi"} : s[probe] = At(p, w)[probe]
  BY <1>1, <1>2, <1>3
<1>5. CASE p = "ai"
  <2>1. id \in AiActions
    BY <1>5, Parts, AiParts
  <2>2. AiPlanOf(s)[id] = AiPlanOf(At(p, w))[id]
    BY <1>4, <1>5, <2>1, CdiDecidesNothing
  <2>3. QED
    BY <1>5, <2>2, Parts DEF s
<1>6. CASE p # "ai"
  <2>1. "cdi" \notin Probes(p)
    BY <1>6, DevAsks, CyberAsks DEF Planners, CPP_TOOLS, HOST_TOOLS
  <2>2. s = At(p, w)
    BY <1>4, <2>1, Extensional DEF s
  <2>3. QED
    BY <2>2 DEF s
<1>7. QED
  BY <1>5, <1>6

\* kvm decides two probes, the device and the access to it.  What is seen
\* between the two is held back or is that of one moment.
LEMMA KvmAppears ==
    ASSUME NEW x, NEW y, x.cards = y.cards, \A n : n # "kvm" => (n \in x.has <=> n \in y.has),
           NEW k, NEW id \in CyberActions
    PROVE  LET action == CyberPlanOf(Seen("cyber", x, y, k, {}))[id] IN
           \/ action \in {CyberPlanOf(At("cyber", x))[id], CyberPlanOf(At("cyber", y))[id]}
           \/ HoldsBack(action)
<1> DEFINE s == Seen("cyber", x, y, k, {})
<1>1. "cyber" \in Planners /\ {"kvm", "kvmAccess"} \subseteq Probes("cyber")
  BY CyberAsks DEF Planners
<1>2. \A probe \in Probes("cyber") \ {"kvm", "kvmAccess"} : s[probe] = At("cyber", x)[probe]
                                                           /\ s[probe] = At("cyber", y)[probe]
  <2>1. \A probe \in Probes("cyber") \ {"kvm", "kvmAccess"} : "kvm" \notin Depends(probe)
    BY Purposeful DEF Depends
  <2>2. \A probe \in Probes("cyber") \ {"kvm", "kvmAccess"} : Reply(x, probe) = Reply(y, probe)
    BY <2>1, ReplyDepends
  <2>3. \A probe \in Probes("cyber") \ {"kvm", "kvmAccess"} : At("cyber", x)[probe] = At("cyber", y)[probe]
    BY <1>1, <2>2, SeenIsReply DEF At
  <2>4. QED
    BY <1>1, <2>3, SeenThen
<1>3. /\ s["kvm"] \in {At("cyber", x)["kvm"], At("cyber", y)["kvm"]}
      /\ s["kvmAccess"] \in {At("cyber", x)["kvmAccess"], At("cyber", y)["kvmAccess"]}
  BY <1>1, SeenThen
<1>4. \A w : (At("cyber", w)["kvm"] <=> "kvm" \in w.has) /\ At("cyber", w)["kvmAccess"] = KvmAccess(w)
  <2>1. \A w : At("cyber", w)["kvmAccess"] = KvmAccess(w)
    BY <1>1, SeenIsReply DEF At, Reply
  <2>2. "kvm" \in Probes("cyber") \ Special
    BY <1>1 DEF Special
  <2>3. QED
    BY <1>1, <2>1, <2>2, LookedFor
<1> HIDE DEF s
<1>5. CASE VmPrerequisites(s).status # "APPLY"
  <2>1. CASE id = "vm.prerequisites"
    BY <1>5, <2>1, CyberParts DEF HoldsBack, s
  <2>2. CASE id # "vm.prerequisites"
    <3> DEFINE r == At("cyber", x)
    <3>1. \A probe \in HOST_TOOLS \cup {"container", "podman", "docker", "distrobox"} : s[probe] = r[probe]
      BY <1>2, CyberAsks DEF HOST_TOOLS
    <3> HIDE DEF r
    <3>2. AptGroup(s, HOST_TOOLS) = AptGroup(r, HOST_TOOLS)
      BY <3>1 DEF AptGroup
    <3>3. ToolboxEngine(s) = ToolboxEngine(r) /\ ToolboxDistrobox(s) = ToolboxDistrobox(r)
      BY <3>1 DEF ToolboxEngine, ToolboxDistrobox
    <3>4. CyberPlanOf(s)[id] = CyberPlanOf(r)[id]
      BY <2>2, <3>2, <3>3, CyberParts DEF CyberActions
    <3>5. QED
      BY <3>4 DEF r, s
  <2>3. QED
    BY <2>1, <2>2
<1>6. CASE VmPrerequisites(s).status = "APPLY"
  <2>1. VmReadiness(s) \in {"needs_qemu", "needs_libvirt"}
    BY <1>6, DoFields DEF VmPrerequisites
  <2>2. s["kvm"] /\ s["kvmAccess"] # Unknown /\ s["kvmAccess"] # FALSE
    BY <2>1 DEF VmReadiness
  <2>3. PICK w \in {x, y} : s["kvmAccess"] = KvmAccess(w)
    BY <1>3, <1>4
  <2>4. KvmAccess(w) = TRUE /\ "kvm" \in w.has
    BY <2>2, <2>3 DEF KvmAccess
  <2>5. s["kvm"] = At("cyber", w)["kvm"]
    <3>1. PICK v \in {x, y} : s["kvm"] = At("cyber", v)["kvm"]
      BY <1>3
    <3>2. "kvm" \in v.has
      BY <1>4, <2>2, <3>1
    <3>3. At("cyber", v)["kvm"] = At("cyber", w)["kvm"]
      <4>1. Reply(v, "kvm") = Reply(w, "kvm")
        BY <2>4, <3>2 DEF Reply
      <4>2. QED
        BY <1>1, <4>1, SeenIsReply DEF At
    <3>4. QED
      BY <3>1, <3>3
  <2>6. s["kvmAccess"] = At("cyber", w)["kvmAccess"]
    BY <1>4, <2>3
  <2>7. \A probe \in Probes("cyber") : s[probe] = At("cyber", w)[probe]
    BY <1>2, <2>5, <2>6
  <2>8. s = At("cyber", w)
    BY <1>1, <2>7, Extensional DEF s
  <2>9. QED
    BY <2>8 DEF s
<1>7. QED
  BY <1>5, <1>6

\* One tool comes or goes during the probes.
LEMMA ToolTorn ==
    ASSUME NEW p \in Planners, NEW x, NEW y, x.cards = y.cards,
           NEW t, t \notin TorchTools, \A n : n # t => (n \in x.has <=> n \in y.has),
           NEW k, NEW id \in DOMAIN PlanOf(p, At(p, x))
    PROVE  LET action == PlanOf(p, Seen(p, x, y, k, {}))[id] IN
           \/ action \in {PlanOf(p, At(p, x))[id], PlanOf(p, At(p, y))[id]}
           \/ HoldsBack(action)
<1>1. CASE p = "cyber" /\ t = "kvm"
  <2>1. id \in CyberActions
    BY <1>1, Parts, CyberParts
  <2>2. \A n : n # "kvm" => (n \in x.has <=> n \in y.has)
    BY <1>1
  <2>3. QED
    BY <1>1, <2>1, <2>2, KvmAppears, Parts
<1>2. CASE ~(p = "cyber" /\ t = "kvm")
  <2> DEFINE d == IF t \in {"nvidia-driver", "loaded"} THEN "nvidia-smi"
                  ELSE IF t = "rocmSupports" THEN "rocmAgents"
                  ELSE IF t = "kvmUnreadable" THEN "kvmAccess"
                  ELSE IF t \in {"captureDenied", "captureAllowed"} THEN "capture"
                  ELSE t
  <2>1. ASSUME NEW probe \in Probes(p) \ {d, "cdi"} PROVE t \notin Depends(probe)
    <3>1. probe \notin {"nvidia-driver", "loaded", "rocmSupports", "kvmUnreadable", "captureDenied", "captureAllowed"}
      BY DevAsks, AiAsks, CyberAsks DEF Planners, CPP_TOOLS, HOST_TOOLS, Baseline
    <3>2. t = "kvm" => probe # "kvmAccess"
      BY <1>2, DevAsks, AiAsks DEF Planners, CPP_TOOLS, Baseline
    <3>3. QED
      BY <2>1, <3>1, <3>2 DEF Depends
  <2>2. \A probe \in Probes(p) \ {d, "cdi"} : Reply(x, probe) = Reply(y, probe)
    BY <2>1, ReplyDepends
  <2> HIDE DEF d
  <2>3. QED
    BY <2>2, OneProbeDiffers
<1>3. QED
  BY <1>1, <1>2

\* One build of PyTorch gives way to another.
LEMMA BuildTorn ==
    ASSUME NEW p \in Planners, NEW x, NEW y, x.cards = y.cards,
           \A n : n \notin TorchTools => (n \in x.has <=> n \in y.has),
           NEW k, NEW id \in DOMAIN PlanOf(p, At(p, x))
    PROVE  PlanOf(p, Seen(p, x, y, k, {}))[id] \in {PlanOf(p, At(p, x))[id], PlanOf(p, At(p, y))[id]}
<1>1. ASSUME NEW probe \in Probes(p) \ {"torch", "cdi"} PROVE Depends(probe) \cap TorchTools = {}
  <2>1. probe \notin TorchTools
    BY Purposeful, DevAsks, AiAsks, CyberAsks DEF Planners, CPP_TOOLS, HOST_TOOLS, Baseline
  <2>2. QED
    BY <1>1, <2>1, Purposeful DEF Depends
<1>2. \A probe \in Probes(p) \ {"torch", "cdi"} : Reply(x, probe) = Reply(y, probe)
  BY <1>1, ReplyDepends
<1>3. QED
  BY <1>2, OneProbeDiffers

\* The NVIDIA card comes or goes.  What matters then is what the first scan saw.
LEMMA DockTorn ==
    ASSUME NEW p \in Planners, NEW x, NEW y, x.has = y.has,
           OfVendor(y.cards, "AMD") <=> OfVendor(x.cards, "AMD"),
           NEW k, NEW id \in DOMAIN PlanOf(p, At(p, x))
    PROVE  LET action == PlanOf(p, Seen(p, x, y, k, {}))[id] IN
           \/ action \in {PlanOf(p, At(p, x))[id], PlanOf(p, At(p, y))[id]}
           \/ HoldsBack(action)
           \/ action.status = "APPLY" /\ action.tools \cap (x.has \cup y.has) # {}
<1> DEFINE s == Seen(p, x, y, k, {})
           cards == {"cards1", "cards2", "nvidia-smi", "cdi"}
<1>1. \A probe \in Probes(p) \ cards : Reply(x, probe) = Reply(y, probe)
  <2> SUFFICES ASSUME NEW probe \in Probes(p) \ cards PROVE Reply(x, probe) = Reply(y, probe)
    OBVIOUS
  <2>1. CASE probe = "rocmAgents"
    <3>1. ("rocmSupports" \in x.has /\ OfVendor(x.cards, "AMD"))
              <=> ("rocmSupports" \in y.has /\ OfVendor(y.cards, "AMD"))
      OBVIOUS
    <3>2. QED
      BY <2>1, <3>1 DEF Reply
  <2>2. CASE probe = "torch"
    <3>1. Builds(x) = Builds(y)
      BY DEF Builds
    <3>2. QED
      BY <2>2, <3>1, SameTorch DEF Reply
  <2>3. CASE probe \in {"kvmAccess", "capture"}
    BY <2>3 DEF Reply, KvmAccess, CapturePermitted
  <2>4. CASE probe \notin Special
    BY <2>4 DEF Reply, Special
  <2>5. QED
    BY <2>1, <2>2, <2>3, <2>4 DEF Special
<1>2. \A probe \in Probes(p) : s[probe] \in {At(p, x)[probe], At(p, y)[probe]}
  BY SeenThen
<1>3. \A probe \in Probes(p) \ cards : \A w \in {x, y} : s[probe] = At(p, w)[probe]
  <2>1. \A probe \in Probes(p) \ cards : At(p, x)[probe] = At(p, y)[probe]
    BY <1>1, SeenIsReply DEF At
  <2>2. QED
    BY <1>2, <2>1
<1>4. CASE p # "ai"
  <2>1. cards \cap Probes(p) = {}
    BY <1>4, DevAsks, CyberAsks DEF Planners, CPP_TOOLS, HOST_TOOLS
  <2>2. s = At(p, x)
    BY <1>3, <2>1, Extensional
  <2>3. QED
    BY <2>2
<1>5. CASE p = "ai"
  <2>1. id \in AiActions /\ cards \subseteq Probes("ai") /\ "ai" \in Planners
    BY <1>5, Parts, AiParts, AiAsks
  <2>2. \A w : At("ai", w)["cards1"] = w.cards /\ At("ai", w)["nvidia-smi"] = DriverRuns(w)
    BY <2>1, SeenIsReply DEF At, Reply
  <2>3. PICK w \in {x, y} : s["cards1"] = w.cards
    BY <1>2, <1>5, <2>1, <2>2
  <2>4. PICK v \in {x, y} : s["nvidia-smi"] = DriverRuns(v)
    BY <1>2, <1>5, <2>1, <2>2
  <2> DEFINE r == At("ai", w)
  <2>5. \A probe \in {"rocminfo", "rocmAgents", "torch", "ollama", "llama-cli", "llama-server", "podman", "docker",
                      "nvidia-ctk", "container"} \cup Baseline : s[probe] = r[probe]
    BY <1>3, <1>5, AiAsks DEF Baseline
  <2>6. r["cards1"] = w.cards /\ r["nvidia-smi"] = DriverRuns(w) /\ w.has = x.has /\ v.has = x.has
    BY <2>2
  <2>7. DriverRuns(v) /\ NvidiaPresent(w.cards) => DriverRuns(w)
    BY <2>6 DEF DriverRuns
  <2> HIDE DEF s, r
  <2>8. SUFFICES \/ AiPlanOf(s)[id] = AiPlanOf(r)[id]
                 \/ HoldsBack(AiPlanOf(s)[id])
                 \/ AiPlanOf(s)[id].status = "APPLY" /\ AiPlanOf(s)[id].tools \cap x.has # {}
    BY <1>5, <2>3, Parts DEF s, r
  <2>9. CASE id = "nvidia.driver"
    <3>1. \/ DriverAction(s) = DriverAction(r) \/ DriverAction(s).status # "APPLY"
          \/ DriverAction(s) = Do("APPLY", {"nvidia-driver"}) /\ "nvidia-driver" \in x.has
      <4>1. CASE ~NvidiaPresent(w.cards)
        BY <2>3, <2>6, <4>1 DEF DriverAction, NvidiaHardware
      <4>2. CASE NvidiaPresent(w.cards) /\ "nvidia-driver" \in x.has
        BY <2>3, <4>2, DoFields DEF DriverAction
      <4>3. CASE NvidiaPresent(w.cards) /\ "nvidia-driver" \notin x.has
        <5>1. ~DriverRuns(w) /\ ~DriverRuns(v)
          BY <2>6, <4>3 DEF DriverRuns
        <5>2. QED
          BY <2>3, <2>4, <2>6, <4>3, <5>1 DEF DriverAction, NvidiaHardware, DriverWorks
      <4>4. QED
        BY <4>1, <4>2, <4>3
    <3>2. QED
      BY <2>9, <3>1, AiParts, DoFields DEF HoldsBack
  <2>10. CASE id = "python.pytorch"
    <3>1. Primary(s) = Primary(r) /\ RocmEnumerated(s) = RocmEnumerated(r)
      BY <2>3, <2>5, <2>6 DEF Primary, RocmEnumerated
    <3>2. PyTorch(s) = PyTorch(r) \/ PyTorch(s).status # "APPLY"
      <4>1. CASE Primary(s) = "nvidia_cuda"
        <5>1. NvidiaPresent(w.cards)
          BY <2>3, <4>1, CardsOfVendors DEF Primary
        <5>2. CASE DriverRuns(v)
          <6>1. Select(s) = Select(r)
            BY <2>4, <2>6, <2>7, <3>1, <4>1, <5>1, <5>2 DEF Select, DriverWorks
          <6>2. QED
            BY <2>5, <6>1 DEF PyTorch
        <5>3. CASE ~DriverRuns(v)
          <6>1. Select(s).status = "BLOCKED"
            BY <2>4, <4>1, <5>3 DEF Select, DriverWorks, Decision
          <6>2. QED
            BY <6>1, DoFields DEF PyTorch
        <5>4. QED
          BY <5>2, <5>3
      <4>2. CASE Primary(s) # "nvidia_cuda"
        <5>1. Select(s) = Select(r)
          BY <3>1, <4>2 DEF Select
        <5>2. QED
          BY <2>5, <5>1 DEF PyTorch
      <4>3. QED
        BY <4>1, <4>2
    <3>3. QED
      BY <2>10, <3>2, AiParts DEF HoldsBack
  <2>11. CASE id = "containers.nvidia_toolkit"
    <3>1. NvidiaToolkit(s) = NvidiaToolkit(r) \/ NvidiaToolkit(s).status # "APPLY"
      <4>1. CASE ~NvidiaPresent(w.cards)
        BY <2>3, <2>6, <4>1, CardsOfVendors, DoFields DEF NvidiaToolkit
      <4>2. CASE NvidiaPresent(w.cards) /\ DriverRuns(v)
        BY <2>3, <2>4, <2>5, <2>6, <2>7, <4>2, CardsOfVendors DEF NvidiaToolkit, DriverWorks
      <4>3. CASE ~DriverRuns(v)
        BY <2>4, <4>3, DoFields DEF NvidiaToolkit, DriverWorks
      <4>4. QED
        BY <4>1, <4>2, <4>3
    <3>2. QED
      BY <2>11, <3>1, AiParts DEF HoldsBack
  <2>12. CASE id \in {"nvidia.cuda_toolkit", "amd.rocm", "voice.workload_note"}
    <3>1. /\ CudaToolkitAction(s).status # "APPLY" /\ RocmAction(s).status # "APPLY"
          /\ Do("NOOP", {}).status # "APPLY"
      BY DEF CudaToolkitAction, RocmAction, Do
    <3>2. QED
      BY <2>12, <3>1, AiParts DEF HoldsBack
  <2>13. CASE id \in {"python.transformers_baseline", "inference.ollama", "inference.llama_cpp", "containers.engine"}
    <3>1. AptGroup(s, Baseline) = AptGroup(r, Baseline)
      BY <2>5 DEF AptGroup
    <3>2. /\ InstallTool(s, "ollama") = InstallTool(r, "ollama")
          /\ LlamaCpp(s) = LlamaCpp(r) /\ AiContainers(s) = AiContainers(r)
      BY <2>5 DEF InstallTool, LlamaCpp, AiContainers
    <3>3. QED
      BY <2>13, <3>1, <3>2, AiParts
  <2>14. QED
    BY <2>1, <2>9, <2>10, <2>11, <2>12, <2>13 DEF AiActions
<1>6. QED
  BY <1>4, <1>5

\* So for every change others can make.
LEMMA ChangeTorn ==
    ASSUME NEW p \in Planners, NEW x, Machine(x), NEW y \in Changed(x),
           NEW k, NEW id \in DOMAIN PlanOf(p, At(p, x))
    PROVE  LET action == PlanOf(p, Seen(p, x, y, k, {}))[id] IN
           \/ action \in {PlanOf(p, At(p, x))[id], PlanOf(p, At(p, y))[id]}
           \/ HoldsBack(action)
           \/ action.status = "APPLY" /\ action.tools \cap (x.has \cup y.has) # {}
<1>1. CASE y.cards = x.cards /\ \E t : t \notin TorchTools /\ \A n : n # t => (n \in x.has <=> n \in y.has)
  <2>1. PICK t : t \notin TorchTools /\ \A n : n # t => (n \in x.has <=> n \in y.has)
    BY <1>1
  <2>2. QED
    BY <1>1, <2>1, ToolTorn
<1>2. CASE y.cards = x.cards /\ \A n : n \notin TorchTools => (n \in x.has <=> n \in y.has)
  BY <1>2, BuildTorn
<1>3. CASE y.has = x.has /\ (OfVendor(y.cards, "AMD") <=> OfVendor(x.cards, "AMD"))
  BY <1>3, DockTorn
<1>4. QED
  BY <1>1, <1>2, <1>3, OneChange

\* What s sees of x when the probe t does not end.
TimedOut(p, s, x, t) ==
    /\ t \in Probes(p) \ Lasting
    /\ \A probe \in Probes(p) : probe # t => s[probe] = At(p, x)[probe]
    /\ s[t] = NoReply(t)

\* That is what an invocation with a timeout sees.
LEMMA LateReplies ==
    ASSUME NEW p \in Planners, NEW x, NEW t \in Timeouts(p)
    PROVE  TimedOut(p, Seen(p, x, x, 0, {t}), x, t)
BY DEF Seen, At, Timeouts, TimedOut

\* What was found is there, and all but one thing that is there is found.
LEMMA LateLooks ==
    ASSUME NEW p \in Planners, NEW x, NEW t, NEW s, TimedOut(p, s, x, t)
    PROVE  \A n \in Probes(p) \ Special :
               /\ s[n] => n \in x.has
               /\ n \in Lasting => (s[n] <=> n \in x.has)
               /\ At(p, x)[n] <=> n \in x.has
<1> SUFFICES ASSUME NEW n \in Probes(p) \ Special
             PROVE  /\ s[n] => n \in x.has
                    /\ n \in Lasting => (s[n] <=> n \in x.has)
                    /\ At(p, x)[n] <=> n \in x.has
  OBVIOUS
<1>1. At(p, x)[n] <=> n \in x.has
  BY LookedFor
<1>2. CASE n = t
  <2>1. s[n] = FALSE /\ n \notin Lasting
    BY <1>2 DEF TimedOut, NoReply, Special
  <2>2. QED
    BY <1>1, <2>1
<1>3. CASE n # t
  <2>1. s[n] = At(p, x)[n]
    BY <1>3 DEF TimedOut
  <2>2. QED
    BY <1>1, <2>1
<1>4. QED
  BY <1>2, <1>3

\* One of the tools asked for, or of those with its purpose, is there.
LEMMA OccupiedBy ==
    /\ \A T, has : (\E n \in T : n \in has) => Occupied(Do("APPLY", T), has)
    /\ \A T, has : T \cap Engines # {} /\ Engines \cap has # {} => Occupied(Do("APPLY", T), has)
    /\ \A T, has : T \cap NodeManagers # {} /\ NodeManagers \cap has # {} => Occupied(Do("APPLY", T), has)
    /\ \A has : (NodeManagers \cup {"pnpm"}) \cap has # {} => Occupied(Do("APPLY", {"pnpm"}), has)
    /\ \A has : {"llama-cli", "llama-server"} \cap has # {} => Occupied(Do("APPLY", {"llama-cli"}), has)
    /\ \A T, has : T \cap TorchTools # {} /\ TorchTools \cap has # {} => Occupied(Do("APPLY", T), has)
<1> DEFINE Served(T, has, P) == T \cap P # {} /\ P \cap has # {}
<1>1. \A T, has : (\E P \in Purposes \cup {TorchTools, {"llama-cli", "llama-server"}, NodeManagers \cup {"pnpm"}}
                             \cup {{t} : t \in T} : Served(T, has, P))
                    => Occupied(Do("APPLY", T), has)
  BY DoFields DEF Occupied
<1>2. ASSUME NEW T, NEW has, NEW n \in T, n \in has PROVE Occupied(Do("APPLY", T), has)
  <2>1. {n} \in {{t} : t \in T} /\ Served(T, has, {n})
    BY <1>2
  <2>2. QED
    BY <1>1, <2>1
<1>3. \A T, has : \A P \in {Engines, NodeManagers, TorchTools, {"llama-cli", "llama-server"}, NodeManagers \cup {"pnpm"}} :
          Served(T, has, P) => Occupied(Do("APPLY", T), has)
  BY <1>1 DEF Purposes
<1>4. /\ \A T, has : T \cap Engines # {} /\ Engines \cap has # {} => Occupied(Do("APPLY", T), has)
      /\ \A T, has : T \cap NodeManagers # {} /\ NodeManagers \cap has # {} => Occupied(Do("APPLY", T), has)
      /\ \A T, has : T \cap TorchTools # {} /\ TorchTools \cap has # {} => Occupied(Do("APPLY", T), has)
  BY <1>3
<1>5. \A has : (NodeManagers \cup {"pnpm"}) \cap has # {} => Occupied(Do("APPLY", {"pnpm"}), has)
  <2>1. \A has : (NodeManagers \cup {"pnpm"}) \cap has # {} => Served({"pnpm"}, has, NodeManagers \cup {"pnpm"})
    OBVIOUS
  <2>2. QED
    BY <1>3, <2>1
<1>6. \A has : {"llama-cli", "llama-server"} \cap has # {} => Occupied(Do("APPLY", {"llama-cli"}), has)
  <2>1. \A has : {"llama-cli", "llama-server"} \cap has # {} => Served({"llama-cli"}, has, {"llama-cli", "llama-server"})
    OBVIOUS
  <2>2. QED
    BY <1>3, <2>1
<1>7. QED
  BY <1>2, <1>4, <1>5, <1>6

\* What a timeout may make of an action: a, instead of b.
Harmless(a, b, has) == a = b \/ HoldsBack(a) \/ Occupied(a, has)

\* A tool or a group.
LEMMA ToolTimedOut ==
    ASSUME NEW p \in Planners, NEW x, NEW t, NEW s, TimedOut(p, s, x, t), NEW n \in Probes(p) \ Special
    PROVE  Harmless(InstallTool(s, n), InstallTool(At(p, x), n), x.has)
<1>1. At(p, x)[n] <=> n \in x.has
  BY LateLooks
<1>2. CASE s[n]
  BY <1>2, DoFields DEF InstallTool, Harmless, HoldsBack
<1>3. CASE ~s[n] /\ n \in x.has
  <2>1. InstallTool(s, n) = Do("APPLY", {n})
    BY <1>3 DEF InstallTool
  <2>2. Occupied(Do("APPLY", {n}), x.has)
    BY <1>3, OccupiedBy
  <2>3. QED
    BY <2>1, <2>2 DEF Harmless
<1>4. CASE ~s[n] /\ n \notin x.has
  <2>1. InstallTool(s, n) = InstallTool(At(p, x), n)
    BY <1>1, <1>4 DEF InstallTool
  <2>2. QED
    BY <2>1 DEF Harmless
<1>5. QED
  BY <1>2, <1>3, <1>4

\* A group of packages.
LEMMA GroupTimedOut ==
    ASSUME NEW p \in Planners, NEW x, NEW t, NEW s, TimedOut(p, s, x, t), NEW G \in SUBSET (Probes(p) \ Special)
    PROVE  Harmless(AptGroup(s, G), AptGroup(At(p, x), G), x.has)
<1>1. \A n \in G : At(p, x)[n] <=> n \in x.has
  BY LateLooks
<1>2. CASE \A n \in G : s[n]
  BY <1>2, DoFields DEF AptGroup, Harmless, HoldsBack
<1>3. CASE ~\A n \in G : s[n]
  <2>1. AptGroup(s, G) = Do("APPLY", G)
    BY <1>3 DEF AptGroup
  <2>2. CASE \A n \in G : n \in x.has
    <3>1. \E n \in G : n \in x.has
      BY <1>3, <2>2
    <3>2. Occupied(Do("APPLY", G), x.has)
      BY <3>1, OccupiedBy
    <3>3. QED
      BY <2>1, <3>2 DEF Harmless
  <2>3. CASE ~\A n \in G : n \in x.has
    <3>1. AptGroup(At(p, x), G) = Do("APPLY", G)
      BY <1>1, <2>3 DEF AptGroup
    <3>2. QED
      BY <2>1, <3>1 DEF Harmless
  <2>4. QED
    BY <2>2, <2>3
<1>4. QED
  BY <1>2, <1>3

\* The engine, which three planners decide, and Distrobox, which two do.
LEMMA EngineTimedOut ==
    ASSUME NEW p \in Planners, NEW x, NEW t, NEW s, TimedOut(p, s, x, t)
    PROVE  Harmless(ContainersAction(s), ContainersAction(At(p, x)), x.has)
<1> DEFINE r == At(p, x)
<1>1. {"container", "podman", "docker"} \subseteq Probes(p) \ Special /\ "container" \in Lasting
  BY DevAsks, AiAsks, CyberAsks DEF Planners, Special, Lasting
<1>2. /\ s["container"] <=> "container" \in x.has
      /\ r["container"] <=> "container" \in x.has
      /\ s["podman"] => "podman" \in x.has
      /\ r["podman"] <=> "podman" \in x.has
      /\ s["docker"] => "docker" \in x.has
      /\ r["docker"] <=> "docker" \in x.has
  BY <1>1, LateLooks
<1> HIDE DEF r
<1>3. CASE s["container"] \/ s["podman"] \/ s["docker"]
  BY <1>3, DoFields DEF ContainersAction, Harmless, HoldsBack
<1>4. CASE ~(s["container"] \/ s["podman"] \/ s["docker"])
  <2>1. ContainersAction(s) = Do("APPLY", {"podman"})
    BY <1>4 DEF ContainersAction
  <2>2. CASE Engines \cap x.has # {}
    <3>1. {"podman"} \cap Engines # {}
      BY DEF Engines
    <3>2. Occupied(Do("APPLY", {"podman"}), x.has)
      BY <2>2, <3>1, OccupiedBy
    <3>3. QED
      BY <2>1, <3>2 DEF Harmless
  <2>3. CASE Engines \cap x.has = {}
    <3>1. ~r["container"] /\ ~r["podman"] /\ ~r["docker"]
      BY <1>2, <1>4, <2>3 DEF Engines
    <3>2. ContainersAction(r) = Do("APPLY", {"podman"})
      BY <3>1 DEF ContainersAction
    <3>3. QED
      BY <2>1, <3>2 DEF Harmless, r
  <2>4. QED
    BY <2>2, <2>3
<1>5. QED
  BY <1>3, <1>4

\* Distrobox.
LEMMA DistroboxTimedOut ==
    ASSUME NEW p \in {"development", "cyber"}, NEW x, NEW t, NEW s, TimedOut(p, s, x, t)
    PROVE  Harmless(DistroboxAction(s), DistroboxAction(At(p, x)), x.has)
<1>0. p \in Planners /\ {"container", "distrobox"} \subseteq Probes(p) \ Special /\ "container" \in Lasting
  BY DevAsks, CyberAsks DEF Planners, Special, Lasting
<1>1. (s["container"] <=> "container" \in x.has) /\ (At(p, x)["container"] <=> "container" \in x.has)
  BY <1>0, LateLooks
<1>2. CASE s["container"]
  BY <1>2, DoFields DEF DistroboxAction, Harmless, HoldsBack
<1>3. CASE ~s["container"]
  <2>1. /\ DistroboxAction(s) = InstallTool(s, "distrobox")
        /\ DistroboxAction(At(p, x)) = InstallTool(At(p, x), "distrobox")
    BY <1>1, <1>3 DEF DistroboxAction
  <2>2. QED
    BY <1>0, <2>1, ToolTimedOut
<1>4. QED
  BY <1>2, <1>3

\* The Node managers and pnpm.
LEMMA NodeTimedOut ==
    ASSUME NEW x, NEW t, NEW s, TimedOut("development", s, x, t)
    PROVE  /\ Harmless(NodeManager(s), NodeManager(At("development", x)), x.has)
           /\ Harmless(Pnpm(s), Pnpm(At("development", x)), x.has)
<1> DEFINE r == At("development", x)
<1>1. NodeManagers \cup {"pnpm"} \subseteq Probes("development") \ Special /\ "development" \in Planners
  BY DevAsks DEF Planners, Special, NodeManagers
<1>2. \A n \in NodeManagers \cup {"pnpm"} : (s[n] => n \in x.has) /\ (r[n] <=> n \in x.has)
  BY <1>1, LateLooks
<1> HIDE DEF r
<1>3. Harmless(NodeManager(s), NodeManager(r), x.has)
  <2>1. CASE NodeManagerConflict(s) \/ s["fnm"]
    BY <2>1, DoFields DEF NodeManager, InstallTool, Harmless, HoldsBack
  <2>2. CASE ~NodeManagerConflict(s) /\ ~s["fnm"]
    <3>1. NodeManager(s) = Do("APPLY", {"fnm"})
      BY <2>2 DEF NodeManager, InstallTool
    <3>2. CASE NodeManagers \cap x.has # {}
      <4>1. {"fnm"} \cap NodeManagers # {}
        BY DEF NodeManagers
      <4>2. Occupied(Do("APPLY", {"fnm"}), x.has)
        BY <3>2, <4>1, OccupiedBy
      <4>3. QED
        BY <3>1, <4>2 DEF Harmless
    <3>3. CASE NodeManagers \cap x.has = {}
      <4>1. Managers(r) = {} /\ ~r["fnm"]
        BY <1>2, <3>3 DEF Managers, NodeManagers
      <4>2. NodeManager(r) = Do("APPLY", {"fnm"})
        BY <4>1 DEF NodeManager, NodeManagerConflict, InstallTool
      <4>3. QED
        BY <3>1, <4>2 DEF Harmless
    <3>4. QED
      BY <3>2, <3>3
  <2>3. QED
    BY <2>1, <2>2
<1>4. Harmless(Pnpm(s), Pnpm(r), x.has)
  <2>1. CASE NodeManagerConflict(s) \/ s["pnpm"]
    BY <2>1, DoFields DEF Pnpm, InstallTool, Harmless, HoldsBack
  <2>2. CASE ~NodeManagerConflict(s) /\ ~s["pnpm"]
    <3>1. Pnpm(s) = Do("APPLY", {"pnpm"})
      BY <2>2 DEF Pnpm, InstallTool
    <3>2. CASE (NodeManagers \cup {"pnpm"}) \cap x.has # {}
      <4>1. Occupied(Do("APPLY", {"pnpm"}), x.has)
        BY <3>2, OccupiedBy
      <4>2. QED
        BY <3>1, <4>1 DEF Harmless
    <3>3. CASE (NodeManagers \cup {"pnpm"}) \cap x.has = {}
      <4>1. Managers(r) = {} /\ ~r["pnpm"]
        BY <1>2, <3>3 DEF Managers
      <4>2. Pnpm(r) = Do("APPLY", {"pnpm"})
        BY <4>1 DEF Pnpm, NodeManagerConflict, InstallTool
      <4>3. QED
        BY <3>1, <4>2 DEF Harmless
    <3>4. QED
      BY <3>2, <3>3
  <2>3. QED
    BY <2>1, <2>2
<1>5. QED
  BY <1>3, <1>4 DEF r

\* All actions of a plan.
LEMMA DevelopmentTimedOut ==
    ASSUME NEW x, NEW t, NEW s, TimedOut("development", s, x, t), NEW id \in DevActions
    PROVE  Harmless(DevPlan(s)[id], DevPlan(At("development", x))[id], x.has)
<1> DEFINE r == At("development", x)
<1>1. /\ {"uv", "rustup", "go", "zed"} \cup GIT_TOOLS \cup CPP_TOOLS \subseteq Probes("development") \ Special
      /\ "development" \in Planners
  BY DevAsks DEF Planners, Special, GIT_TOOLS, CPP_TOOLS
<1>2. \A n \in {"uv", "rustup", "go", "zed"} : Harmless(InstallTool(s, n), InstallTool(r, n), x.has)
  BY <1>1, ToolTimedOut
<1>3. \A G \in {GIT_TOOLS, CPP_TOOLS} : Harmless(AptGroup(s, G), AptGroup(r, G), x.has)
  BY <1>1, GroupTimedOut
<1>4. /\ Harmless(NodeManager(s), NodeManager(r), x.has) /\ Harmless(Pnpm(s), Pnpm(r), x.has)
      /\ Harmless(ContainersAction(s), ContainersAction(r), x.has)
      /\ Harmless(DistroboxAction(s), DistroboxAction(r), x.has)
  BY <1>1, NodeTimedOut, EngineTimedOut, DistroboxTimedOut
<1> HIDE DEF r
<1>5. \A a : Harmless(a, a, x.has)
  BY DEF Harmless
<1>6. Harmless(DevPlan(s)[id], DevPlan(r)[id], x.has)
  BY <1>2, <1>3, <1>4, <1>5, DevParts DEF DevActions, Rust, Go
<1>7. QED
  BY <1>6 DEF r

\* A VM: only the packages are looked for by a command that may not end.
LEMMA VmTimedOut ==
    ASSUME NEW x, NEW t, NEW s, TimedOut("cyber", s, x, t)
    PROVE  Harmless(VmPrerequisites(s), VmPrerequisites(At("cyber", x)), x.has)
<1> DEFINE r == At("cyber", x)
<1>1. /\ {"kvm", "kvmModule", "qemu", "libvirt"} \subseteq Probes("cyber") \ Special /\ "cyber" \in Planners
      /\ {"kvm", "kvmModule", "kvmAccess"} \subseteq Lasting /\ "kvmAccess" \in Probes("cyber")
  BY CyberAsks DEF Planners, Special, Lasting
<1>2. /\ \A n \in {"kvm", "kvmModule", "qemu", "libvirt"} : (s[n] => n \in x.has) /\ (r[n] <=> n \in x.has)
      /\ (s["kvm"] <=> "kvm" \in x.has) /\ (s["kvmModule"] <=> "kvmModule" \in x.has)
  BY <1>1, LateLooks
<1>3. s["kvmAccess"] = r["kvmAccess"]
  BY <1>1 DEF TimedOut
<1> HIDE DEF r
<1>4. CASE VmReadiness(s) \notin {"needs_qemu", "needs_libvirt"}
  BY <1>4, DoFields DEF VmPrerequisites, Harmless, HoldsBack
<1>5. CASE VmReadiness(s) \in {"needs_qemu", "needs_libvirt"}
  <2>1. VmPrerequisites(s) = Do("APPLY", {"qemu", "libvirt"})
    BY <1>5 DEF VmPrerequisites
  <2>2. CASE \E n \in {"qemu", "libvirt"} : n \in x.has
    <3>1. Occupied(Do("APPLY", {"qemu", "libvirt"}), x.has)
      BY <2>2, OccupiedBy
    <3>2. QED
      BY <2>1, <3>1 DEF Harmless
  <2>3. CASE "qemu" \notin x.has /\ "libvirt" \notin x.has
    <3>1. VmReadiness(s) = VmReadiness(r)
      BY <1>2, <1>3, <2>3 DEF VmReadiness
    <3>2. QED
      BY <3>1 DEF VmPrerequisites, Harmless, r
  <2>4. QED
    BY <2>2, <2>3
<1>6. QED
  BY <1>4, <1>5

\* Each action of the cyber planner.
LEMMA CyberTimedOut ==
    ASSUME NEW x, NEW t, NEW s, TimedOut("cyber", s, x, t), NEW id \in CyberActions
    PROVE  Harmless(CyberPlanOf(s)[id], CyberPlanOf(At("cyber", x))[id], x.has)
<1> DEFINE r == At("cyber", x)
<1>1. HOST_TOOLS \subseteq Probes("cyber") \ Special /\ "cyber" \in Planners
  BY CyberAsks DEF Planners, Special, HOST_TOOLS
<1>2. /\ Harmless(AptGroup(s, HOST_TOOLS), AptGroup(r, HOST_TOOLS), x.has)
      /\ Harmless(VmPrerequisites(s), VmPrerequisites(r), x.has)
      /\ Harmless(ContainersAction(s), ContainersAction(r), x.has)
      /\ Harmless(DistroboxAction(s), DistroboxAction(r), x.has)
  BY <1>1, GroupTimedOut, VmTimedOut, EngineTimedOut, DistroboxTimedOut
<1> HIDE DEF r
<1>3. \A z : ToolboxEngine(z) = ContainersAction(z) /\ ToolboxDistrobox(z) = DistroboxAction(z)
  BY DEF ToolboxEngine, ContainersAction, ToolboxDistrobox, DistroboxAction, InstallTool
<1>4. \A a : Harmless(a, a, x.has)
  BY DEF Harmless
<1>5. Harmless(CyberPlanOf(s)[id], CyberPlanOf(r)[id], x.has)
  BY <1>2, <1>3, <1>4, CyberParts DEF CyberActions
<1>6. QED
  BY <1>5 DEF r

\* The card, its driver and what rocminfo lists, with a probe that did not end.
LEMMA GpuTimedOut ==
    ASSUME NEW x, NEW t, NEW s, TimedOut("ai", s, x, t)
    PROVE  LET r == At("ai", x) IN
           /\ s["cards1"] = r["cards1"] /\ r["cards1"] = x.cards
           /\ s["nvidia-smi"] => r["nvidia-smi"]
           /\ s["nvidia-smi"] \in BOOLEAN /\ r["nvidia-smi"] = DriverRuns(x)
           /\ RocmEnumerated(s) = FALSE => RocmEnumerated(r) = FALSE
           /\ TorchTools \cap x.has = {} => s["torch"] = Unknown /\ r["torch"] = Unknown
<1> DEFINE r == At("ai", x)
<1>1. /\ {"cards1", "nvidia-smi", "rocminfo", "rocmAgents", "torch"} \subseteq Probes("ai") /\ "ai" \in Planners
      /\ "rocminfo" \notin Special /\ "cards1" \in Lasting
  BY AiAsks DEF Planners, Special, Lasting
<1>2. r["cards1"] = x.cards /\ r["nvidia-smi"] = DriverRuns(x) /\ r["torch"] = Torch(x)
  BY <1>1, SeenIsReply DEF At, Reply
<1>3. DriverRuns(x) \in BOOLEAN
  BY DEF DriverRuns
<1> HIDE DEF r
<1>4. \A n \in {"cards1", "nvidia-smi", "rocminfo", "rocmAgents", "torch"} :
          IF n = t THEN n # "cards1" /\ s[n] = NoReply(n) ELSE s[n] = r[n]
  BY <1>1 DEF TimedOut, r
<1>5. s["cards1"] = r["cards1"]
  BY <1>4
<1>6. s["nvidia-smi"] \in {FALSE, r["nvidia-smi"]}
  BY <1>4 DEF NoReply
<1>7. s["torch"] \in {Unknown, r["torch"]}
  BY <1>4 DEF NoReply
<1>8. RocmEnumerated(s) = FALSE => RocmEnumerated(r) = FALSE
  <2> SUFFICES ASSUME RocmEnumerated(s) = FALSE PROVE RocmEnumerated(r) = FALSE
    OBVIOUS
  <2>1. s["rocminfo"] /\ s["rocmAgents"] = FALSE
    BY UnknownAssumption DEF RocmEnumerated
  <2>2. s["rocmAgents"] = r["rocmAgents"]
    BY <1>4, <2>1, UnknownAssumption DEF NoReply
  <2>3. s["rocminfo"] = r["rocminfo"]
    BY <1>4, <2>1 DEF NoReply
  <2>4. QED
    BY <2>1, <2>2, <2>3 DEF RocmEnumerated
<1>9. TorchTools \cap x.has = {} => r["torch"] = Unknown
  BY <1>2, NoTorch DEF Torch
<1>10. QED
  BY <1>2, <1>3, <1>5, <1>6, <1>7, <1>8, <1>9 DEF r

\* A build is chosen on evidence, which a timeout can only take away.
LEMMA TorchTimedOut ==
    ASSUME NEW x, NEW t, NEW s, TimedOut("ai", s, x, t)
    PROVE  Harmless(PyTorch(s), PyTorch(At("ai", x)), x.has)
<1> DEFINE r == At("ai", x)
<1>1. /\ s["cards1"] = r["cards1"] /\ (s["nvidia-smi"] => r["nvidia-smi"])
      /\ s["nvidia-smi"] \in BOOLEAN /\ r["nvidia-smi"] \in BOOLEAN
      /\ RocmEnumerated(s) = FALSE => RocmEnumerated(r) = FALSE
      /\ TorchTools \cap x.has = {} => s["torch"] = Unknown /\ r["torch"] = Unknown
  BY GpuTimedOut DEF DriverRuns
<1> HIDE DEF r
<1>2. CASE PyTorch(s).status # "APPLY"
  BY <1>2 DEF Harmless, HoldsBack
<1>3. CASE PyTorch(s).status = "APPLY"
  <2>1. PyTorch(s) = Do("APPLY", {TorchBuild[Select(s).target]}) /\ Select(s).status # "BLOCKED"
    BY <1>3, DoFields DEF PyTorch
  <2>2. CASE TorchTools \cap x.has # {}
    <3>1. {TorchBuild[Select(s).target]} \cap TorchTools # {}
      BY <1>3, <2>1, TorchIsCareful, DoFields
    <3>2. Occupied(PyTorch(s), x.has)
      BY <2>1, <2>2, <3>1, OccupiedBy
    <3>3. QED
      BY <3>2 DEF Harmless
  <2>3. CASE TorchTools \cap x.has = {}
    <3>1. Primary(s) = Primary(r)
      BY <1>1 DEF Primary
    <3>2. Select(s) = Select(r)
      <4>1. CASE Primary(s) = "nvidia_cuda"
        <5>1. s["nvidia-smi"] /\ r["nvidia-smi"]
          BY <1>1, <2>1, <4>1 DEF Select, Decision, DriverWorks
        <5>2. QED
          BY <3>1, <4>1, <5>1 DEF Select, DriverWorks
      <4>2. CASE Primary(s) = "amd_rocm"
        <5>1. RocmEnumerated(s) = FALSE
          BY <2>1, <4>2 DEF Select, Decision
        <5>2. QED
          BY <1>1, <3>1, <4>2, <5>1 DEF Select
      <4>3. CASE Primary(s) \notin {"nvidia_cuda", "amd_rocm"}
        BY <3>1, <4>3 DEF Select
      <4>4. QED
        BY <4>1, <4>2, <4>3
    <3>3. PyTorch(s) = PyTorch(r)
      BY <1>1, <2>3, <3>2 DEF PyTorch
    <3>4. QED
      BY <3>3 DEF Harmless, r
  <2>4. QED
    BY <2>2, <2>3
<1>4. QED
  BY <1>2, <1>3

\* Each action of the AI planner.
LEMMA AiTimedOut ==
    ASSUME NEW x, NEW t, NEW s, TimedOut("ai", s, x, t), NEW id \in AiActions
    PROVE  Harmless(AiPlanOf(s)[id], AiPlanOf(At("ai", x))[id], x.has)
<1> DEFINE r == At("ai", x)
<1>1. /\ Baseline \cup {"ollama", "llama-cli", "llama-server", "nvidia-ctk", "container"} \subseteq Probes("ai") \ Special
      /\ "ai" \in Planners /\ "container" \in Lasting
  BY AiAsks DEF Planners, Special, Baseline, Lasting
<1>2. /\ s["cards1"] = r["cards1"] /\ r["cards1"] = x.cards /\ (s["nvidia-smi"] => r["nvidia-smi"])
      /\ s["nvidia-smi"] \in BOOLEAN /\ r["nvidia-smi"] = DriverRuns(x)
  BY GpuTimedOut
<1>3. /\ \A n \in {"llama-cli", "llama-server", "nvidia-ctk", "container"} :
             (s[n] => n \in x.has) /\ (r[n] <=> n \in x.has)
      /\ s["container"] <=> "container" \in x.has
  BY <1>1, LateLooks
<1>4. /\ Harmless(AptGroup(s, Baseline), AptGroup(r, Baseline), x.has)
      /\ Harmless(InstallTool(s, "ollama"), InstallTool(r, "ollama"), x.has)
      /\ Harmless(ContainersAction(s), ContainersAction(r), x.has)
      /\ Harmless(PyTorch(s), PyTorch(r), x.has)
  BY <1>1, GroupTimedOut, ToolTimedOut, EngineTimedOut, TorchTimedOut
<1> HIDE DEF r
<1>5. Harmless(DriverAction(s), DriverAction(r), x.has)
  <2>1. CASE ~NvidiaHardware(s) \/ s["nvidia-smi"]
    BY <2>1, DoFields DEF DriverAction, DriverWorks, Harmless, HoldsBack
  <2>2. CASE NvidiaHardware(s) /\ ~s["nvidia-smi"]
    <3>1. DriverAction(s) = Do("APPLY", {"nvidia-driver"})
      BY <2>2 DEF DriverAction, DriverWorks
    <3>2. CASE "nvidia-driver" \in x.has
      <4>1. Occupied(Do("APPLY", {"nvidia-driver"}), x.has)
        BY <3>2, OccupiedBy
      <4>2. QED
        BY <3>1, <4>1 DEF Harmless
    <3>3. CASE "nvidia-driver" \notin x.has
      <4>1. ~r["nvidia-smi"]
        BY <1>2, <3>3 DEF DriverRuns
      <4>2. DriverAction(r) = Do("APPLY", {"nvidia-driver"})
        BY <1>2, <2>2, <4>1 DEF DriverAction, DriverWorks, NvidiaHardware
      <4>3. QED
        BY <3>1, <4>2 DEF Harmless
    <3>4. QED
      BY <3>2, <3>3
  <2>3. QED
    BY <2>1, <2>2
<1>6. Harmless(LlamaCpp(s), LlamaCpp(r), x.has)
  <2>1. CASE s["llama-cli"] \/ s["llama-server"]
    BY <2>1, DoFields DEF LlamaCpp, Harmless, HoldsBack
  <2>2. CASE ~(s["llama-cli"] \/ s["llama-server"])
    <3>1. LlamaCpp(s) = Do("APPLY", {"llama-cli"})
      BY <2>2 DEF LlamaCpp
    <3>2. CASE {"llama-cli", "llama-server"} \cap x.has # {}
      <4>1. Occupied(Do("APPLY", {"llama-cli"}), x.has)
        BY <3>2, OccupiedBy
      <4>2. QED
        BY <3>1, <4>1 DEF Harmless
    <3>3. CASE {"llama-cli", "llama-server"} \cap x.has = {}
      <4>1. LlamaCpp(r) = Do("APPLY", {"llama-cli"})
        BY <1>3, <3>3 DEF LlamaCpp
      <4>2. QED
        BY <3>1, <4>1 DEF Harmless
    <3>4. QED
      BY <3>2, <3>3
  <2>3. QED
    BY <2>1, <2>2
<1>7. Harmless(NvidiaToolkit(s), NvidiaToolkit(r), x.has)
  <2>1. CASE NvidiaToolkit(s).status # "APPLY"
    BY <2>1 DEF Harmless, HoldsBack
  <2>2. CASE NvidiaToolkit(s).status = "APPLY"
    <3>1. /\ NvidiaToolkit(s) = Do("APPLY", {"nvidia-ctk"})
          /\ ~s["container"] /\ OfVendor(s["cards1"], "NVIDIA") /\ s["nvidia-smi"]
      BY <2>2, DoFields DEF NvidiaToolkit, DriverWorks
    <3>2. CASE "nvidia-ctk" \in x.has
      <4>1. Occupied(Do("APPLY", {"nvidia-ctk"}), x.has)
        BY <3>2, OccupiedBy
      <4>2. QED
        BY <3>1, <4>1 DEF Harmless
    <3>3. CASE "nvidia-ctk" \notin x.has
      <4>1. NvidiaToolkit(r) = Do("APPLY", {"nvidia-ctk"})
        BY <1>2, <1>3, <3>1, <3>3 DEF NvidiaToolkit, DriverWorks
      <4>2. QED
        BY <3>1, <4>1 DEF Harmless
    <3>4. QED
      BY <3>2, <3>3
  <2>3. QED
    BY <2>1, <2>2
<1>8. \A z : /\ CudaToolkitAction(z).status # "APPLY" /\ RocmAction(z).status # "APPLY"
             /\ Do("NOOP", {}).status # "APPLY"
             /\ AiContainers(z) = ContainersAction(z)
  BY DEF CudaToolkitAction, RocmAction, Do, AiContainers, ContainersAction
<1>9. Harmless(AiPlanOf(s)[id], AiPlanOf(r)[id], x.has)
  <2>1. CASE id \in {"nvidia.cuda_toolkit", "amd.rocm", "voice.workload_note"}
    BY <1>8, <2>1, AiParts DEF Harmless, HoldsBack
  <2>2. CASE id \notin {"nvidia.cuda_toolkit", "amd.rocm", "voice.workload_note"}
    BY <1>4, <1>5, <1>6, <1>7, <1>8, <2>2, AiParts DEF AiActions
  <2>3. QED
    BY <2>1, <2>2
<1>10. QED
  BY <1>9 DEF r

\* On every machine, for every change made at any place among the probes, and
\* for every probe that does not end: each action is that of a plan made before
\* or after, or is held back, or asks for what is there or for what something
\* there does already.
THEOREM TornPlansAreHarmless == Spec => []TornPlansRepeatOrHoldBack
<1>1. IInv => TornPlansRepeatOrHoldBack
  <2> SUFFICES ASSUME IInv, NEW p \in Planners
      PROVE /\ \A y \in Changed(m) : \A k \in Cuts(p, m, y) : \A id \in DOMAIN PlanOf(p, At(p, m)) :
                 LET action == PlanOf(p, Seen(p, m, y, k, {}))[id] IN
                 \/ action \in {PlanOf(p, At(p, m))[id], PlanOf(p, At(p, y))[id]}
                 \/ HoldsBack(action)
                 \/ action.status = "APPLY" /\ action.tools \cap (m.has \cup y.has) # {}
            /\ \A t \in Timeouts(p) : \A id \in DOMAIN PlanOf(p, At(p, m)) :
                 LET action == PlanOf(p, Seen(p, m, m, 0, {t}))[id] IN
                 action = PlanOf(p, At(p, m))[id] \/ HoldsBack(action) \/ Occupied(action, m.has)
    BY DEF TornPlansRepeatOrHoldBack
  <2>1. Machine(m)
    BY DEF IInv, Shaped
  <2>2. ASSUME NEW y \in Changed(m), NEW k, NEW id \in DOMAIN PlanOf(p, At(p, m))
        PROVE  LET action == PlanOf(p, Seen(p, m, y, k, {}))[id] IN
               \/ action \in {PlanOf(p, At(p, m))[id], PlanOf(p, At(p, y))[id]}
               \/ HoldsBack(action)
               \/ action.status = "APPLY" /\ action.tools \cap (m.has \cup y.has) # {}
    BY <2>1, ChangeTorn
  <2>3. ASSUME NEW t \in Timeouts(p), NEW id \in DOMAIN PlanOf(p, At(p, m))
        PROVE  Harmless(PlanOf(p, Seen(p, m, m, 0, {t}))[id], PlanOf(p, At(p, m))[id], m.has)
    <3>1. TimedOut(p, Seen(p, m, m, 0, {t}), m, t)
      BY LateReplies
    <3>2. CASE p = "development"
      BY <3>1, <3>2, DevelopmentTimedOut, Parts, DevParts
    <3>3. CASE p = "ai"
      BY <3>1, <3>3, AiTimedOut, Parts, AiParts
    <3>4. CASE p = "cyber"
      BY <3>1, <3>4, CyberTimedOut, Parts, CyberParts
    <3>5. QED
      BY <3>2, <3>3, <3>4 DEF Planners
  <2>4. QED
    BY <2>2, <2>3 DEF Harmless
<1>2. QED
  BY <1>1, Invariance, PTL

----------------------------------------------------------------------------
(* The evidence of a focus                                                  *)

\* What the three reports say of their domains.
LEMMA ReadyWhen ==
    ASSUME NEW s
    PROVE  /\ DevReady(s) <=> \/ s["uv"] \/ s["fnm"] \/ s["rustup"] \/ s["go"]
                              \/ \A t \in CPP_TOOLS : s[t]
           /\ GpuTorchUsable(s) <=> s["torch"] = "cuda" /\ OfVendor(s["cards1"], "NVIDIA") /\ s["nvidia-smi"]
           /\ CpuAiReady(s) <=> s["torch"] = "cpu" \/ s["ollama"] \/ s["llama-cli"] \/ s["llama-server"]
           /\ CyberReady(s) <=> \/ (s["podman"] \/ s["docker"]) /\ s["distrobox"]
                                \/ VmReadiness(s) = "ready"
<1>1. DevReady(s) <=> \/ s["uv"] \/ s["fnm"] \/ s["rustup"] \/ s["go"]
                      \/ \A t \in CPP_TOOLS : s[t]
  <2>1. /\ DevCapabilities(s)["python_uv"].installed = s["uv"]
        /\ DevCapabilities(s)["node_runtime"].installed = s["fnm"]
        /\ DevCapabilities(s)["rustup"].installed = s["rustup"]
        /\ DevCapabilities(s)["go_toolchain"].installed = s["go"]
        /\ DevCapabilities(s)["cpp_toolchain"].installed <=> \A t \in CPP_TOOLS : s[t]
    BY DEF DevCapabilities, Supported
  <2>2. QED
    BY <2>1 DEF DevReady
<1>2. GpuTorchUsable(s) <=> s["torch"] = "cuda" /\ OfVendor(s["cards1"], "NVIDIA") /\ s["nvidia-smi"]
  <2>1. /\ AiCapabilities(s)["pytorch_cuda"].usable = TorchUsable(s, "cuda")
        /\ AiCapabilities(s)["pytorch_rocm"].usable = TorchUsable(s, "rocm")
    BY DEF AiCapabilities, Usable
  <2>2. Select(s) = Decision("cuda", "APPLY") <=> OfVendor(s["cards1"], "NVIDIA") /\ s["nvidia-smi"]
    <3>1. Primary(s) = "nvidia_cuda" <=> OfVendor(s["cards1"], "NVIDIA")
      BY DEF Primary
    <3>2. QED
      BY <3>1 DEF Select, Decision, DriverWorks
  <2>3. Select(s) # Decision("rocm", "APPLY")
    BY DEF Select, Decision
  <2>4. TorchUsable(s, "rocm") # TRUE
    BY <2>3, UnknownAssumption DEF TorchUsable
  <2>5. TorchUsable(s, "cuda") = TRUE <=> s["torch"] = "cuda" /\ Select(s) = Decision("cuda", "APPLY")
    BY UnknownAssumption DEF TorchUsable
  <2>6. QED
    BY <2>1, <2>2, <2>4, <2>5 DEF GpuTorchUsable
<1>3. CpuAiReady(s) <=> s["torch"] = "cpu" \/ s["ollama"] \/ s["llama-cli"] \/ s["llama-server"]
  <2>1. /\ AiCapabilities(s).pytorch_cpu.usable = (s["torch"] = "cpu")
        /\ AiCapabilities(s)["ollama"].installed = s["ollama"]
        /\ AiCapabilities(s)["llama_cpp"].installed <=> s["llama-cli"] \/ s["llama-server"]
    BY DEF AiCapabilities, Usable
  <2>2. QED
    BY <2>1 DEF CpuAiReady
<1>4. CyberReady(s) <=> \/ (s["podman"] \/ s["docker"]) /\ s["distrobox"]
                        \/ VmReadiness(s) = "ready"
  <2>1. /\ CyberCapabilities(s).container_toolbox.installed <=> (s["podman"] \/ s["docker"]) /\ s["distrobox"]
        /\ CyberCapabilities(s).vm_isolation.usable <=> VmReadiness(s) = "ready"
    BY DEF CyberCapabilities, Usable
  <2>2. QED
    BY <2>1 DEF CyberReady
<1>5. QED
  BY <1>1, <1>2, <1>3, <1>4

\* Every reply was one of x or y, or a probe did not end.
Witnessed(p, s, x, y) ==
    \A probe \in Probes(p) :
        \/ s[probe] = Reply(x, probe)
        \/ s[probe] = Reply(y, probe)
        \/ probe \notin Lasting /\ s[probe] = NoReply(probe)

\* x and y are one change apart.
Near(x, y) ==
    \/ y.cards = x.cards /\ \E t : t \notin TorchTools /\ \A n : n # t => (n \in x.has <=> n \in y.has)
    \/ y.cards = x.cards /\ \A n : n \notin TorchTools => (n \in x.has <=> n \in y.has)
    \/ y.has = x.has

\* What was looked for and found was there.
LEMMA FoundThere ==
    ASSUME NEW p \in Planners, NEW s, NEW x, NEW y, Witnessed(p, s, x, y), NEW n \in Probes(p) \ Special, s[n]
    PROVE  n \in x.has \/ n \in y.has
<1>1. Reply(x, n) = (n \in x.has) /\ Reply(y, n) = (n \in y.has) /\ NoReply(n) = FALSE
  BY DEF Reply, NoReply, Special
<1>2. s[n] = Reply(x, n) \/ s[n] = Reply(y, n) \/ s[n] = NoReply(n)
  BY DEF Witnessed
<1>3. QED
  BY <1>1, <1>2

\* All that was found of a group of tools was there at one of the moments.
LEMMA AllThere ==
    ASSUME NEW x, NEW y, Near(x, y), NEW G, G \cap TorchTools = {}, \A n \in G : n \in x.has \/ n \in y.has
    PROVE  \E w \in {x, y} : G \subseteq w.has
<1>1. CASE \E t : \A n : n # t => (n \in x.has <=> n \in y.has)
  <2>1. PICK t : \A n : n # t => (n \in x.has <=> n \in y.has)
    BY <1>1
  <2>2. CASE t \in G
    <3>1. PICK w \in {x, y} : t \in w.has
      BY <2>2
    <3>2. G \subseteq w.has
      BY <2>1, <3>1
    <3>3. QED
      BY <3>1, <3>2
  <2>3. CASE t \notin G
    <3>1. G \subseteq x.has
      BY <2>1, <2>3
    <3>2. QED
      BY <3>1
  <2>4. QED
    BY <2>2, <2>3
<1>2. CASE \A n : n \notin TorchTools => (n \in x.has <=> n \in y.has)
  <2>1. G \subseteq x.has
    BY <1>2
  <2>2. QED
    BY <2>1
<1>3. CASE y.has = x.has
  <2>1. G \subseteq x.has
    BY <1>3
  <2>2. QED
    BY <2>1
<1>4. QED
  BY <1>1, <1>2, <1>3 DEF Near

\* A domain that looks ready was so at one of the moments.
LEMMA DevWasReady ==
    ASSUME NEW x, NEW y, Near(x, y), NEW s, Witnessed("development", s, x, y), DevReady(s)
    PROVE  \E w \in {x, y} : DevReady(At("development", w))
<1>1. /\ {"uv", "fnm", "rustup", "go"} \cup CPP_TOOLS \subseteq Probes("development") \ Special
      /\ CPP_TOOLS \cap TorchTools = {} /\ "development" \in Planners
  BY DevAsks, Purposeful DEF Planners, Special, CPP_TOOLS
<1>2. \A w : \A n \in {"uv", "fnm", "rustup", "go"} \cup CPP_TOOLS : At("development", w)[n] <=> n \in w.has
  BY <1>1, LookedFor
<1>3. CASE \E n \in {"uv", "fnm", "rustup", "go"} : s[n]
  <2>1. PICK n \in {"uv", "fnm", "rustup", "go"} : s[n]
    BY <1>3
  <2>2. PICK w \in {x, y} : n \in w.has
    BY <1>1, <2>1, FoundThere
  <2>3. At("development", w)[n]
    BY <1>2, <2>2
  <2>4. DevReady(At("development", w))
    BY <2>1, <2>3, ReadyWhen
  <2>5. QED
    BY <2>4
<1>4. CASE \A n \in CPP_TOOLS : s[n]
  <2>1. \A n \in CPP_TOOLS : n \in x.has \/ n \in y.has
    BY <1>1, <1>4, FoundThere
  <2>2. PICK w \in {x, y} : CPP_TOOLS \subseteq w.has
    BY <1>1, <2>1, AllThere
  <2>3. \A n \in CPP_TOOLS : At("development", w)[n]
    BY <1>2, <2>2
  <2>4. DevReady(At("development", w))
    BY <2>3, ReadyWhen
  <2>5. QED
    BY <2>4
<1>5. QED
  BY <1>3, <1>4, ReadyWhen

\* CPU AI called ready was ready at one of the two moments.
LEMMA CpuWasReady ==
    ASSUME NEW x, NEW y, NEW s, Witnessed("ai", s, x, y), CpuAiReady(s)
    PROVE  \E w \in {x, y} : CpuAiReady(At("ai", w))
<1>1. /\ {"ollama", "llama-cli", "llama-server"} \subseteq Probes("ai") \ Special
      /\ "ai" \in Planners /\ "torch" \in Probes("ai")
  BY AiAsks DEF Planners, Special
<1>2. \A w : \A n \in {"ollama", "llama-cli", "llama-server"} : At("ai", w)[n] <=> n \in w.has
  BY <1>1, LookedFor
<1>3. CASE s["torch"] = "cpu"
  <2>1. Unknown # "cpu"
    BY UnknownBuildAssumption DEF TorchBuild
  <2>2. PICK w \in {x, y} : Reply(w, "torch") = "cpu"
    BY <1>1, <1>3, <2>1 DEF Witnessed, NoReply
  <2>3. At("ai", w)["torch"] = "cpu"
    BY <1>1, <2>2, SeenIsReply DEF At
  <2>4. CpuAiReady(At("ai", w))
    BY <2>3, ReadyWhen
  <2>5. QED
    BY <2>4
<1>4. CASE \E n \in {"ollama", "llama-cli", "llama-server"} : s[n]
  <2>1. PICK n \in {"ollama", "llama-cli", "llama-server"} : s[n]
    BY <1>4
  <2>2. PICK w \in {x, y} : n \in w.has
    BY <1>1, <2>1, FoundThere
  <2>3. At("ai", w)[n]
    BY <1>2, <2>2
  <2>4. CpuAiReady(At("ai", w))
    BY <2>1, <2>3, ReadyWhen
  <2>5. QED
    BY <2>4
<1>5. QED
  BY <1>3, <1>4, ReadyWhen

\* A build for CUDA and a driver that runs, both of one moment.
LEMMA GpuWasReady ==
    ASSUME NEW x, NEW y, Near(x, y), NEW s, Witnessed("ai", s, x, y), GpuTorchUsable(s)
    PROVE  \E w \in {x, y} : GpuTorchUsable(At("ai", w)) /\ RunsOnGpu(w) /\ w.cards # <<>>
<1>1. {"torch", "cards1", "nvidia-smi"} \subseteq Probes("ai") /\ "ai" \in Planners
  BY AiAsks DEF Planners
<1>2. s["torch"] = "cuda" /\ s["nvidia-smi"]
  BY ReadyWhen
<1>3. Unknown # "cuda"
  BY UnknownBuildAssumption DEF TorchBuild
<1>4. PICK u \in {x, y} : Torch(u) = "cuda"
  BY <1>1, <1>2, <1>3 DEF Witnessed, NoReply, Reply
<1>5. PICK v \in {x, y} : DriverRuns(v)
  BY <1>1, <1>2 DEF Witnessed, NoReply, Reply
<1>6. \E w \in {x, y} : Torch(w) = "cuda" /\ DriverRuns(w)
  <2>1. CASE y.has = x.has
    <3>1. Builds(x) = Builds(y)
      BY <2>1 DEF Builds
    <3>2. Torch(v) = "cuda"
      BY <1>4, <3>1, SameTorch
    <3>3. QED
      BY <1>5, <3>2
  <2>2. CASE y.cards = x.cards /\ \A n : n \notin TorchTools => (n \in x.has <=> n \in y.has)
    <3>1. "nvidia-driver" \notin TorchTools /\ "loaded" \notin TorchTools
      BY Purposeful
    <3>2. DriverRuns(u)
      BY <1>5, <2>2, <3>1 DEF DriverRuns
    <3>3. QED
      BY <1>4, <3>2
  <2>3. CASE \E t : t \notin TorchTools /\ \A n : n # t => (n \in x.has <=> n \in y.has)
    <3>1. \A n \in TorchTools : n \in x.has <=> n \in y.has
      BY <2>3
    <3>2. Builds(x) = Builds(y)
      BY <3>1 DEF Builds, TorchTools
    <3>3. Torch(v) = "cuda"
      BY <1>4, <3>2, SameTorch
    <3>4. QED
      BY <1>5, <3>3
  <2>4. QED
    BY <2>1, <2>2, <2>3 DEF Near
<1>7. PICK w \in {x, y} : Torch(w) = "cuda" /\ DriverRuns(w)
  BY <1>6
<1>8. OfVendor(w.cards, "NVIDIA") /\ w.cards # <<>>
  BY <1>7, CardsOfVendors DEF DriverRuns, NvidiaPresent
<1>9. "torch.cuda" \in w.has
  <2>1. Builds(w) # {} /\ Torch(w) \in Builds(w)
    <3>1. Builds(w) # {}
      BY <1>3, <1>7 DEF Torch
    <3>2. QED
      BY <3>1, Zenon DEF Torch
  <2>2. "cuda" \in Builds(w)
    BY <1>7, <2>1
  <2>3. QED
    BY <2>2 DEF Builds, TorchBuild
<1>10. At("ai", w)["torch"] = "cuda" /\ At("ai", w)["cards1"] = w.cards /\ At("ai", w)["nvidia-smi"] = DriverRuns(w)
  <2>1. \A probe \in {"torch", "cards1", "nvidia-smi"} : At("ai", w)[probe] = Reply(w, probe)
    BY <1>1, SeenIsReply, Zenon DEF At
  <2>2. Reply(w, "torch") = Torch(w) /\ Reply(w, "cards1") = w.cards
        /\ Reply(w, "nvidia-smi") = DriverRuns(w)
    BY DEF Reply
  <2>3. QED
    BY <1>7, <2>1, <2>2
<1>11. GpuTorchUsable(At("ai", w))
  BY <1>7, <1>8, <1>10, ReadyWhen
<1>12. QED
  BY <1>7, <1>8, <1>9, <1>11 DEF RunsOnGpu

\* The toolbox, or a VM with all it requires.
LEMMA CyberWasReady ==
    ASSUME NEW x, NEW y, Near(x, y), NEW s, Witnessed("cyber", s, x, y), CyberReady(s)
    PROVE  \E w \in {x, y} : CyberReady(At("cyber", w))
<1> DEFINE vm == {"kvm", "kvmModule", "qemu", "libvirt"}
<1>1. /\ {"podman", "docker", "distrobox"} \cup vm \subseteq Probes("cyber") \ Special
      /\ {"podman", "docker", "distrobox", "kvmAccess", "kvmUnreadable"} \cup vm \subseteq
             {n \in {"podman", "docker", "distrobox", "kvmAccess", "kvmUnreadable"} \cup vm : n \notin TorchTools}
      /\ "cyber" \in Planners /\ "kvmAccess" \in Probes("cyber")
  BY CyberAsks, Purposeful DEF Planners, Special
<1>2. \A w : \A n \in {"podman", "docker", "distrobox"} \cup vm : At("cyber", w)[n] <=> n \in w.has
  BY <1>1, LookedFor
<1>3. \A w : At("cyber", w)["kvmAccess"] = KvmAccess(w)
  BY <1>1, SeenIsReply DEF At, Reply
<1>4. CASE (s["podman"] \/ s["docker"]) /\ s["distrobox"]
  <2>1. PICK e \in {"podman", "docker"} : s[e]
    BY <1>4
  <2> DEFINE box == {e, "distrobox"}
  <2>2. \A n \in box : n \in x.has \/ n \in y.has
    BY <1>1, <1>4, <2>1, FoundThere
  <2>3. box \cap TorchTools = {}
    BY <1>1
  <2> HIDE DEF box
  <2>4. PICK w \in {x, y} : box \subseteq w.has
    BY <2>2, <2>3, AllThere
  <2>5. At("cyber", w)[e] /\ At("cyber", w)["distrobox"]
    BY <1>2, <2>1, <2>4 DEF box
  <2>6. CyberReady(At("cyber", w))
    BY <2>1, <2>5, ReadyWhen
  <2>7. QED
    BY <2>6
<1>5. CASE VmReadiness(s) = "ready"
  <2>1. s["kvm"] /\ s["kvmModule"] /\ s["kvmAccess"] # Unknown /\ s["kvmAccess"] # FALSE /\ s["qemu"] /\ s["libvirt"]
    BY <1>5 DEF VmReadiness
  <2>2. \A n \in vm : n \in x.has \/ n \in y.has
    BY <1>1, <2>1, FoundThere
  <2>3. PICK u \in {x, y} : KvmAccess(u) # Unknown /\ KvmAccess(u) # FALSE
    BY <1>1, <2>1 DEF Witnessed, NoReply, Reply
  <2>4. "kvmUnreadable" \notin u.has /\ "kvm" \in u.has /\ "kvmAccess" \in u.has
    BY <2>3 DEF KvmAccess
  <2>5. \E w \in {x, y} : vm \cup {"kvmAccess"} \subseteq w.has /\ "kvmUnreadable" \notin w.has
    <3>1. CASE \E t : \A n : n # t => (n \in x.has <=> n \in y.has)
      <4>1. PICK t : \A n : n # t => (n \in x.has <=> n \in y.has)
        BY <3>1
      <4>2. CASE t \in {"kvm", "kvmAccess", "kvmUnreadable"}
        <5>1. \A n \in {"kvmModule", "qemu", "libvirt"} : n \in u.has
          BY <2>2, <4>1, <4>2
        <5>2. vm \cup {"kvmAccess"} \subseteq u.has /\ "kvmUnreadable" \notin u.has
          BY <2>4, <5>1
        <5>3. QED
          BY <5>2
      <4>3. CASE t \notin {"kvm", "kvmAccess", "kvmUnreadable"}
        <5>1. \A w \in {x, y} : "kvmUnreadable" \notin w.has /\ "kvm" \in w.has /\ "kvmAccess" \in w.has
          BY <2>4, <4>1, <4>3
        <5>2. vm \cap TorchTools = {}
          BY <1>1
        <5>3. PICK w \in {x, y} : vm \subseteq w.has
          <6> HIDE DEF vm
          <6>1. QED
            BY <2>2, <5>2, AllThere
        <5>4. QED
          BY <5>1, <5>3
      <4>4. QED
        BY <4>2, <4>3
    <3>2. CASE \A n : n \notin TorchTools => (n \in x.has <=> n \in y.has)
      <4>1. \A n \in vm \cup {"kvmAccess", "kvmUnreadable"} : n \in x.has <=> n \in y.has
        BY <1>1, <3>2
      <4>2. vm \cup {"kvmAccess"} \subseteq u.has
        BY <2>2, <2>4, <4>1
      <4>3. QED
        BY <2>4, <4>2
    <3>3. CASE y.has = x.has
      <4>1. vm \cup {"kvmAccess"} \subseteq u.has
        BY <2>2, <2>4, <3>3
      <4>2. QED
        BY <2>4, <4>1
    <3>4. QED
      BY <3>1, <3>2, <3>3 DEF Near
  <2>6. PICK w \in {x, y} : vm \cup {"kvmAccess"} \subseteq w.has /\ "kvmUnreadable" \notin w.has
    BY <2>5
  <2>7. KvmAccess(w) = TRUE
    BY <2>6 DEF KvmAccess
  <2> DEFINE r == At("cyber", w)
  <2>8. r["kvm"] /\ r["kvmModule"] /\ r["qemu"] /\ r["libvirt"] /\ r["kvmAccess"] = TRUE
    BY <1>2, <1>3, <2>6, <2>7
  <2> HIDE DEF r
  <2>9. VmReadiness(r) = "ready"
    BY <2>8, UnknownAssumption DEF VmReadiness
  <2>10. CyberReady(r)
    BY <2>9, ReadyWhen
  <2>11. QED
    BY <2>10 DEF r
<1>6. QED
  BY <1>4, <1>5, ReadyWhen

\* The facts of the evidence, one by one.
LEMMA EvidenceIs ==
    ASSUME NEW cards, NEW dev, NEW ai, NEW cyber
    PROVE  LET E == EvidenceOf(cards, dev, ai, cyber) IN
           /\ "toolchain" \in E <=> DevReady(dev)
           /\ "gpuTorch" \in E <=> GpuTorchUsable(ai)
           /\ "cpuAi" \in E <=> CpuAiReady(ai)
           /\ "isolation" \in E <=> CyberReady(cyber)
           /\ "gpu" \in E <=> cards # <<>>
BY DEF EvidenceOf

\* The evidence on a machine that stays as it is.
LEMMA EvidenceAt ==
    ASSUME NEW x
    PROVE  Evidence(x) = EvidenceOf(x.cards, At("development", x), At("ai", x), At("cyber", x))
<1>1. \A p \in Planners : \A k : Seen(p, x, x, k, {}) = At(p, x)
  BY DEF Seen, At
<1>2. Sections[1] = "development" /\ Sections[2] = "ai" /\ Sections[3] = "cyber"
  BY DEF Sections
<1>3. QED
  BY <1>1, <1>2 DEF Evidence, Gathered, Planners

\* What bounds the evidence bounds what the focus says of it.
LEMMA EvidenceBounds ==
    ASSUME NEW E, NEW real,
           \A fact \in {"toolchain", "isolation"} : fact \in E => \E R \in real : fact \in R,
           {"gpuTorch", "cpuAi"} \cap E # {} => \E R \in real : {"gpuTorch", "cpuAi"} \cap R # {},
           {"gpu", "gpuTorch"} \subseteq E => \E R \in real : {"gpu", "gpuTorch"} \subseteq R,
           real # {}
    PROVE  Bounds(E, real)
<1>1. ASSUME NEW d \in {"dev", "ai", "cyber"}
      PROVE  \E R \in real : F!Rank[F!Readiness(d, E)] <= F!Rank[F!Readiness(d, R)]
  <2>1. \A A : F!Readiness(d, A) = IF F!Supporting[d] \cap A # {} THEN "available" ELSE "limited"
    BY <1>1 DEF F!Readiness
  <2>2. F!Supporting[d] \cap E # {} => \E R \in real : F!Supporting[d] \cap R # {}
    BY <1>1 DEF F!Supporting
  <2>3. F!Rank["available"] = 2 /\ F!Rank["limited"] = 1
    BY DEF F!Rank
  <2>4. \E R \in real : F!Supporting[d] \cap E # {} => F!Supporting[d] \cap R # {}
    BY <2>2
  <2>5. QED
    BY <2>1, <2>3, <2>4
<1>2. ASSUME F!GpuIntent("ai", E).preferred # None
      PROVE  \E R \in real : F!GpuIntent("ai", R).preferred # None
  <2>1. {"gpu", "gpuTorch"} \subseteq E /\ "ai" # None
    BY <1>2 DEF F!GpuIntent
  <2>2. PICK R \in real : {"gpu", "gpuTorch"} \subseteq R
    BY <2>1
  <2>3. F!GpuIntent("ai", R).preferred # None
    BY <2>1, <2>2 DEF F!GpuIntent
  <2>4. QED
    BY <2>3
<1>3. QED
  BY <1>1, <1>2 DEF Bounds

\* Three reports of which every reply was that of x or y, or missing.
LEMMA WitnessedBounds ==
    ASSUME NEW x, NEW y, Near(x, y), NEW dev, NEW ai, NEW cyber,
           Witnessed("development", dev, x, y), Witnessed("ai", ai, x, y), Witnessed("cyber", cyber, x, y)
    PROVE  LET E == EvidenceOf(x.cards, dev, ai, cyber) IN
           /\ Bounds(E, {Evidence(x), Evidence(y)})
           /\ F!GpuIntent("ai", E).preferred # None => RunsOnGpu(x) \/ RunsOnGpu(y)
<1> DEFINE E == EvidenceOf(x.cards, dev, ai, cyber)
<1>1. /\ "toolchain" \in E <=> DevReady(dev)
      /\ "gpuTorch" \in E <=> GpuTorchUsable(ai)
      /\ "cpuAi" \in E <=> CpuAiReady(ai)
      /\ "isolation" \in E <=> CyberReady(cyber)
  BY EvidenceIs
<1>2. \A w : /\ "toolchain" \in Evidence(w) <=> DevReady(At("development", w))
             /\ "gpuTorch" \in Evidence(w) <=> GpuTorchUsable(At("ai", w))
             /\ "cpuAi" \in Evidence(w) <=> CpuAiReady(At("ai", w))
             /\ "isolation" \in Evidence(w) <=> CyberReady(At("cyber", w))
             /\ "gpu" \in Evidence(w) <=> w.cards # <<>>
  BY EvidenceIs, EvidenceAt
<1> HIDE DEF E
<1>3. "toolchain" \in E => \E w \in {x, y} : "toolchain" \in Evidence(w)
  BY <1>1, <1>2, DevWasReady
<1>4. "isolation" \in E => \E w \in {x, y} : "isolation" \in Evidence(w)
  BY <1>1, <1>2, CyberWasReady
<1>5. "cpuAi" \in E => \E w \in {x, y} : "cpuAi" \in Evidence(w)
  BY <1>1, <1>2, CpuWasReady
<1>6. "gpuTorch" \in E => \E w \in {x, y} : {"gpu", "gpuTorch"} \subseteq Evidence(w) /\ RunsOnGpu(w)
  BY <1>1, <1>2, GpuWasReady
<1>7. Bounds(E, {Evidence(x), Evidence(y)})
  <2> DEFINE real == {Evidence(x), Evidence(y)}
  <2>1. \A fact \in {"toolchain", "isolation"} : fact \in E => \E R \in real : fact \in R
    BY <1>3, <1>4
  <2>2. {"gpuTorch", "cpuAi"} \cap E # {} => \E R \in real : {"gpuTorch", "cpuAi"} \cap R # {}
    BY <1>5, <1>6
  <2>3. {"gpu", "gpuTorch"} \subseteq E => \E R \in real : {"gpu", "gpuTorch"} \subseteq R
    BY <1>6
  <2>4. real # {}
    OBVIOUS
  <2> HIDE DEF real
  <2>5. Bounds(E, real)
    BY <2>1, <2>2, <2>3, <2>4, EvidenceBounds
  <2>6. QED
    BY <2>5 DEF real
<1>8. F!GpuIntent("ai", E).preferred # None => RunsOnGpu(x) \/ RunsOnGpu(y)
  <2>1. F!GpuIntent("ai", E).preferred # None => "gpuTorch" \in E
    BY DEF F!GpuIntent
  <2>2. QED
    BY <1>6, <2>1
<1>9. QED
  BY <1>7, <1>8 DEF E

\* On every machine, whatever changes while the evidence is gathered and
\* whichever probe does not end, no focus is called readier than it was at one
\* of the moments, and the GPU is preferred for AI only where PyTorch ran on it.
THEOREM FocusIsBounded == Spec => []FocusNeverOverclaims
<1>1. IInv => FocusNeverOverclaims
  <2> SUFFICES ASSUME IInv
      PROVE /\ \A y \in Changed(m) : \A n \in DOMAIN Sections : \A k \in Cuts(Sections[n], m, y) :
                  LET E == Gathered(m, y, n, k, {}) IN
                  /\ Bounds(E, {Evidence(m), Evidence(y)})
                  /\ F!GpuIntent("ai", E).preferred # None => RunsOnGpu(m) \/ RunsOnGpu(y)
            /\ \A p \in Planners : \A t \in Timeouts(p) :
                  Bounds(Gathered(m, m, 1, 0, {t}), {Evidence(m)})
    BY DEF FocusNeverOverclaims
  <2>1. Machine(m)
    BY DEF IInv, Shaped
  <2>2. Sections[1] = "development" /\ Sections[2] = "ai" /\ Sections[3] = "cyber"
    BY DEF Sections
  <2>3. \A y : \A k : \A p \in Planners : Witnessed(p, Seen(p, m, y, k, {}), m, y)
    BY DEF Seen, Witnessed
  <2>4. ASSUME NEW y \in Changed(m), NEW n, NEW k
        PROVE  LET E == Gathered(m, y, n, k, {}) IN
               /\ Bounds(E, {Evidence(m), Evidence(y)})
               /\ F!GpuIntent("ai", E).preferred # None => RunsOnGpu(m) \/ RunsOnGpu(y)
    <3>1. Near(m, y)
      BY <2>1, OneChange DEF Near
    <3> DEFINE at(i) == IF i < n THEN Len(Order[Sections[i]]) ELSE IF i = n THEN k ELSE 0
           dev == Seen("development", m, y, at(1), {})
           ai == Seen("ai", m, y, at(2), {})
           cyber == Seen("cyber", m, y, at(3), {})
    <3>2. Gathered(m, y, n, k, {}) = EvidenceOf(m.cards, dev, ai, cyber)
      BY <2>2 DEF Gathered
    <3> HIDE DEF at
    <3>3. Witnessed("development", dev, m, y) /\ Witnessed("ai", ai, m, y) /\ Witnessed("cyber", cyber, m, y)
      BY <2>3 DEF Planners
    <3> HIDE DEF dev, ai, cyber
    <3>4. LET E == EvidenceOf(m.cards, dev, ai, cyber) IN
          /\ Bounds(E, {Evidence(m), Evidence(y)})
          /\ F!GpuIntent("ai", E).preferred # None => RunsOnGpu(m) \/ RunsOnGpu(y)
      BY <3>1, <3>3, WitnessedBounds, Zenon
    <3>5. QED
      BY <3>2, <3>4, Zenon
  <2>5. ASSUME NEW p \in Planners, NEW t \in Timeouts(p)
        PROVE  Bounds(Gathered(m, m, 1, 0, {t}), {Evidence(m)})
    <3>1. Near(m, m)
      BY DEF Near
    <3>2. t \notin Lasting
      BY DEF Timeouts
    <3>3. \A k : \A q \in Planners : Witnessed(q, Seen(q, m, m, k, {t}), m, m)
      BY <3>2 DEF Seen, Witnessed
    <3> DEFINE at(i) == IF i < 1 THEN Len(Order[Sections[i]]) ELSE IF i = 1 THEN 0 ELSE 0
           dev == Seen("development", m, m, at(1), {t})
           ai == Seen("ai", m, m, at(2), {t})
           cyber == Seen("cyber", m, m, at(3), {t})
    <3>4. Gathered(m, m, 1, 0, {t}) = EvidenceOf(m.cards, dev, ai, cyber)
      BY <2>2 DEF Gathered
    <3> HIDE DEF at
    <3>5. Witnessed("development", dev, m, m) /\ Witnessed("ai", ai, m, m) /\ Witnessed("cyber", cyber, m, m)
      BY <3>3 DEF Planners
    <3> HIDE DEF dev, ai, cyber
    <3>6. Bounds(Gathered(m, m, 1, 0, {t}), {Evidence(m), Evidence(m)})
      BY <3>1, <3>4, <3>5, WitnessedBounds, Zenon
    <3>7. {Evidence(m), Evidence(m)} = {Evidence(m)}
      OBVIOUS
    <3>8. QED
      BY <3>6, <3>7
  <2>6. QED
    BY <2>4, <2>5
<1>2. QED
  BY <1>1, Invariance, PTL
=============================================================================
