------------------------------- MODULE AiPlan -------------------------------
(***************************************************************************)
(* serein.ai: the plan of `serein ai plan`, the capability report and the   *)
(* doctor, as functions of what the probes of one invocation replied.  The *)
(* cards are scanned twice: once for the devices, once to classify them.   *)
(* A scan is one probe: of each card only the vendor decides, a file read   *)
(* once, and a card that is gone by then is of no vendor, so that every     *)
(* action is what it would be without it.                                  *)
(*                                                                         *)
(* Not distinguished: versions, reasons, amounts of memory, the kind and    *)
(* the confidence of a backend candidate, which no action depends on.      *)
(***************************************************************************)
EXTENDS GpuPolicy, CyberPlan

Baseline == {"transformers", "accelerate", "safetensors", "huggingface_hub"}

\* The probes of each detector, and of build_ai_plan, in their order.  "torch"
\* replies with the backend of the build, "rocmAgents" with whether rocminfo
\* lists a GPU.
NvidiaProbes      == <<"nvidia-smi", "nvcc", "cuda-toolkit", "cudaMarker">>
AmdProbes         == <<"rocminfo", "rocmAgents">>
PackageProbes     == <<"transformers", "accelerate", "safetensors", "huggingface_hub">>
InferenceProbes   == <<"ollama", "llama-cli", "llama-server">>
AiContainerProbes == ContainerProbes \o <<"nvidia-ctk", "cdi">>
AiProbes == <<"cards1", "cards2">> \o NvidiaProbes \o AmdProbes \o <<"torch">>
            \o PackageProbes \o InferenceProbes \o AiContainerProbes \o <<"container">>

----------------------------------------------------------------------------
(* Detectors and the backend decision                                      *)

NvidiaHardware(s) == NvidiaPresent(s.cards1)
OfVendor(cards, v) == \E i \in DOMAIN cards : Cards[cards[i]].vendor = v

\* The driver works when nvidia-smi says so; a card alone proves nothing.
DriverWorks(s) == s["nvidia-smi"]

CudaToolkit(s) == s.nvcc \/ s["cuda-toolkit"]

RocmEnumerated(s) == IF s.rocminfo THEN s.rocmAgents ELSE Unknown

\* classify_backend: the best candidate among the cards of the first scan.
Primary(s) ==
    IF OfVendor(s.cards1, "NVIDIA") THEN "nvidia_cuda"
    ELSE IF OfVendor(s.cards1, "AMD") THEN "amd_rocm"
    ELSE IF OfVendor(s.cards1, "Intel") THEN "intel_gpu"
    ELSE IF s.cards1 # <<>> THEN "unknown" ELSE "cpu"

Decision(target, status) == [target |-> target, status |-> status]

\* Mutant: an NVIDIA card is taken for a working CUDA.
SelectByCandidate(s) ==
    CASE Primary(s) = "nvidia_cuda" -> Decision("cuda", "APPLY")
      [] Primary(s) = "amd_rocm"    -> IF RocmEnumerated(s) = FALSE
                                         THEN Decision("cpu", "APPLY")
                                         ELSE Decision("rocm", "BLOCKED")
      [] Primary(s) = "intel_gpu"   -> Decision("xpu", "BLOCKED")
      [] OTHER                      -> Decision("cpu", "APPLY")

\* Mutant: where the rescan finds no NVIDIA card, the CPU build is chosen.
SelectWithFallback(s) ==
    CASE Primary(s) = "nvidia_cuda" -> IF DriverWorks(s) THEN Decision("cuda", "APPLY")
                                       ELSE IF ~NvidiaPresent(s.cards2)
                                         THEN Decision("cpu", "APPLY")
                                       ELSE Decision("cuda", "BLOCKED")
      [] Primary(s) = "amd_rocm"    -> IF RocmEnumerated(s) = FALSE
                                         THEN Decision("cpu", "APPLY")
                                         ELSE Decision("rocm", "BLOCKED")
      [] Primary(s) = "intel_gpu"   -> Decision("xpu", "BLOCKED")
      [] OTHER                      -> Decision("cpu", "APPLY")

\* select_pytorch_backend: no accelerator without evidence that it runs, and
\* no silent fall-back to the CPU either.
Select(s) ==
    CASE Primary(s) = "nvidia_cuda" -> Decision("cuda", IF DriverWorks(s) THEN "APPLY"
                                                        ELSE "BLOCKED")
      [] Primary(s) = "amd_rocm"    -> IF RocmEnumerated(s) = FALSE
                                         THEN Decision("cpu", "APPLY")
                                         ELSE Decision("rocm", "BLOCKED")
      [] Primary(s) = "intel_gpu"   -> Decision("xpu", "BLOCKED")
      [] OTHER                      -> Decision("cpu", "APPLY")

----------------------------------------------------------------------------
(* The plan                                                                *)

DriverAction(s) ==
    IF ~NvidiaHardware(s) THEN Do("SKIP", {})
    ELSE IF DriverWorks(s) THEN Do("NOOP", {}) ELSE Do("APPLY", {"nvidia-driver"})

\* The toolkit is optional: never proposed.
CudaToolkitAction(s) == Do(IF NvidiaHardware(s) THEN "NOOP" ELSE "SKIP", {})

RocmAction(s) ==
    Do(IF ~OfVendor(s.cards2, "AMD") THEN "SKIP" ELSE IF s.rocminfo THEN "NOOP" ELSE "BLOCKED", {})

TorchBuild == [cuda |-> "torch.cuda", rocm |-> "torch.rocm", xpu |-> "torch.xpu",
               cpu |-> "torch.cpu"]

ASSUME UnknownBuildAssumption == Unknown \notin DOMAIN TorchBuild

\* Any installed build is left as it is.
PyTorch(s) ==
    IF s.torch # Unknown THEN Do("NOOP", {})
    ELSE IF Select(s).status = "BLOCKED" THEN Do("BLOCKED", {})
    ELSE Do("APPLY", {TorchBuild[Select(s).target]})

\* Mutant: only the server is looked for.
LlamaCppOfServer(s) ==
    IF s["llama-server"] THEN Do("NOOP", {}) ELSE Do("APPLY", {"llama-cli"})

LlamaCpp(s) ==
    IF s["llama-cli"] \/ s["llama-server"] THEN Do("NOOP", {}) ELSE Do("APPLY", {"llama-cli"})

AiContainers(s) ==
    IF s.container THEN Do("SKIP", {})
    ELSE IF s.podman \/ s.docker THEN Do("NOOP", {}) ELSE Do("APPLY", {"podman"})

\* Only beside a driver that works.
NvidiaToolkit(s) ==
    IF s.container \/ ~OfVendor(s.cards1, "NVIDIA") THEN Do("SKIP", {})
    ELSE IF s["nvidia-ctk"] THEN Do("NOOP", {})
    ELSE IF ~DriverWorks(s) THEN Do("BLOCKED", {})
    ELSE Do("APPLY", {"nvidia-ctk"})

AiActions == {"nvidia.driver", "nvidia.cuda_toolkit", "amd.rocm", "python.pytorch",
              "python.transformers_baseline", "inference.ollama", "inference.llama_cpp",
              "containers.engine", "containers.nvidia_toolkit", "voice.workload_note"}

\* build_ai_plan
AiPlanOf(s) ==
    [id \in AiActions |->
        CASE id = "nvidia.driver"                -> DriverAction(s)
          [] id = "nvidia.cuda_toolkit"          -> CudaToolkitAction(s)
          [] id = "amd.rocm"                     -> RocmAction(s)
          [] id = "python.pytorch"               -> PyTorch(s)
          [] id = "python.transformers_baseline" -> AptGroup(s, Baseline)
          [] id = "inference.ollama"             -> InstallTool(s, "ollama")
          [] id = "inference.llama_cpp"          -> LlamaCpp(s)
          [] id = "containers.engine"            -> AiContainers(s)
          [] id = "containers.nvidia_toolkit"    -> NvidiaToolkit(s)
          [] id = "voice.workload_note"          -> Do("NOOP", {})]

----------------------------------------------------------------------------
(* The capability report and the doctor                                    *)

\* A build is usable when it is the one the decision confirms; not installed,
\* its usability is not known.
TorchUsable(s, build) ==
    IF s.torch # build THEN Unknown ELSE Select(s) = Decision(build, "APPLY")

AiCapabilities(s) ==
    LET nvidia == OfVendor(s.cards1, "NVIDIA")
        engine == s.podman \/ s.docker
    IN
    [nvidia_driver |-> Usable(NvidiaHardware(s), NvidiaHardware(s) /\ DriverWorks(s),
                              IF NvidiaHardware(s) THEN DriverWorks(s) ELSE Unknown),
     cuda_toolkit  |-> Usable(TRUE, CudaToolkit(s),
                              IF NvidiaHardware(s) THEN CudaToolkit(s) ELSE Unknown),
     rocm_runtime  |-> Usable(OfVendor(s.cards2, "AMD"), s.rocminfo, RocmEnumerated(s)),
     pytorch       |-> Usable(TRUE, s.torch # Unknown, s.torch # Unknown),
     pytorch_cuda  |-> Usable(nvidia, s.torch = "cuda", TorchUsable(s, "cuda")),
     pytorch_rocm  |-> Usable(OfVendor(s.cards1, "AMD"), s.torch = "rocm",
                              TorchUsable(s, "rocm")),
     pytorch_cpu   |-> Usable(TRUE, s.torch = "cpu", s.torch = "cpu"),
     ollama        |-> Usable(TRUE, s.ollama, s.ollama),
     llama_cpp     |-> Usable(TRUE, s["llama-cli"] \/ s["llama-server"],
                              s["llama-cli"] \/ s["llama-server"]),
     ai_container_runtime |->
         Usable(TRUE, engine,
                engine /\ (nvidia => DriverWorks(s) /\ s["nvidia-ctk"] /\ s.cdi))]

DoctorBackend(s) == IF Primary(s) = "unknown" THEN "WARN" ELSE "PASS"

DoctorCudaMarker(s) == IF s.cudaMarker /\ ~CudaToolkit(s) THEN "WARN" ELSE "PASS"

DoctorRocm(s) ==
    IF OfVendor(s.cards2, "AMD") /\ RocmEnumerated(s) = FALSE THEN "WARN" ELSE "PASS"

DoctorCdi(s) == IF s["nvidia-ctk"] /\ ~s.cdi THEN "WARN" ELSE "PASS"

\* The support of native XPU is not known for any card, so every XPU build warns.
DoctorTorchMismatch(s) ==
    IF \/ s.torch = "cuda" /\ ~DriverWorks(s)
       \/ s.torch = "rocm" /\ RocmEnumerated(s) # TRUE
       \/ s.torch = "xpu"
       \/ s.torch = "cpu" /\ Primary(s) \in {"nvidia_cuda", "amd_rocm", "intel_gpu"}
      THEN "WARN" ELSE "PASS"

\* usable_ai_gpu_backend and _ai_readiness of the focus policy
GpuTorchUsable(s) ==
    \E c \in {"pytorch_cuda", "pytorch_rocm"} : AiCapabilities(s)[c].usable = TRUE

CpuAiReady(s) ==
    \/ AiCapabilities(s).pytorch_cpu.usable = TRUE
    \/ \E c \in {"ollama", "llama_cpp"} : AiCapabilities(s)[c].installed
=============================================================================
