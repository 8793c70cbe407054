---------------------------- MODULE MCWorkstation ----------------------------
(* Machines Workstation starts on.  Each lacks what its story is about and    *)
(* has everything else, so that the plans in hand stay few; others change     *)
(* what the story is about.                                                *)
EXTENDS Workstation

Usual == BASE_TOOLS \cup GIT_TOOLS \cup CPP_TOOLS \cup HOST_TOOLS \cup Baseline
         \cup {"uv", "fnm", "pnpm", "rustup", "go", "zed", "podman", "distrobox", "dumpcap",
               "ollama", "llama-cli", "torch.cpu", "kvm", "kvmModule", "kvmAccess", "qemu",
               "libvirt"}

Base(lacks, adds, cards, others) ==
    [has |-> (Usual \ lacks) \cup adds, cards |-> cards, others |-> others]

MCMachines ==
    {\* containers and a VM
     Base({"podman", "distrobox", "libvirt"}, {}, <<>>, {"podman", "docker", "distrobox", "kvmModule"}),
     Base({"podman"}, {"container", "captureDenied"}, <<"virtual">>, {"docker", "qemu"}),
     Base({"dumpcap", "gcc"}, {"kvmUnreadable", "captureAllowed"}, <<>>, {"g++", "tshark", "kvm"}),
     \* Node
     Base({"fnm", "pnpm"}, {}, <<"virtual">>, {"fnm", "mise", "nvm"}),
     \* a laptop with a dock for an NVIDIA card, before and after its driver
     Base({"torch.cpu"}, {"cudaMarker"}, <<"igpu">>, {"nvidia", "loaded", "torch.cpu", "nvidia-ctk"}),
     Base({"torch.cpu", "llama-cli"}, {"nvidia-driver", "torch.cuda"}, <<"igpu", "nvidia">>,
          {"nvidia", "loaded", "torch.cuda", "llama-server"}),
     \* AMD, with and without ROCm
     Base({"torch.cpu"}, {"rocminfo"}, <<"desktop">>, {"nvidia", "rocminfo", "rocmSupports"}),
     Base({"torch.cpu"}, {"rocminfo", "rocmSupports", "torch.rocm"}, <<"desktop", "offload">>,
          {"rocmSupports", "rocminfo", "torch.xpu"})}
=============================================================================
