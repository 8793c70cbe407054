--------------------------- MODULE DevelopmentPlan ---------------------------
(***************************************************************************)
(* serein.development: the plan of `serein development plan`, the           *)
(* capability report and the doctor, as functions of what the probes of    *)
(* one invocation replied.  A probe runs `<tool> --version`, asks dpkg, or  *)
(* looks for a file; s[probe] is its reply.                                *)
(*                                                                         *)
(* Not distinguished: versions and reasons; the tools no decision depends  *)
(* on (python3, pyenv, conda, micromamba, node, npm, rustc, cargo).         *)
(***************************************************************************)
EXTENDS Naturals, Sequences, FiniteSets

BASE_TOOLS == {"curl", "wget", "gnupg", "openssh-client", "unzip", "zip", "7zip", "rsync",
               "tree", "ripgrep", "fd-find", "fzf", "jq", "bat", "eza", "btop", "zoxide"}
GIT_TOOLS  == {"git", "git-lfs", "gh"}
CPP_TOOLS  == {"gcc", "g++", "clang", "cmake", "ninja-build", "gdb", "lldb", "pkg-config",
               "strace", "build-essential"}
NodeManagers == {"fnm", "mise", "nvm"}
Engines      == {"podman", "docker"}

\* The probes of each detector, and of build_development_plan, in their order.
GitProbes    == <<"git", "git-lfs", "gh">>
PythonProbes == <<"uv">>
NodeProbes   == <<"fnm", "mise", "nvm", "pnpm">>
RustProbes   == <<"rustup">>
GoProbes     == <<"go">>
EditorProbes == <<"zed">>
CppProbes == <<"gcc", "g++", "clang", "cmake", "ninja-build", "gdb", "lldb", "pkg-config",
               "strace", "build-essential">>
ContainerProbes == <<"podman", "docker", "distrobox">>
DevProbes == <<"container">> \o GitProbes \o PythonProbes \o NodeProbes \o RustProbes
             \o GoProbes \o CppProbes \o EditorProbes \o ContainerProbes

----------------------------------------------------------------------------
(* Actions of a plan: what they ask for, and the tools they would install   *)

Do(status, tools) == [status |-> status, tools |-> tools]

\* _apt_group_action
AptGroup(s, tools) ==
    IF \A t \in tools : s[t] THEN Do("NOOP", {}) ELSE Do("APPLY", tools)

InstallTool(s, t) == IF s[t] THEN Do("NOOP", {}) ELSE Do("APPLY", {t})

Managers(s) == {t \in NodeManagers : s[t]}

NodeManagerConflict(s) == Managers(s) \notin {{}, {"fnm"}}

NodeManager(s) ==
    IF NodeManagerConflict(s) THEN Do("BLOCKED", {}) ELSE InstallTool(s, "fnm")

Pnpm(s) ==
    IF ~s.pnpm /\ NodeManagerConflict(s) THEN Do("BLOCKED", {}) ELSE InstallTool(s, "pnpm")

\* A distribution's rustc and cargo do not count; rustup goes beside them.
Rust(s) == InstallTool(s, "rustup")

\* Any go on the path, the package or not.
Go(s) == InstallTool(s, "go")

\* container_capability_available: nothing is planned inside a container.
ContainersAction(s) ==
    IF s.container THEN Do("SKIP", {})
    ELSE IF s.podman \/ s.docker THEN Do("NOOP", {}) ELSE Do("APPLY", {"podman"})

DistroboxAction(s) ==
    IF s.container THEN Do("SKIP", {}) ELSE InstallTool(s, "distrobox")

DevActions == {"base.apt_packages", "git.apt_packages", "python.uv",
               "python.existing_managers", "node.manager", "node.pnpm", "rust.rustup",
               "go.toolchain", "cpp.toolchain", "containers.engine",
               "containers.distrobox", "editor.zed"}

\* build_development_plan.  The base group is proposed without looking.
DevPlan(s) ==
    [id \in DevActions |->
        CASE id = "base.apt_packages"        -> Do("APPLY", BASE_TOOLS)
          [] id = "git.apt_packages"         -> AptGroup(s, GIT_TOOLS)
          [] id = "python.uv"                -> InstallTool(s, "uv")
          [] id = "python.existing_managers" -> Do("NOOP", {})
          [] id = "node.manager"             -> NodeManager(s)
          [] id = "node.pnpm"                -> Pnpm(s)
          [] id = "rust.rustup"              -> Rust(s)
          [] id = "go.toolchain"             -> Go(s)
          [] id = "cpp.toolchain"            -> AptGroup(s, CPP_TOOLS)
          [] id = "containers.engine"        -> ContainersAction(s)
          [] id = "containers.distrobox"     -> DistroboxAction(s)
          [] id = "editor.zed"               -> InstallTool(s, "zed")]

----------------------------------------------------------------------------
(* The capability report and the doctor                                    *)

Supported(supported, installed) == [supported |-> supported, installed |-> installed]

DevCapabilities(s) ==
    [python_uv        |-> Supported(TRUE, s.uv),
     node_runtime     |-> Supported(TRUE, s.fnm),
     pnpm             |-> Supported(TRUE, s.pnpm),
     rustup           |-> Supported(TRUE, s.rustup),
     go_toolchain     |-> Supported(TRUE, s.go),
     cpp_toolchain    |-> Supported(TRUE, \A t \in CPP_TOOLS : s[t]),
     zed_editor       |-> Supported(TRUE, s.zed),
     container_engine |-> Supported(~s.container, s.podman \/ s.docker),
     distrobox        |-> Supported(~s.container, s.distrobox)]

DoctorNodeConflict(s) == IF Cardinality(Managers(s)) > 1 THEN "WARN" ELSE "PASS"

\* The development, AI and cyber doctors run the same check.
DoctorEngines(s) == IF s.podman /\ s.docker THEN "WARN" ELSE "PASS"

\* _dev_readiness of the focus policy
DevReady(s) ==
    \E c \in {"python_uv", "node_runtime", "rustup", "go_toolchain", "cpp_toolchain"} :
        DevCapabilities(s)[c].installed
=============================================================================
