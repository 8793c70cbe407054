---------------------------- MODULE MCHardwarePlan ----------------------------
(* Machines HardwarePlan starts on: with and without zram, with few or all    *)
(* EPP values, bare and virtualized, with every pair of cards that matters,   *)
(* and two laptops whose battery profile speaks of a dock.                    *)
EXTENDS HardwarePlan

Base(virt, avail, cards, zdev, etc) ==
    [ram |-> "microsoft" \notin virt, cards |-> cards, nvmod |-> FALSE,
     supplies |-> <<"online">>, virt |-> virt,
     cpufreq |-> TRUE, avail |-> avail,
     current |-> IF avail = {} THEN None ELSE CHOOSE e \in avail : TRUE,
     usr |-> "absent", etc |-> etc, zdev |-> zdev, zctl |-> zdev,
     disks |-> {"plain", "scheduled"}, ppd |-> FALSE]

MCMachines ==
    {Base(virt, {"power", "balance_power", "default", "balance_performance", "performance"},
          <<"igpu">>, z, "absent") : virt \in {{}, {"microsoft"}, {"cgroup", "dmi"}, {"microsoft", "dockerenv"}}, z \in BOOLEAN}
    \cup {Base({"dmi", "hypervisor"}, avail, <<"desktop">>, FALSE, "section") :
            avail \in {{}, {"power"}, {"balance_power", "power"}, {"default", "performance"}}}
    \cup {Base({"dmi", "hypervisor"}, {"default"}, cards, FALSE, "empty") :
            cards \in {<<>>, <<"igpu", "offload">>, <<"desktop", "second">>,
                       <<"offload", "idle">>, <<"offload", "nvidia">>, <<"idle">>,
                       <<"desktop", "idle">>}}
    \cup {[Base({}, {"default"}, <<"igpu", "nvidia">>, FALSE, "absent") EXCEPT
              !.supplies = <<adapter, "battery">>, !.nvmod = (adapter = "online")] :
            adapter \in {"online", "unreadable"}}
=============================================================================
