------------------------------ MODULE MCBootPlan ------------------------------
(* The installed plan, added in three orders, on machines with and without
   each optional device, and the synthetic plans of the self tests. *)
EXTENDS BootLedger, BootSelfTests

Devices == {"framebuffer", "pointer", "nic", "rng", "xhci", "nvme", "cards", "audio"}

Installed(stages, machines) ==
    [stages |-> stages, tamper |-> "none", expect |-> "any", never |-> {}, machines |-> machines]

(* Every scenario, with any of the devices most stages depend on missing, and
   every other device missing once. *)
Machines ==
    [present : {Devices \ S : S \in SUBSET {"framebuffer", "pointer", "nic", "nvme"}},
     scenario : kernel_test_scenario]
        \cup [present : {Devices \ {d} : d \in Devices} \cup {{}},
              scenario : {"NONE", "NORMAL", "DRIVER_MATRIX", "AUDIO"}]

Rotated(s) == SubSeq(s, 20, Len(s)) \o SubSeq(s, 1, 19)

MCPlans ==
    {boot_ledger_self_test[t] : t \in DOMAIN boot_ledger_self_test}
        \cup { Installed(boot_plan_build, Machines),
               Installed(Reverse(boot_plan_build), [present : {Devices}, scenario : {"NORMAL"}]),
               Installed(Rotated(boot_plan_build), [present : {{}}, scenario : {"NONE"}]) }

MCStageNumber == [s \in Range(boot_stage_id) |-> CHOOSE n \in DOMAIN boot_stage_id : boot_stage_id[n] = s]

===============================================================================
