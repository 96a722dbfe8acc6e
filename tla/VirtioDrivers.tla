----------------------------- MODULE VirtioDrivers -----------------------------
(***************************************************************************)
(* The two virtio drivers, as steps: bring-up, shutdown and reset of the   *)
(* network device (virtio_net.c), and the proof of the device substrate on *)
(* an entropy device (virtio_rng_proof.c).  The packets and the bytes they *)
(* move are left out.                                                      *)
(***************************************************************************)
EXTENDS DriverSteps

(* The same function in both files. *)
map_capability(bar) == <<Window(bar), Check({"MAPPING_FAILURE"})>>

(***************************************************************************)
(* virtio_net.c                                                            *)
(***************************************************************************)
collect_capabilities == <<Check({"CAPABILITY_FAILURE"})>>

net_reset_device == <<Halt({"RESET_FAILURE"}), Arm>>

negotiate_features == <<Check({"FEATURE_FAILURE"})>>

(* A link that is down is no failure. *)
read_device_configuration == <<Check({"FEATURE_FAILURE", "QUEUE_FAILURE"})>>

allocate_dma == <<Allocate("rx"), Allocate("tx"), Allocate("arena"), Check({"QUEUE_FAILURE"})>>

configure_queue == <<Check({"MSIX_FAILURE", "QUEUE_FAILURE"})>>

prepare_bus_master ==
    <<Mark("rx"), Mark("tx"), Mark("arena"), Give("rx"), Give("tx"), Give("arena"),
      Master({"rx", "tx", "arena"})>>

virtio_net_initialize ==
    <<Check({"ABSENT", "UNSUPPORTED_DEVICE"}), Claim>> \o collect_capabilities
        \o map_capability("common") \o map_capability("notify") \o map_capability("isr")
        \o map_capability("device") \o net_reset_device \o negotiate_features
        \o read_device_configuration \o allocate_dma \o <<Bind, Check({"MSIX_FAILURE"})>>
        \o configure_queue \o configure_queue \o prepare_bus_master
        \o <<Start({"rx", "tx", "arena"})>>

(* Reset, bus mastering off, the binding undone, and each allocation taken back
   and released whatever became of the bus. *)
net_cleanup_UnbindsUnderMaster ==
    <<Stop, Unbind, Unmaster, Take("arena"), Free("arena"), Take("tx"), Free("tx"),
      Take("rx"), Free("rx"), Release>>

net_cleanup ==
    <<Stop, Unmaster, Unbind, Take("arena"), Free("arena"), Take("tx"), Free("tx"),
      Take("rx"), Free("rx"), Release>>

(***************************************************************************)
(* virtio_rng_proof.c                                                      *)
(***************************************************************************)
collect_capability_regions == <<Check({"CAPABILITY_FAILURE"})>>

rng_reset_device == <<Halt({"DEVICE_RESET_FAILURE"}), Arm>>

negotiate == <<Check({"FEATURE_NEGOTIATION_FAILURE"})>>

select_queue == <<Check({"QUEUE_FAILURE"})>>

prepare_queue == <<Allocate("queue"), Allocate("buffer"), Check({"QUEUE_FAILURE"})>>

(* The binding that is rolled back must leave no vector and no binding of
   anyone, and then the one that stays. *)
bind_interrupt ==
    <<InjectedBind, NoneBound, Bind, Check({"MSIX_FAILURE"})>>

enable_queue == <<Check({"QUEUE_FAILURE"})>>

give_to_device ==
    <<Refuse(Master({"queue", "buffer"})), Mark("queue"), Mark("buffer"), Give("queue"),
      Give("buffer"), Master({"queue", "buffer"})>>

(* The handler takes the queue and the buffer. *)
proof_interrupt == Command("buffer", {"queue"}, {})

run_request == <<Start({"queue", "buffer"}), Check({"QUEUE_FAILURE"}), proof_interrupt>>

judge == <<Check({"USED_RING_FAILURE", "WRONG_INTERRUPT", "DEVICE_DMA_FAILURE"})>>

device_substrate_prove ==
    <<Check({"ABSENT"}), Claim>> \o collect_capability_regions
        \o map_capability("common") \o map_capability("notify") \o map_capability("isr")
        \o rng_reset_device \o negotiate \o select_queue \o prepare_queue \o bind_interrupt
        \o enable_queue \o give_to_device \o run_request \o judge

rng_cleanup_ReleasesFirst ==
    <<Stop, Unmaster, Take("queue"), Take("buffer"), Release, Unbind, Free("buffer"), Free("queue")>>

(* The flag for bus mastering is dropped even if withdrawing it failed. *)
rng_cleanup ==
    <<Stop, Unmaster, Take("queue"), Take("buffer"), Unbind, Free("buffer"), Free("queue"), Release>>

===============================================================================
