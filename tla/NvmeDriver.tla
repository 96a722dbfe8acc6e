------------------------------- MODULE NvmeDriver -------------------------------
(***************************************************************************)
(* The NVMe controller's bring-up, its commands, and its teardown          *)
(* (nvme.c), as steps.                                                     *)
(***************************************************************************)
EXTENDS DriverSteps

(* The seven allocations, in the order of every array of the source. *)
allocations ==
    <<"admin_sq", "admin_cq", "identify_controller", "identify_namespace", "io_sq", "io_cq", "read">>

bus_master_request == Range(allocations)

validate_fixed_registers == <<Check({"REGISTER_OUTSIDE_BAR"}), Arm>>

decode_capabilities ==
    <<Check({"CAP_QUEUE_GEOMETRY", "CAP_DOORBELL_GEOMETRY", "UNSUPPORTED_PAGE_SIZE",
             "UNSUPPORTED_COMMAND_SET", "UNSUPPORTED_VERSION"})>>

validate_doorbells == <<Check({"REGISTER_OUTSIDE_BAR"})>>

wait_ready(status) == <<Check({"CONTROLLER_FATAL", status})>>

disable_controller == <<Halt({"CONTROLLER_FATAL", "DISABLE_TIMEOUT"})>>

validate_queue_geometry == <<Check({"DMA_LAYOUT"})>>

initialize_queue_pair == validate_queue_geometry

prepare_dma == Each(Allocate, allocations) \o initialize_queue_pair \o initialize_queue_pair

(* The binding is rolled back once on purpose, and then made for good. *)
configure_interrupt == <<InjectedBind, BindMasked>>

transfer_all_to_controller == Prepare(allocations)

prepare_controller_ownership ==
    <<Refuse(Master(bus_master_request))>> \o transfer_all_to_controller

program_and_enable_controller ==
    <<Master(bus_master_request), Start(bus_master_request)>>
        \o wait_ready("ENABLE_TIMEOUT") \o <<Unmask>>

(***************************************************************************)
(* A command takes its submission queue back, fills an entry, hands the    *)
(* queue over, rings the doorbell and waits for the interrupt; the handler *)
(* takes the completion queue, judges the entry, takes the data, and hands *)
(* the completion queue back.                                              *)
(***************************************************************************)
submit_entry(queue, data) ==
    IF queue = "admin" THEN Command(data, {"admin_sq"}, {"admin_cq"})
                       ELSE Command(data, {"io_sq"}, {"io_cq"})

identify_controller == <<submit_entry("admin", "identify_controller")>>

validate_identify_controller == <<Check({"IDENTIFY_CONTROLLER", "NAMESPACE_ABSENT"})>>

identify_active_namespaces == <<submit_entry("admin", "identify_namespace")>>

validate_active_namespace_list == <<Check({"NAMESPACE_ABSENT", "MULTIPLE_NAMESPACES"})>>

prepare_namespace_identify_buffer == <<Give("identify_namespace")>>

identify_namespace == <<submit_entry("admin", "identify_namespace")>>

parse_namespace ==
    <<Check({"NAMESPACE_INACTIVE", "IDENTIFY_NAMESPACE", "LBA_FORMAT", "METADATA",
             "PROTECTION_INFORMATION"})>>

create_io_completion_queue == <<submit_entry("admin", "")>>

create_io_submission_queue == <<submit_entry("admin", "")>>

create_io_queues == create_io_completion_queue \o create_io_submission_queue

initialize_runtime_at ==
    <<Check({"ABSENT", "VOLUME_INDEX"}), Claim, Map("registers")>>
        \o validate_fixed_registers \o decode_capabilities \o validate_doorbells
        \o disable_controller \o prepare_dma \o configure_interrupt
        \o prepare_controller_ownership \o program_and_enable_controller
        \o identify_controller \o validate_identify_controller
        \o identify_active_namespaces \o validate_active_namespace_list
        \o prepare_namespace_identify_buffer \o identify_namespace \o parse_namespace
        \o create_io_queues

validate_block_range == <<Check({"BLOCK_ZERO_LENGTH", "BLOCK_OVERFLOW", "BLOCK_RANGE"})>>

submit_read == validate_block_range \o <<submit_entry("io", "read")>>

validate_read_data == <<Check({"INTERRUPT_COUNT", "CONTENT_MISMATCH"})>>

(***************************************************************************)
(* Teardown.  Each call is made if there is something to undo, whatever    *)
(* became of the one before; the allocations and the claim are given up    *)
(* only if bus mastering was withdrawn.                                    *)
(***************************************************************************)
reclaim_all == Each(Take, allocations)

release_all == Each(Free, Reverse(allocations))

teardown_controller_FreesRegardless ==
    <<Stop, Mask, Unmaster, Unbind>> \o reclaim_all \o release_all \o <<Release>>

teardown_controller ==
    <<Stop, Mask, Unmaster, Unbind>> \o Guarded(reclaim_all \o release_all \o <<Release>>)

nvme_read_prove == initialize_runtime_at \o submit_read \o validate_read_data

(* The namespace that is no FAT16 fixture counts as absent. *)
nvme_filesystem_session_open == initialize_runtime_at \o <<Check({"ABSENT"})>>

volume_open_interrupts_disabled == initialize_runtime_at

(***************************************************************************)
(* Negative controls of the self test.                                     *)
(***************************************************************************)
exercise_cleanup_boundary(boundary) ==
    FlattenSeq(Each(LAMBDA b : <<Allocate(b), Mark(b), Give(b)>>, SubSeq(allocations, 1, boundary)))

exercise_owned_release_refusal ==
    <<Allocate("read"), Mark("read"), Give("read"), Refuse(Free("read"))>>

exercise_cleanup == reclaim_all \o release_all

===============================================================================
