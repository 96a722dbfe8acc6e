------------------------------- MODULE XhciDriver -------------------------------
(***************************************************************************)
(* The xHCI controller's bring-up, the reading of one device descriptor,   *)
(* and its teardown (xhci.c), as steps.                                    *)
(***************************************************************************)
EXTENDS DriverSteps

(* The allocations, in the order of every array of the source.  The last is
   there only if the controller asks for scratchpads. *)
allocations ==
    <<"admin", "command", "event", "input", "output", "endpoint", "receive", "scratchpads">>

discover_controller == <<Check({"ABSENT", "MULTIPLE_CONTROLLERS"})>>

walk_extended_capabilities ==
    <<Check({"EXTENDED_CAPABILITY_RANGE", "EXTENDED_CAPABILITY_LOOP",
             "EXTENDED_CAPABILITY_NON_PROGRESS", "REGISTER_OVERLAP"})>>

validate_registers ==
    <<Check({"REGISTER_OUTSIDE_BAR", "REGISTER_OVERFLOW", "REGISTER_OVERLAP"})>>
        \o walk_extended_capabilities \o <<Arm>>

legacy_handoff == <<Check({"LEGACY_OWNERSHIP_TIMEOUT"})>>

halt_and_reset ==
    <<Halt({"CONTROLLER_NOT_READY_TIMEOUT", "HALT_TIMEOUT", "RESET_TIMEOUT"})>>

validate_capabilities ==
    <<Check({"UNSUPPORTED_VERSION", "UNSUPPORTED_SLOTS", "UNSUPPORTED_PORTS",
             "UNSUPPORTED_INTERRUPTERS", "UNSUPPORTED_PAGE_SIZE", "UNSUPPORTED_CONTEXT_SIZE",
             "SCRATCHPAD_OVERFLOW"})>>

select_port ==
    <<Check({"NO_CONNECTED_PORT", "MULTIPLE_CONNECTED_PORTS", "PORT_UNSUPPORTED"})>>

allocate_page(b) == <<Allocate(b), Check({"DMA_LAYOUT_FAILURE"})>>

validate_link_trb == <<Check({"RING_POINTER", "RING_RESERVED_FIELD", "RING_TYPE", "RING_CYCLE"})>>

initialize_ring(b, linked) ==
    allocate_page(b) \o <<Check({"RING_ALIGNMENT", "RING_CONTAINMENT"})>> \o IF linked THEN validate_link_trb ELSE <<>>

validate_control_td == <<Check({"RING_CONTAINMENT", "RING_TYPE", "RING_RESERVED_FIELD"})>>

initialize_control_transfer ==
    initialize_ring("endpoint", TRUE) \o allocate_page("receive") \o validate_control_td

initialize_contexts == allocate_page("input") \o allocate_page("output") \o <<Check({"CONTEXT_INVALID"})>>

prepare_dma(scratchpads) ==
    allocate_page("admin") \o initialize_ring("command", TRUE) \o initialize_ring("event", FALSE)
        \o initialize_control_transfer \o initialize_contexts
        \o (IF scratchpads THEN allocate_page("scratchpads") ELSE <<>>)
        \o <<Check({"ERST_INVALID", "UNSUPPORTED_ADDRESS_WIDTH"})>>

configure_interrupt == <<InjectedBind, Bind>>

Requested(scratchpads) == IF scratchpads THEN allocations ELSE Front(allocations)

transfer_all_to_controller(scratchpads) == Prepare(Requested(scratchpads))

bus_master_request(scratchpads) == Range(Requested(scratchpads))

(* Every pointer is programmed only once the memory behind it is the device's
   and bus mastering is on: writing ERSTBA makes the controller read. *)
program_controller(scratchpads) ==
    <<Refuse(Master(bus_master_request(scratchpads)))>>
        \o transfer_all_to_controller(scratchpads)
        \o <<Master(bus_master_request(scratchpads)), Start(bus_master_request(scratchpads)),
             Check({"HOST_CONTROLLER_ERROR", "INTERRUPT_NOT_READY", "HALT_TIMEOUT"})>>

reset_port == <<Check({"NO_CONNECTED_PORT", "PORT_RESET_TIMEOUT", "PORT_NOT_ENABLED"})>>

(* The command ring is taken, written and handed back before the doorbell; the
   handler takes the event ring and hands it back. *)
submit_command == Command("", {}, {"command", "event"})

enable_and_address_slot ==
    <<submit_command, EnableSlot, Check({"ADDRESS_DEVICE_PRECONDITION"}), submit_command>>

submit_descriptor_transfer == <<Check({"DOORBELL_PREMATURE"}), Command("receive", {}, {"event"}), Check({"INTERRUPT_COUNT"})>>

validate_sentinel == <<Check({"SENTINEL_FAILURE"})>>

validate_descriptor == <<Check({"DESCRIPTOR_SHORT", "DESCRIPTOR_OVERSIZED", "DESCRIPTOR_TYPE", "DESCRIPTOR_INCONSISTENT"})>>

xhci_descriptor_prove(scratchpads) ==
    discover_controller \o <<Claim, Map("registers")>> \o validate_registers \o legacy_handoff
        \o halt_and_reset \o validate_capabilities \o select_port \o prepare_dma(scratchpads)
        \o configure_interrupt \o program_controller(scratchpads) \o reset_port
        \o enable_and_address_slot \o submit_descriptor_transfer \o validate_sentinel
        \o validate_descriptor

reclaim_all == Each(Take, allocations)

release_all == Each(Free, Reverse(allocations))

teardown_controller ==
    <<DisableSlot, Stop, Unmaster, Unbind>> \o Guarded(reclaim_all \o release_all \o <<Release>>)

(* Negative control of the self test: the allocations up to a boundary. *)
exercise_cleanup_boundary(boundary) ==
    FlattenSeq(Each(LAMBDA b : <<Allocate(b), Mark(b), Give(b)>>, SubSeq(allocations, 1, boundary)))

===============================================================================
