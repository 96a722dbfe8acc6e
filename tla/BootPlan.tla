------------------------------- MODULE BootPlan -------------------------------
(***************************************************************************)
(* The installed boot plan (src/kernel/boot_plan.c): the descriptors       *)
(* boot_plan_build hands to the ledger, with the capabilities each one     *)
(* requires and declares, and the executor behind each.                    *)
(*                                                                         *)
(* An executor is its steps (module BootProofs), the scenarios in which it *)
(* does anything (when), the devices it needs (needs), what it hands back  *)
(* without them (without), what it may hand back otherwise (ends), and the *)
(* requirement list it insists on finding in its descriptor.               *)
(***************************************************************************)
EXTENDS BootProofs, Naturals, TLC

(* enum boot_phase. *)
FOUNDATION == 0
DISCOVERY == 1
CONTROLLERS == 2
MEMORY_TRANSITION == 3
RUNTIME == 4
TIMERS == 5
SERVICES == 6
PROOFS == 7

(* enum boot_stage_id, in its order. *)
boot_stage_id ==
    <<"EARLY_SERIAL", "INTERRUPT_FOUNDATION", "PURE_SELF_TESTS", "BOOT_INFORMATION",
      "FIRMWARE_DISCOVERY", "DEVICE_WINDOWS", "INTERRUPT_CONTROLLERS", "FRAME_ALLOCATOR",
      "PAGING_INSTALL", "PAGING_PROOFS", "FRAMEBUFFER_WC", "MEMORY_RUNTIME",
      "FRAMEBUFFER_OUTPUT", "KEYBOARD", "SHELL", "EARLY_SCENARIO", "INTERRUPT_PROOFS",
      "TIMER_ROUTING", "TIMER_CALIBRATION", "PCI", "THREADING", "SCHEDULER",
      "CLOSING_PROOFS", "UI_FONT", "POINTER_DECISION", "POINTER_OUTCOME", "UI_LAYOUT",
      "DESKTOP_CONSTRUCTION", "DESKTOP_ACTIVATION", "REDWOOD_INSTALLED_PROOF",
      "PCI_RESOURCE_FOUNDATION", "DYNAMIC_VECTOR_FOUNDATION", "DMA_FOUNDATION",
      "NETWORK_FOUNDATION", "DEVICE_SUBSTRATE_PROOF", "XHCI_FOUNDATION",
      "XHCI_DESCRIPTOR_PROOF", "NVME_FOUNDATION", "NVME_READ_PROOF", "FAT16_FOUNDATION",
      "FILESYSTEM_FILE_PROOF", "PROCESS_ADDRESS_SPACE_FOUNDATION",
      "ELF64_LOADER_FOUNDATION", "PROCESS_INSTALLED_PROOF", "LINUX_SYSCALL_CPU_FOUNDATION",
      "LINUX_IMAGE_STACK_FOUNDATION", "LINUX_INSTALLED_PROOF",
      "LINUX_UNAME_IMAGE_UTS_FOUNDATION", "LINUX_UNAME_INSTALLED_PROOF",
      "MULTIPROCESS_FOUNDATION", "MULTIPROCESS_PROOF", "DRIVER_MATRIX_FOUNDATION",
      "DRIVER_MATRIX_PROBE", "AUDIO_FOUNDATION", "AUDIO_CODEC_PROOF", "NVIDIA_FOUNDATION",
      "NVIDIA_PROBE">>

(* enum boot_capability. *)
boot_capability ==
    {"EARLY_SERIAL_AVAILABLE", "BOOT_SELF_TESTS_COMPLETE", "BOOT_INFORMATION_VALIDATED",
      "PHYSICAL_FRAME_ALLOCATOR_AVAILABLE", "ACPI_ROOT_VALIDATED",
      "INTERRUPT_TOPOLOGY_DISCOVERED", "CLOCKS_DISCOVERED",
      "DEVICE_WINDOW_REGISTRY_VALIDATED", "PAGE_TABLES_INSTALLED",
      "WRITE_XOR_EXECUTE_PROVED", "INSTALLED_DEVICE_WINDOWS_PROVED", "HEAP_AVAILABLE",
      "IDT_INSTALLED", "INTERRUPT_CONTROLLERS_CONFIGURED", "INTERRUPTS_ENABLED",
      "INTERRUPT_ROUTING_PROVED", "TIMER_CALIBRATION_COMPLETE", "PCI_ACCESS_AVAILABLE",
      "FRAMEBUFFER_AVAILABILITY_DECIDED", "FRAMEBUFFER_WC_INDEPENDENTLY_PROVED",
      "FRAMEBUFFER_SERIAL_FALLBACK", "SURFACE_AVAILABLE", "THREADING_AVAILABLE",
      "SCHEDULER_AVAILABLE", "SHELL_AVAILABLE", "BOOT_PROOFS_COMPLETE",
      "FRAMEBUFFER_OUTPUT_INSTALLED", "KEYBOARD_AVAILABLE", "UI_FONT_VERIFIED",
      "POINTER_AVAILABILITY_DECIDED", "POINTER_INPUT_AVAILABLE", "POINTER_INPUT_ABSENT",
      "UI_LAYOUT_VALIDATED", "DESKTOP_SHELL_AVAILABLE", "DESKTOP_SHELL_ACTIVATED",
      "REDWOOD_INSTALLED_PROOF_COMPLETE", "PCI_RESOURCE_OWNERSHIP_AVAILABLE",
      "DYNAMIC_VECTOR_FOUNDATION_AVAILABLE", "DMA_FOUNDATION_AVAILABLE",
      "NETWORK_FOUNDATION_AVAILABLE", "NETWORK_AVAILABILITY_DECIDED",
      "DEVICE_SUBSTRATE_INSTALLED_PROOF_COMPLETE", "DEVICE_SUBSTRATE_FIXTURE_ABSENT",
      "XHCI_FOUNDATION_AVAILABLE", "XHCI_DESCRIPTOR_PROOF_COMPLETE", "XHCI_FIXTURE_ABSENT",
      "NVME_FOUNDATION_AVAILABLE", "NVME_READ_PROOF_COMPLETE", "NVME_FIXTURE_ABSENT",
      "FAT16_FOUNDATION_AVAILABLE", "FILESYSTEM_FILE_PROOF_COMPLETE",
      "FILESYSTEM_FIXTURE_ABSENT", "PRIVATE_ONE_FILE_READ_AVAILABLE",
      "PROCESS_ADDRESS_SPACE_FOUNDATION_AVAILABLE", "ELF64_LOADER_FOUNDATION_AVAILABLE",
      "PROCESS_INSTALLED_PROOF_COMPLETE", "PROCESS_FIXTURE_ABSENT",
      "PROCESS_OUTCOME_DECIDED", "LINUX_SYSCALL_CPU_FOUNDATION_AVAILABLE",
      "LINUX_IMAGE_STACK_FOUNDATION_AVAILABLE", "LINUX_INSTALLED_PROOF_COMPLETE",
      "LINUX_FIXTURE_ABSENT", "LINUX_OUTCOME_DECIDED",
      "LINUX_UNAME_IMAGE_UTS_FOUNDATION_AVAILABLE",
      "LINUX_CAT_IMAGE_STDIN_FOUNDATION_AVAILABLE", "LINUX_UNAME_INSTALLED_PROOF_COMPLETE",
      "LINUX_UNAME_FIXTURE_ABSENT", "LINUX_UNAME_OUTCOME_DECIDED",
      "MULTIPROCESS_FOUNDATION_AVAILABLE", "MULTIPROCESS_PROOF_COMPLETE",
      "DRIVER_MATRIX_FOUNDATION_AVAILABLE", "DRIVER_MATRIX_PROBE_COMPLETE",
      "DRIVER_MATRIX_DEVICES_ABSENT", "AUDIO_FOUNDATION_AVAILABLE",
      "AUDIO_CODEC_PROOF_COMPLETE", "AUDIO_CONTROLLER_ABSENT",
      "NVIDIA_FOUNDATION_AVAILABLE", "NVIDIA_PROBE_COMPLETE", "NVIDIA_FUNCTIONS_ABSENT"}

(* irreversible_requirement_at: what each irreversible transition needs. *)
irreversible_requirement ==
    [ NONE |-> {},
      PAT_CR3 |-> {"DEVICE_WINDOW_REGISTRY_VALIDATED", "PHYSICAL_FRAME_ALLOCATOR_AVAILABLE"},
      INTERRUPT_ENABLE |-> {"IDT_INSTALLED", "INTERRUPT_CONTROLLERS_CONFIGURED"},
      FRAMEBUFFER_OUTPUT |-> {"FRAMEBUFFER_WC_INDEPENDENTLY_PROVED"},
      APIC_TIMER |-> {"IDT_INSTALLED", "INTERRUPT_CONTROLLERS_CONFIGURED",
                      "INTERRUPTS_ENABLED", "CLOCKS_DISCOVERED"},
      SCHEDULER |-> {"HEAP_AVAILABLE", "THREADING_AVAILABLE",
                     "TIMER_CALIBRATION_COMPLETE", "INTERRUPTS_ENABLED"} ]

(* The scenarios the executors tell apart (enum kernel_test_scenario): one of
   the Redwood userland and one of the FAT32, network and native ranges. *)
kernel_test_scenario ==
    {"NONE", "NORMAL", "NVME", "FILESYSTEM", "PROCESS", "LINUX_ABI", "LINUX_ABI_UNAME",
     "USERLAND", "FAT32", "DRIVER_MATRIX", "AUDIO", "NVIDIA"}

test_uses_redwood_proof_userland == {"USERLAND"}

test_uses_fat32_volumes == {"FAT32"}

(***************************************************************************)
(* Executors.                                                              *)
(***************************************************************************)
Executor(steps, ends) ==
    [ steps |-> steps, when |-> kernel_test_scenario, needs |-> {}, ends |-> ends,
      without |-> {"skipped"}, insists |-> <<>> ]

(* stage_failed reports what a call refused. *)
Reports(steps) == Executor(steps, {"ran", "failed"})

(* The prove_ functions stop the machine instead. *)
Panics(steps) == Executor(steps, {"ran", "panicked"})

(* A proof of an installed device or program: it insists on its requirement
   list, and is skipped outside its scenarios or without its fixture. *)
InstalledProof(requirements, scenarios, fixtures) ==
    [Reports(<<DeviceProof>>) EXCEPT !.when = scenarios, !.needs = fixtures,
                                     !.insists = requirements]

execute_early_serial == Executor(<<>>, {"ran"})

execute_interrupt_foundation == Reports(<<interrupts_initialize>>)

(* Thirty-odd pure self tests; none touches the machine. *)
execute_pure_self_tests == Reports(<<>>)

execute_boot_information == Reports(<<Call({}, {}, {"information"}, {})>>)

execute_firmware_discovery == Reports(<<Call({"information"}, {}, {"topology", "clocks"}, {})>>)

construct_device_windows == Call({"information", "topology"}, {"paging"}, {"windows"}, {})

execute_device_windows == Reports(<<construct_device_windows>>)

execute_interrupt_controllers ==
    Reports(<<pm_timer_initialize, apic_bring_online, ioapic_initialize>>)

execute_frame_allocator ==
    Executor(<<frame_allocator_initialize>> \o prove_frame_lifecycle, {"ran", "failed", "panicked"})

execute_paging_install == Panics(install_page_tables)

execute_paging_proofs == Reports(<<paging_verify, paging_verify>>)

execute_framebuffer_wc == [Panics(prove_write_combining) EXCEPT !.needs = {"framebuffer"}]

execute_memory_runtime ==
    Panics(prove_paging_lifecycle \o bring_up_heap \o prove_heap_lifecycle)

execute_framebuffer_output ==
    Executor(prove_framebuffer \o prove_surface \o draw_logo \o prove_screen_console,
             {"ran", "failed", "panicked"})

execute_keyboard == Panics(prove_keyboard)

execute_shell == Panics(prove_shell)

execute_ui_font == Reports(<<ui_font_initialize>>)

(* Absence of a pointer is a decision, not a failure. *)
execute_pointer_decision == Executor(<<pointer_initialize>>, {"ran"})

execute_pointer_outcome == [Executor(<<>>, {"ran"}) EXCEPT !.needs = {"pointer"}]

execute_ui_layout == Reports(<<ui_layout_build>>)

(* kernel_test_select fixes the scenario; kernel_test_run may end the machine. *)
execute_early_scenario == Panics(<<Call({"information", "windows"}, {}, {"scenario"}, {})>>)

execute_interrupt_proofs ==
    Reports(<<interrupt_breakpoint_self_test, interrupt_ist_self_test,
              interrupt_pic_spurious_self_test>>)

execute_timer_routing ==
    Panics(prove_timer_route("LEGACY_PIC") \o prove_timer_route("IO_APIC")
           \o retire_legacy_interrupt_path \o prove_timer_route("IO_APIC")
           \o prove_level_route \o prove_pm_timer)

execute_timer_calibration ==
    Panics(prove_apic_timer \o prove_tsc \o retire_pit \o prove_clocks_without_pit
           \o prove_monotonic_time)

execute_pci == Panics(bring_up_pci)

execute_pci_resource_foundation == Reports(<<pci_resource_initialize>>)

execute_dynamic_vector_foundation == Reports(<<interrupt_vector_initialize>>)

execute_dma_foundation == Reports(<<dma_initialize, dma_self_test>>)

(* A missing NIC and a link that is down are both fine. *)
execute_network_foundation == Reports(<<Call({}, {}, {"random"}, {}), network_initialize>>)

(* The foundations only run robustness controls on fixtures of their own. *)
execute_xhci_foundation == Reports(<<>>)
execute_nvme_foundation == Reports(<<>>)
execute_fat16_foundation == Reports(<<>>)
execute_process_address_space_foundation == Reports(<<paging_verify, frame_allocate>>)
execute_elf64_loader_foundation == Reports(<<>>)
execute_linux_syscall_cpu_foundation == Reports(<<>>)
execute_linux_image_stack_foundation == Reports(<<>>)
execute_linux_uname_image_uts_foundation == Reports(<<>>)
execute_multiprocess_foundation == Reports(<<>>)
execute_driver_matrix_foundation == Reports(<<>>)
execute_audio_foundation == Reports(<<>>)
execute_nvidia_foundation == Reports(<<>>)

execute_threading == Panics(prove_threads)

execute_scheduler == Panics(prove_preemption)

(* Everything is read back, and nothing may be held by a device or process. *)
execute_closing_proofs ==
    Reports(<<paging_verify, heap_verify,
              Call({"pci", "resources", "dma", "vectors"}, {"claims"}, {}, {})>>)

execute_desktop_construction == Reports(<<ui_construct>>)

execute_desktop_activation == Reports(<<ui_activate>>)

execute_redwood_installed_proof == Reports(<<ui_verify_installed>>)

(* The requirement lists the proofs insist on. *)
device_proof_dependencies ==
    <<"PAGE_TABLES_INSTALLED", "PCI_ACCESS_AVAILABLE", "HEAP_AVAILABLE",
      "PHYSICAL_FRAME_ALLOCATOR_AVAILABLE", "INTERRUPT_CONTROLLERS_CONFIGURED",
      "INTERRUPTS_ENABLED", "THREADING_AVAILABLE", "SCHEDULER_AVAILABLE",
      "PCI_RESOURCE_OWNERSHIP_AVAILABLE", "DYNAMIC_VECTOR_FOUNDATION_AVAILABLE",
      "DMA_FOUNDATION_AVAILABLE">>

xhci_proof_dependencies ==
    <<"PAGE_TABLES_INSTALLED", "PCI_ACCESS_AVAILABLE", "HEAP_AVAILABLE",
      "PHYSICAL_FRAME_ALLOCATOR_AVAILABLE", "INTERRUPT_CONTROLLERS_CONFIGURED",
      "INTERRUPTS_ENABLED", "TIMER_CALIBRATION_COMPLETE", "THREADING_AVAILABLE",
      "SCHEDULER_AVAILABLE", "PCI_RESOURCE_OWNERSHIP_AVAILABLE",
      "DYNAMIC_VECTOR_FOUNDATION_AVAILABLE", "DMA_FOUNDATION_AVAILABLE",
      "XHCI_FOUNDATION_AVAILABLE">>

nvme_proof_dependencies ==
    <<"PAGE_TABLES_INSTALLED", "PCI_ACCESS_AVAILABLE", "HEAP_AVAILABLE",
      "PHYSICAL_FRAME_ALLOCATOR_AVAILABLE", "INTERRUPT_CONTROLLERS_CONFIGURED",
      "INTERRUPTS_ENABLED", "TIMER_CALIBRATION_COMPLETE", "THREADING_AVAILABLE",
      "SCHEDULER_AVAILABLE", "PCI_RESOURCE_OWNERSHIP_AVAILABLE",
      "DYNAMIC_VECTOR_FOUNDATION_AVAILABLE", "DMA_FOUNDATION_AVAILABLE",
      "NVME_FOUNDATION_AVAILABLE">>

filesystem_proof_dependencies ==
    <<"PAGE_TABLES_INSTALLED", "PCI_ACCESS_AVAILABLE", "HEAP_AVAILABLE",
      "PHYSICAL_FRAME_ALLOCATOR_AVAILABLE", "INTERRUPT_CONTROLLERS_CONFIGURED",
      "INTERRUPTS_ENABLED", "TIMER_CALIBRATION_COMPLETE", "THREADING_AVAILABLE",
      "SCHEDULER_AVAILABLE", "PCI_RESOURCE_OWNERSHIP_AVAILABLE",
      "DYNAMIC_VECTOR_FOUNDATION_AVAILABLE", "DMA_FOUNDATION_AVAILABLE",
      "NVME_FOUNDATION_AVAILABLE", "FAT16_FOUNDATION_AVAILABLE">>

process_proof_requirements ==
    <<"PAGE_TABLES_INSTALLED", "WRITE_XOR_EXECUTE_PROVED",
      "PHYSICAL_FRAME_ALLOCATOR_AVAILABLE", "HEAP_AVAILABLE", "IDT_INSTALLED",
      "INTERRUPT_CONTROLLERS_CONFIGURED", "INTERRUPTS_ENABLED",
      "TIMER_CALIBRATION_COMPLETE", "THREADING_AVAILABLE", "SCHEDULER_AVAILABLE",
      "PCI_RESOURCE_OWNERSHIP_AVAILABLE", "DYNAMIC_VECTOR_FOUNDATION_AVAILABLE",
      "DMA_FOUNDATION_AVAILABLE", "NVME_FOUNDATION_AVAILABLE",
      "FAT16_FOUNDATION_AVAILABLE", "PRIVATE_ONE_FILE_READ_AVAILABLE",
      "PROCESS_ADDRESS_SPACE_FOUNDATION_AVAILABLE", "ELF64_LOADER_FOUNDATION_AVAILABLE">>

linux_proof_requirements ==
    <<"PAGE_TABLES_INSTALLED", "WRITE_XOR_EXECUTE_PROVED",
      "PHYSICAL_FRAME_ALLOCATOR_AVAILABLE", "HEAP_AVAILABLE", "IDT_INSTALLED",
      "INTERRUPT_CONTROLLERS_CONFIGURED", "INTERRUPTS_ENABLED",
      "TIMER_CALIBRATION_COMPLETE", "PCI_ACCESS_AVAILABLE", "THREADING_AVAILABLE",
      "SCHEDULER_AVAILABLE", "PCI_RESOURCE_OWNERSHIP_AVAILABLE",
      "DYNAMIC_VECTOR_FOUNDATION_AVAILABLE", "DMA_FOUNDATION_AVAILABLE",
      "NVME_FOUNDATION_AVAILABLE", "FAT16_FOUNDATION_AVAILABLE",
      "PRIVATE_ONE_FILE_READ_AVAILABLE", "PROCESS_ADDRESS_SPACE_FOUNDATION_AVAILABLE",
      "ELF64_LOADER_FOUNDATION_AVAILABLE", "LINUX_SYSCALL_CPU_FOUNDATION_AVAILABLE",
      "LINUX_IMAGE_STACK_FOUNDATION_AVAILABLE">>

linux_uname_proof_requirements ==
    <<"PAGE_TABLES_INSTALLED", "WRITE_XOR_EXECUTE_PROVED",
      "PHYSICAL_FRAME_ALLOCATOR_AVAILABLE", "HEAP_AVAILABLE", "IDT_INSTALLED",
      "INTERRUPT_CONTROLLERS_CONFIGURED", "INTERRUPTS_ENABLED",
      "TIMER_CALIBRATION_COMPLETE", "PCI_ACCESS_AVAILABLE", "THREADING_AVAILABLE",
      "SCHEDULER_AVAILABLE", "PCI_RESOURCE_OWNERSHIP_AVAILABLE",
      "DYNAMIC_VECTOR_FOUNDATION_AVAILABLE", "DMA_FOUNDATION_AVAILABLE",
      "NVME_FOUNDATION_AVAILABLE", "FAT16_FOUNDATION_AVAILABLE",
      "PRIVATE_ONE_FILE_READ_AVAILABLE", "PROCESS_ADDRESS_SPACE_FOUNDATION_AVAILABLE",
      "ELF64_LOADER_FOUNDATION_AVAILABLE", "LINUX_SYSCALL_CPU_FOUNDATION_AVAILABLE",
      "LINUX_IMAGE_STACK_FOUNDATION_AVAILABLE", "LINUX_OUTCOME_DECIDED",
      "LINUX_UNAME_IMAGE_UTS_FOUNDATION_AVAILABLE">>

multiprocess_proof_requirements ==
    <<"PAGE_TABLES_INSTALLED", "WRITE_XOR_EXECUTE_PROVED",
      "PHYSICAL_FRAME_ALLOCATOR_AVAILABLE", "HEAP_AVAILABLE", "IDT_INSTALLED",
      "INTERRUPT_CONTROLLERS_CONFIGURED", "INTERRUPTS_ENABLED",
      "TIMER_CALIBRATION_COMPLETE", "THREADING_AVAILABLE", "SCHEDULER_AVAILABLE",
      "PROCESS_ADDRESS_SPACE_FOUNDATION_AVAILABLE", "ELF64_LOADER_FOUNDATION_AVAILABLE",
      "MULTIPROCESS_FOUNDATION_AVAILABLE">>

driver_matrix_requirements ==
    <<"PAGE_TABLES_INSTALLED", "WRITE_XOR_EXECUTE_PROVED", "HEAP_AVAILABLE",
      "IDT_INSTALLED", "INTERRUPT_CONTROLLERS_CONFIGURED", "INTERRUPTS_ENABLED",
      "TIMER_CALIBRATION_COMPLETE", "PCI_ACCESS_AVAILABLE",
      "PCI_RESOURCE_OWNERSHIP_AVAILABLE", "DRIVER_MATRIX_FOUNDATION_AVAILABLE">>

audio_proof_requirements ==
    <<"PAGE_TABLES_INSTALLED", "WRITE_XOR_EXECUTE_PROVED",
      "PHYSICAL_FRAME_ALLOCATOR_AVAILABLE", "HEAP_AVAILABLE", "IDT_INSTALLED",
      "INTERRUPT_CONTROLLERS_CONFIGURED", "INTERRUPTS_ENABLED",
      "TIMER_CALIBRATION_COMPLETE", "PCI_ACCESS_AVAILABLE",
      "PCI_RESOURCE_OWNERSHIP_AVAILABLE", "DMA_FOUNDATION_AVAILABLE",
      "AUDIO_FOUNDATION_AVAILABLE">>

nvidia_probe_requirements ==
    <<"PAGE_TABLES_INSTALLED", "WRITE_XOR_EXECUTE_PROVED",
      "PHYSICAL_FRAME_ALLOCATOR_AVAILABLE", "HEAP_AVAILABLE", "IDT_INSTALLED",
      "INTERRUPT_CONTROLLERS_CONFIGURED", "INTERRUPTS_ENABLED",
      "TIMER_CALIBRATION_COMPLETE", "PCI_ACCESS_AVAILABLE",
      "PCI_RESOURCE_OWNERSHIP_AVAILABLE", "NVIDIA_FOUNDATION_AVAILABLE">>

filesystem_file_requirements ==
    <<"PAGE_TABLES_INSTALLED", "PCI_ACCESS_AVAILABLE", "HEAP_AVAILABLE",
      "PHYSICAL_FRAME_ALLOCATOR_AVAILABLE", "INTERRUPT_CONTROLLERS_CONFIGURED",
      "INTERRUPTS_ENABLED", "TIMER_CALIBRATION_COMPLETE", "THREADING_AVAILABLE",
      "SCHEDULER_AVAILABLE", "PCI_RESOURCE_OWNERSHIP_AVAILABLE",
      "DYNAMIC_VECTOR_FOUNDATION_AVAILABLE", "DMA_FOUNDATION_AVAILABLE",
      "NVME_FOUNDATION_AVAILABLE", "FAT16_FOUNDATION_AVAILABLE">>

(* The scenarios that own the NVMe controller for something else. *)
OwnNvme ==
    {"NONE", "PROCESS", "LINUX_ABI", "LINUX_ABI_UNAME"}
        \cup test_uses_redwood_proof_userland \cup test_uses_fat32_volumes

execute_device_substrate_proof ==
    InstalledProof(device_proof_dependencies, kernel_test_scenario, {"rng"})

execute_xhci_descriptor_proof ==
    InstalledProof(xhci_proof_dependencies, kernel_test_scenario, {"xhci"})

execute_nvme_read_proof ==
    InstalledProof(nvme_proof_dependencies,
                   kernel_test_scenario \ (OwnNvme \cup {"FILESYSTEM"}), {"nvme"})

execute_filesystem_file_proof ==
    InstalledProof(filesystem_proof_dependencies,
                   kernel_test_scenario \ (OwnNvme \cup {"NVME"}), {"nvme"})

execute_process_installed_proof ==
    InstalledProof(process_proof_requirements, {"PROCESS"}, {"nvme"})

execute_linux_installed_proof ==
    InstalledProof(linux_proof_requirements, {"LINUX_ABI"}, {"nvme"})

execute_linux_uname_installed_proof ==
    InstalledProof(linux_uname_proof_requirements, {"LINUX_ABI_UNAME"}, {"nvme"})

execute_driver_matrix_probe ==
    InstalledProof(driver_matrix_requirements, {"DRIVER_MATRIX"}, {"cards"})

execute_audio_codec_proof == InstalledProof(audio_proof_requirements, {"AUDIO"}, {"audio"})

(* nvidia_bind with no card binds nothing and succeeds. *)
execute_nvidia_probe == InstalledProof(nvidia_probe_requirements, {"NVIDIA"}, {})

(* Required, whatever the scenario. *)
execute_multiprocess_proof ==
    InstalledProof(multiprocess_proof_requirements, kernel_test_scenario, {})

(***************************************************************************)
(* Descriptors.                                                            *)
(***************************************************************************)
Stage(stage, phase, class, mandatory, neutral, execute) ==
    [ stage |-> stage, phase |-> phase, irreversible |-> class, mandatory |-> mandatory,
      neutral |-> neutral, execute |-> execute ]

REQUIRED_STAGE(stage, phase, class, execute) ==
    Stage(stage, phase, class, TRUE, FALSE, execute)

OPTIONAL_STAGE(stage, phase, class, execute) ==
    Stage(stage, phase, class, FALSE, FALSE, execute)

OPTIONAL_NEUTRAL_STAGE(stage, phase, class, execute) ==
    Stage(stage, phase, class, FALSE, TRUE, execute)

(* What a stage requires, what it provides, what being skipped provides. *)
Declared(required, provided, skipped) ==
    [required |-> required, provided |-> provided, skipped |-> skipped]

(* The switch of declare_stage_capabilities. *)
declare_discovery == [
    EARLY_SERIAL |-> Declared(
            <<>>,
            <<"EARLY_SERIAL_AVAILABLE">>, <<>>),
    INTERRUPT_FOUNDATION |-> Declared(
            <<"EARLY_SERIAL_AVAILABLE">>,
            <<"IDT_INSTALLED">>, <<>>),
    PURE_SELF_TESTS |-> Declared(
            <<"EARLY_SERIAL_AVAILABLE", "IDT_INSTALLED">>,
            <<"BOOT_SELF_TESTS_COMPLETE">>, <<>>),
    BOOT_INFORMATION |-> Declared(
            <<"BOOT_SELF_TESTS_COMPLETE">>,
            <<"BOOT_INFORMATION_VALIDATED">>, <<>>),
    FIRMWARE_DISCOVERY |-> Declared(
            <<"BOOT_INFORMATION_VALIDATED">>,
            <<"ACPI_ROOT_VALIDATED", "INTERRUPT_TOPOLOGY_DISCOVERED", "CLOCKS_DISCOVERED">>, <<>>),
    DEVICE_WINDOWS |-> Declared(
            <<"BOOT_INFORMATION_VALIDATED", "INTERRUPT_TOPOLOGY_DISCOVERED">>,
            <<"DEVICE_WINDOW_REGISTRY_VALIDATED", "FRAMEBUFFER_AVAILABILITY_DECIDED">>, <<>>),
    INTERRUPT_CONTROLLERS |-> Declared(
            <<"ACPI_ROOT_VALIDATED", "INTERRUPT_TOPOLOGY_DISCOVERED", "CLOCKS_DISCOVERED",
              "DEVICE_WINDOW_REGISTRY_VALIDATED">>,
            <<"INTERRUPT_CONTROLLERS_CONFIGURED">>, <<>>),
    FRAME_ALLOCATOR |-> Declared(
            <<"BOOT_INFORMATION_VALIDATED", "INTERRUPT_CONTROLLERS_CONFIGURED">>,
            <<"PHYSICAL_FRAME_ALLOCATOR_AVAILABLE">>, <<>>),
    PAGING_INSTALL |-> Declared(
            <<"DEVICE_WINDOW_REGISTRY_VALIDATED", "PHYSICAL_FRAME_ALLOCATOR_AVAILABLE">>,
            <<"PAGE_TABLES_INSTALLED">>, <<>>),
    PAGING_PROOFS |-> Declared(
            <<"PAGE_TABLES_INSTALLED">>,
            <<"WRITE_XOR_EXECUTE_PROVED", "INSTALLED_DEVICE_WINDOWS_PROVED">>, <<>>),
    FRAMEBUFFER_WC |-> Declared(
            <<"PAGE_TABLES_INSTALLED", "INSTALLED_DEVICE_WINDOWS_PROVED",
              "FRAMEBUFFER_AVAILABILITY_DECIDED">>,
            <<"FRAMEBUFFER_WC_INDEPENDENTLY_PROVED">>, <<"FRAMEBUFFER_SERIAL_FALLBACK">>),
    MEMORY_RUNTIME |-> Declared(
            <<"PAGE_TABLES_INSTALLED", "WRITE_XOR_EXECUTE_PROVED">>,
            <<"HEAP_AVAILABLE">>, <<>>),
    FRAMEBUFFER_OUTPUT |-> Declared(
            <<"FRAMEBUFFER_WC_INDEPENDENTLY_PROVED", "HEAP_AVAILABLE">>,
            <<"SURFACE_AVAILABLE", "FRAMEBUFFER_OUTPUT_INSTALLED">>, <<>>)]

declare_runtime == [
    KEYBOARD |-> Declared(
            <<"IDT_INSTALLED", "INTERRUPT_CONTROLLERS_CONFIGURED", "HEAP_AVAILABLE">>,
            <<"INTERRUPTS_ENABLED", "KEYBOARD_AVAILABLE">>, <<>>),
    SHELL |-> Declared(
            <<"SURFACE_AVAILABLE", "INTERRUPTS_ENABLED">>,
            <<"SHELL_AVAILABLE">>, <<>>),
    UI_FONT |-> Declared(
            <<"SURFACE_AVAILABLE">>,
            <<"UI_FONT_VERIFIED">>, <<>>),
    POINTER_DECISION |-> Declared(
            <<"KEYBOARD_AVAILABLE", "INTERRUPT_CONTROLLERS_CONFIGURED">>,
            <<"POINTER_AVAILABILITY_DECIDED">>, <<>>),
    POINTER_OUTCOME |-> Declared(
            <<"POINTER_AVAILABILITY_DECIDED">>,
            <<"POINTER_INPUT_AVAILABLE">>, <<"POINTER_INPUT_ABSENT">>),
    UI_LAYOUT |-> Declared(
            <<"SURFACE_AVAILABLE", "UI_FONT_VERIFIED">>,
            <<"UI_LAYOUT_VALIDATED">>, <<>>),
    EARLY_SCENARIO |-> Declared(
            <<"HEAP_AVAILABLE", "INTERRUPTS_ENABLED">>,
            <<>>, <<>>),
    INTERRUPT_PROOFS |-> Declared(
            <<"IDT_INSTALLED", "INTERRUPT_CONTROLLERS_CONFIGURED", "INTERRUPTS_ENABLED">>,
            <<>>, <<>>),
    TIMER_ROUTING |-> Declared(
            <<"IDT_INSTALLED", "INTERRUPT_CONTROLLERS_CONFIGURED", "INTERRUPTS_ENABLED">>,
            <<"INTERRUPT_ROUTING_PROVED">>, <<>>),
    TIMER_CALIBRATION |-> Declared(
            <<"IDT_INSTALLED", "INTERRUPT_CONTROLLERS_CONFIGURED", "INTERRUPTS_ENABLED",
              "CLOCKS_DISCOVERED", "INTERRUPT_ROUTING_PROVED">>,
            <<"TIMER_CALIBRATION_COMPLETE">>, <<>>),
    PCI |-> Declared(
            <<"PAGE_TABLES_INSTALLED", "TIMER_CALIBRATION_COMPLETE">>,
            <<"PCI_ACCESS_AVAILABLE">>, <<>>),
    PCI_RESOURCE_FOUNDATION |-> Declared(
            <<"PCI_ACCESS_AVAILABLE", "PAGE_TABLES_INSTALLED",
              "PHYSICAL_FRAME_ALLOCATOR_AVAILABLE">>,
            <<"PCI_RESOURCE_OWNERSHIP_AVAILABLE">>, <<>>),
    DYNAMIC_VECTOR_FOUNDATION |-> Declared(
            <<"IDT_INSTALLED", "INTERRUPT_CONTROLLERS_CONFIGURED", "INTERRUPTS_ENABLED">>,
            <<"DYNAMIC_VECTOR_FOUNDATION_AVAILABLE">>, <<>>)]

declare_services == [
    DMA_FOUNDATION |-> Declared(
            <<"PHYSICAL_FRAME_ALLOCATOR_AVAILABLE", "PAGE_TABLES_INSTALLED">>,
            <<"DMA_FOUNDATION_AVAILABLE">>, <<>>),
    NETWORK_FOUNDATION |-> Declared(
            <<"PCI_ACCESS_AVAILABLE", "PCI_RESOURCE_OWNERSHIP_AVAILABLE",
              "DYNAMIC_VECTOR_FOUNDATION_AVAILABLE", "DMA_FOUNDATION_AVAILABLE",
              "TIMER_CALIBRATION_COMPLETE", "HEAP_AVAILABLE",
              "PHYSICAL_FRAME_ALLOCATOR_AVAILABLE", "INTERRUPTS_ENABLED",
              "BOOT_PROOFS_COMPLETE">>,
            <<"NETWORK_FOUNDATION_AVAILABLE", "NETWORK_AVAILABILITY_DECIDED">>, <<>>),
    THREADING |-> Declared(
            <<"HEAP_AVAILABLE", "TIMER_CALIBRATION_COMPLETE">>,
            <<"THREADING_AVAILABLE">>, <<>>),
    SCHEDULER |-> Declared(
            <<"HEAP_AVAILABLE", "THREADING_AVAILABLE", "TIMER_CALIBRATION_COMPLETE",
              "INTERRUPTS_ENABLED">>,
            <<"SCHEDULER_AVAILABLE">>, <<>>),
    DEVICE_SUBSTRATE_PROOF |-> Declared(
            <<"PAGE_TABLES_INSTALLED", "PCI_ACCESS_AVAILABLE", "HEAP_AVAILABLE",
              "PHYSICAL_FRAME_ALLOCATOR_AVAILABLE", "INTERRUPT_CONTROLLERS_CONFIGURED",
              "INTERRUPTS_ENABLED", "THREADING_AVAILABLE", "SCHEDULER_AVAILABLE",
              "PCI_RESOURCE_OWNERSHIP_AVAILABLE", "DYNAMIC_VECTOR_FOUNDATION_AVAILABLE",
              "DMA_FOUNDATION_AVAILABLE">>,
            <<"DEVICE_SUBSTRATE_INSTALLED_PROOF_COMPLETE">>, <<"DEVICE_SUBSTRATE_FIXTURE_ABSENT">>),
    XHCI_FOUNDATION |-> Declared(
            <<"PCI_RESOURCE_OWNERSHIP_AVAILABLE", "DYNAMIC_VECTOR_FOUNDATION_AVAILABLE",
              "DMA_FOUNDATION_AVAILABLE", "TIMER_CALIBRATION_COMPLETE">>,
            <<"XHCI_FOUNDATION_AVAILABLE">>, <<>>),
    XHCI_DESCRIPTOR_PROOF |-> Declared(
            <<"PAGE_TABLES_INSTALLED", "PCI_ACCESS_AVAILABLE", "HEAP_AVAILABLE",
              "PHYSICAL_FRAME_ALLOCATOR_AVAILABLE", "INTERRUPT_CONTROLLERS_CONFIGURED",
              "INTERRUPTS_ENABLED", "TIMER_CALIBRATION_COMPLETE", "THREADING_AVAILABLE",
              "SCHEDULER_AVAILABLE", "PCI_RESOURCE_OWNERSHIP_AVAILABLE",
              "DYNAMIC_VECTOR_FOUNDATION_AVAILABLE", "DMA_FOUNDATION_AVAILABLE",
              "XHCI_FOUNDATION_AVAILABLE">>,
            <<"XHCI_DESCRIPTOR_PROOF_COMPLETE">>, <<"XHCI_FIXTURE_ABSENT">>)]

declare_devices == [
    NVME_FOUNDATION |-> Declared(
            <<"PCI_RESOURCE_OWNERSHIP_AVAILABLE", "DYNAMIC_VECTOR_FOUNDATION_AVAILABLE",
              "DMA_FOUNDATION_AVAILABLE", "TIMER_CALIBRATION_COMPLETE">>,
            <<"NVME_FOUNDATION_AVAILABLE">>, <<>>),
    NVME_READ_PROOF |-> Declared(
            <<"PAGE_TABLES_INSTALLED", "PCI_ACCESS_AVAILABLE", "HEAP_AVAILABLE",
              "PHYSICAL_FRAME_ALLOCATOR_AVAILABLE", "INTERRUPT_CONTROLLERS_CONFIGURED",
              "INTERRUPTS_ENABLED", "TIMER_CALIBRATION_COMPLETE", "THREADING_AVAILABLE",
              "SCHEDULER_AVAILABLE", "PCI_RESOURCE_OWNERSHIP_AVAILABLE",
              "DYNAMIC_VECTOR_FOUNDATION_AVAILABLE", "DMA_FOUNDATION_AVAILABLE",
              "NVME_FOUNDATION_AVAILABLE">>,
            <<"NVME_READ_PROOF_COMPLETE">>, <<"NVME_FIXTURE_ABSENT">>),
    FAT16_FOUNDATION |-> Declared(
            <<"NVME_FOUNDATION_AVAILABLE">>,
            <<"FAT16_FOUNDATION_AVAILABLE", "PRIVATE_ONE_FILE_READ_AVAILABLE">>, <<>>),
    FILESYSTEM_FILE_PROOF |-> Declared(
            filesystem_file_requirements,
            <<"FILESYSTEM_FILE_PROOF_COMPLETE">>, <<"FILESYSTEM_FIXTURE_ABSENT">>),
    PROCESS_ADDRESS_SPACE_FOUNDATION |-> Declared(
            <<"PAGE_TABLES_INSTALLED", "WRITE_XOR_EXECUTE_PROVED",
              "PHYSICAL_FRAME_ALLOCATOR_AVAILABLE", "HEAP_AVAILABLE", "IDT_INSTALLED",
              "INTERRUPT_CONTROLLERS_CONFIGURED">>,
            <<"PROCESS_ADDRESS_SPACE_FOUNDATION_AVAILABLE">>, <<>>),
    ELF64_LOADER_FOUNDATION |-> Declared(
            <<"PROCESS_ADDRESS_SPACE_FOUNDATION_AVAILABLE">>,
            <<"ELF64_LOADER_FOUNDATION_AVAILABLE">>, <<>>),
    LINUX_SYSCALL_CPU_FOUNDATION |-> Declared(
            <<"PAGE_TABLES_INSTALLED", "IDT_INSTALLED", "INTERRUPT_CONTROLLERS_CONFIGURED",
              "PROCESS_ADDRESS_SPACE_FOUNDATION_AVAILABLE">>,
            <<"LINUX_SYSCALL_CPU_FOUNDATION_AVAILABLE">>, <<>>),
    LINUX_IMAGE_STACK_FOUNDATION |-> Declared(
            <<"FAT16_FOUNDATION_AVAILABLE", "PRIVATE_ONE_FILE_READ_AVAILABLE",
              "PROCESS_ADDRESS_SPACE_FOUNDATION_AVAILABLE",
              "ELF64_LOADER_FOUNDATION_AVAILABLE", "LINUX_SYSCALL_CPU_FOUNDATION_AVAILABLE">>,
            <<"LINUX_IMAGE_STACK_FOUNDATION_AVAILABLE">>, <<>>)]

declare_processes == [
    LINUX_UNAME_IMAGE_UTS_FOUNDATION |-> Declared(
            <<"FAT16_FOUNDATION_AVAILABLE", "PRIVATE_ONE_FILE_READ_AVAILABLE",
              "PROCESS_ADDRESS_SPACE_FOUNDATION_AVAILABLE",
              "ELF64_LOADER_FOUNDATION_AVAILABLE",
              "LINUX_SYSCALL_CPU_FOUNDATION_AVAILABLE",
              "LINUX_IMAGE_STACK_FOUNDATION_AVAILABLE">>,
            <<"LINUX_UNAME_IMAGE_UTS_FOUNDATION_AVAILABLE",
              "LINUX_CAT_IMAGE_STDIN_FOUNDATION_AVAILABLE">>, <<>>),
    AUDIO_FOUNDATION |-> Declared(
            <<"PCI_ACCESS_AVAILABLE", "DMA_FOUNDATION_AVAILABLE">>,
            <<"AUDIO_FOUNDATION_AVAILABLE">>, <<>>),
    AUDIO_CODEC_PROOF |-> Declared(
            audio_proof_requirements,
            <<"AUDIO_CODEC_PROOF_COMPLETE">>, <<"AUDIO_CONTROLLER_ABSENT">>),
    NVIDIA_FOUNDATION |-> Declared(
            <<"PCI_ACCESS_AVAILABLE">>,
            <<"NVIDIA_FOUNDATION_AVAILABLE">>, <<>>),
    NVIDIA_PROBE |-> Declared(
            nvidia_probe_requirements,
            <<"NVIDIA_PROBE_COMPLETE">>, <<"NVIDIA_FUNCTIONS_ABSENT">>),
    DRIVER_MATRIX_FOUNDATION |-> Declared(
            <<"PCI_ACCESS_AVAILABLE", "PCI_RESOURCE_OWNERSHIP_AVAILABLE">>,
            <<"DRIVER_MATRIX_FOUNDATION_AVAILABLE">>, <<>>),
    DRIVER_MATRIX_PROBE |-> Declared(
            driver_matrix_requirements,
            <<"DRIVER_MATRIX_PROBE_COMPLETE">>, <<"DRIVER_MATRIX_DEVICES_ABSENT">>),
    MULTIPROCESS_FOUNDATION |-> Declared(
            <<"PROCESS_ADDRESS_SPACE_FOUNDATION_AVAILABLE",
              "ELF64_LOADER_FOUNDATION_AVAILABLE">>,
            <<"MULTIPROCESS_FOUNDATION_AVAILABLE">>, <<>>),
    MULTIPROCESS_PROOF |-> Declared(
            multiprocess_proof_requirements,
            <<"MULTIPROCESS_PROOF_COMPLETE">>, <<>>),
    PROCESS_INSTALLED_PROOF |-> Declared(
            process_proof_requirements,
            <<"PROCESS_INSTALLED_PROOF_COMPLETE", "PROCESS_OUTCOME_DECIDED">>, <<"PROCESS_FIXTURE_ABSENT", "PROCESS_OUTCOME_DECIDED">>)]

declare_optional == [
    LINUX_INSTALLED_PROOF |-> Declared(
            linux_proof_requirements,
            <<"LINUX_INSTALLED_PROOF_COMPLETE", "LINUX_OUTCOME_DECIDED">>, <<"LINUX_FIXTURE_ABSENT", "LINUX_OUTCOME_DECIDED">>),
    LINUX_UNAME_INSTALLED_PROOF |-> Declared(
            linux_uname_proof_requirements,
            <<"LINUX_UNAME_INSTALLED_PROOF_COMPLETE", "LINUX_UNAME_OUTCOME_DECIDED">>, <<"LINUX_UNAME_FIXTURE_ABSENT", "LINUX_UNAME_OUTCOME_DECIDED">>),
    CLOSING_PROOFS |-> Declared(
            <<"PAGE_TABLES_INSTALLED", "INSTALLED_DEVICE_WINDOWS_PROVED", "HEAP_AVAILABLE",
              "PCI_ACCESS_AVAILABLE", "SCHEDULER_AVAILABLE",
              "PROCESS_ADDRESS_SPACE_FOUNDATION_AVAILABLE",
              "ELF64_LOADER_FOUNDATION_AVAILABLE", "PROCESS_OUTCOME_DECIDED",
              "LINUX_SYSCALL_CPU_FOUNDATION_AVAILABLE",
              "LINUX_IMAGE_STACK_FOUNDATION_AVAILABLE", "LINUX_OUTCOME_DECIDED",
              "LINUX_UNAME_IMAGE_UTS_FOUNDATION_AVAILABLE", "LINUX_UNAME_OUTCOME_DECIDED",
              "LINUX_CAT_IMAGE_STDIN_FOUNDATION_AVAILABLE">>,
            <<"BOOT_PROOFS_COMPLETE">>, <<>>),
    DESKTOP_CONSTRUCTION |-> Declared(
            <<"SURFACE_AVAILABLE", "UI_FONT_VERIFIED", "UI_LAYOUT_VALIDATED",
              "POINTER_AVAILABILITY_DECIDED", "NETWORK_AVAILABILITY_DECIDED">>,
            <<"DESKTOP_SHELL_AVAILABLE">>, <<>>),
    DESKTOP_ACTIVATION |-> Declared(
            <<"DESKTOP_SHELL_AVAILABLE", "FRAMEBUFFER_OUTPUT_INSTALLED",
              "FRAMEBUFFER_WC_INDEPENDENTLY_PROVED", "SURFACE_AVAILABLE",
              "UI_FONT_VERIFIED", "UI_LAYOUT_VALIDATED", "KEYBOARD_AVAILABLE",
              "THREADING_AVAILABLE", "SCHEDULER_AVAILABLE", "BOOT_PROOFS_COMPLETE">>,
            <<"DESKTOP_SHELL_ACTIVATED">>, <<>>),
    REDWOOD_INSTALLED_PROOF |-> Declared(
            <<"DESKTOP_SHELL_ACTIVATED", "FRAMEBUFFER_WC_INDEPENDENTLY_PROVED",
              "BOOT_PROOFS_COMPLETE">>,
            <<"REDWOOD_INSTALLED_PROOF_COMPLETE">>, <<>>)]

(* The descriptor table, in the order of the source. *)
installed_foundations == <<
    REQUIRED_STAGE("EARLY_SERIAL", FOUNDATION, "NONE",
        execute_early_serial),
    REQUIRED_STAGE("INTERRUPT_FOUNDATION", FOUNDATION, "NONE",
        execute_interrupt_foundation),
    REQUIRED_STAGE("PURE_SELF_TESTS", FOUNDATION, "NONE",
        execute_pure_self_tests),
    REQUIRED_STAGE("BOOT_INFORMATION", DISCOVERY, "NONE",
        execute_boot_information),
    REQUIRED_STAGE("FIRMWARE_DISCOVERY", DISCOVERY, "NONE",
        execute_firmware_discovery),
    REQUIRED_STAGE("DEVICE_WINDOWS", DISCOVERY, "NONE",
        execute_device_windows),
    REQUIRED_STAGE("INTERRUPT_CONTROLLERS", CONTROLLERS, "NONE",
        execute_interrupt_controllers),
    REQUIRED_STAGE("FRAME_ALLOCATOR", CONTROLLERS, "NONE",
        execute_frame_allocator),
    REQUIRED_STAGE("PAGING_INSTALL", MEMORY_TRANSITION, "PAT_CR3",
        execute_paging_install),
    REQUIRED_STAGE("PAGING_PROOFS", MEMORY_TRANSITION, "NONE",
        execute_paging_proofs),
    OPTIONAL_STAGE("FRAMEBUFFER_WC", MEMORY_TRANSITION, "NONE",
        execute_framebuffer_wc),
    REQUIRED_STAGE("MEMORY_RUNTIME", RUNTIME, "NONE",
        execute_memory_runtime),
    OPTIONAL_STAGE("FRAMEBUFFER_OUTPUT", RUNTIME, "FRAMEBUFFER_OUTPUT",
        execute_framebuffer_output),
    REQUIRED_STAGE("KEYBOARD", RUNTIME, "INTERRUPT_ENABLE",
        execute_keyboard),
    OPTIONAL_STAGE("SHELL", RUNTIME, "NONE",
        execute_shell),
    OPTIONAL_STAGE("UI_FONT", RUNTIME, "NONE",
        execute_ui_font),
    OPTIONAL_STAGE("POINTER_DECISION", RUNTIME, "NONE",
        execute_pointer_decision),
    OPTIONAL_NEUTRAL_STAGE("POINTER_OUTCOME", RUNTIME, "NONE",
        execute_pointer_outcome),
    OPTIONAL_STAGE("UI_LAYOUT", RUNTIME, "NONE",
        execute_ui_layout),
    REQUIRED_STAGE("EARLY_SCENARIO", RUNTIME, "NONE",
        execute_early_scenario),
    REQUIRED_STAGE("INTERRUPT_PROOFS", TIMERS, "NONE",
        execute_interrupt_proofs),
    REQUIRED_STAGE("TIMER_ROUTING", TIMERS, "NONE",
        execute_timer_routing),
    REQUIRED_STAGE("TIMER_CALIBRATION", TIMERS, "APIC_TIMER",
        execute_timer_calibration),
    REQUIRED_STAGE("PCI", SERVICES, "NONE",
        execute_pci),
    REQUIRED_STAGE("PCI_RESOURCE_FOUNDATION", SERVICES, "NONE",
        execute_pci_resource_foundation),
    REQUIRED_STAGE("DYNAMIC_VECTOR_FOUNDATION", SERVICES, "NONE",
        execute_dynamic_vector_foundation),
    REQUIRED_STAGE("DMA_FOUNDATION", SERVICES, "NONE",
        execute_dma_foundation),
    REQUIRED_STAGE("NETWORK_FOUNDATION", PROOFS, "NONE",
        execute_network_foundation),
    REQUIRED_STAGE("XHCI_FOUNDATION", SERVICES, "NONE",
        execute_xhci_foundation),
    REQUIRED_STAGE("NVME_FOUNDATION", SERVICES, "NONE",
        execute_nvme_foundation),
    REQUIRED_STAGE("FAT16_FOUNDATION", SERVICES, "NONE",
        execute_fat16_foundation)>>

installed_proofs == <<
    REQUIRED_STAGE("THREADING", SERVICES, "NONE",
        execute_threading),
    REQUIRED_STAGE("SCHEDULER", SERVICES, "SCHEDULER",
        execute_scheduler),
    REQUIRED_STAGE("PROCESS_ADDRESS_SPACE_FOUNDATION", SERVICES, "NONE",
        execute_process_address_space_foundation),
    REQUIRED_STAGE("ELF64_LOADER_FOUNDATION", SERVICES, "NONE",
        execute_elf64_loader_foundation),
    REQUIRED_STAGE("LINUX_SYSCALL_CPU_FOUNDATION", SERVICES, "NONE",
        execute_linux_syscall_cpu_foundation),
    REQUIRED_STAGE("LINUX_IMAGE_STACK_FOUNDATION", SERVICES, "NONE",
        execute_linux_image_stack_foundation),
    REQUIRED_STAGE("LINUX_UNAME_IMAGE_UTS_FOUNDATION", SERVICES, "NONE",
        execute_linux_uname_image_uts_foundation),
    OPTIONAL_NEUTRAL_STAGE("DEVICE_SUBSTRATE_PROOF", SERVICES, "NONE",
        execute_device_substrate_proof),
    OPTIONAL_NEUTRAL_STAGE("XHCI_DESCRIPTOR_PROOF", SERVICES, "NONE",
        execute_xhci_descriptor_proof),
    OPTIONAL_NEUTRAL_STAGE("NVME_READ_PROOF", SERVICES, "NONE",
        execute_nvme_read_proof),
    OPTIONAL_NEUTRAL_STAGE("FILESYSTEM_FILE_PROOF", SERVICES, "NONE",
        execute_filesystem_file_proof),
    OPTIONAL_NEUTRAL_STAGE("PROCESS_INSTALLED_PROOF", SERVICES, "NONE",
        execute_process_installed_proof),
    OPTIONAL_NEUTRAL_STAGE("LINUX_INSTALLED_PROOF", SERVICES, "NONE",
        execute_linux_installed_proof),
    OPTIONAL_NEUTRAL_STAGE("LINUX_UNAME_INSTALLED_PROOF", SERVICES, "NONE",
        execute_linux_uname_installed_proof),
    REQUIRED_STAGE("AUDIO_FOUNDATION", SERVICES, "NONE",
        execute_audio_foundation),
    OPTIONAL_NEUTRAL_STAGE("AUDIO_CODEC_PROOF", SERVICES, "NONE",
        execute_audio_codec_proof),
    REQUIRED_STAGE("NVIDIA_FOUNDATION", SERVICES, "NONE",
        execute_nvidia_foundation),
    OPTIONAL_NEUTRAL_STAGE("NVIDIA_PROBE", SERVICES, "NONE",
        execute_nvidia_probe),
    REQUIRED_STAGE("DRIVER_MATRIX_FOUNDATION", SERVICES, "NONE",
        execute_driver_matrix_foundation),
    OPTIONAL_NEUTRAL_STAGE("DRIVER_MATRIX_PROBE", SERVICES, "NONE",
        execute_driver_matrix_probe),
    REQUIRED_STAGE("MULTIPROCESS_FOUNDATION", SERVICES, "NONE",
        execute_multiprocess_foundation),
    REQUIRED_STAGE("MULTIPROCESS_PROOF", SERVICES, "NONE",
        execute_multiprocess_proof),
    REQUIRED_STAGE("CLOSING_PROOFS", PROOFS, "NONE",
        execute_closing_proofs),
    OPTIONAL_STAGE("DESKTOP_CONSTRUCTION", PROOFS, "NONE",
        execute_desktop_construction),
    OPTIONAL_STAGE("DESKTOP_ACTIVATION", PROOFS, "NONE",
        execute_desktop_activation),
    OPTIONAL_STAGE("REDWOOD_INSTALLED_PROOF", PROOFS, "NONE",
        execute_redwood_installed_proof)>>

capabilities ==
    declare_discovery @@ declare_runtime @@ declare_services
        @@ declare_devices @@ declare_processes @@ declare_optional

(* declare_dependencies on each descriptor of a table. *)
declare_dependencies(descriptors) ==
    [i \in DOMAIN descriptors |-> descriptors[i] @@ capabilities[descriptors[i].stage]]

(* The descriptors with their capabilities, in the order they are added. *)
boot_plan_build ==
    declare_dependencies(installed_foundations) \o declare_dependencies(installed_proofs)

===============================================================================
