------------------------------ MODULE BootProofs ------------------------------
(***************************************************************************)
(* What the boot stages call (src/kernel/boot_proofs.c and the subsystems  *)
(* it drives), as steps over a set of facts about the machine.  A step is  *)
(* one call of a subsystem: the facts its guards insist on (uses), the     *)
(* facts they refuse (forbids), the facts it establishes and revokes.  A   *)
(* call that is expected to be refused changes nothing and is left out.    *)
(*                                                                         *)
(* "sti" stands for interrupts being enabled on the processor.             *)
(***************************************************************************)
EXTENDS Sequences

Call(uses, forbids, does, undoes) ==
    [uses |-> uses, forbids |-> forbids, does |-> does, undoes |-> undoes, devices |-> {}]

(* A call that finds its device missing, and says so. *)
CallFor(devices, step) == [step EXCEPT !.devices = devices]

(***************************************************************************)
(* Processor, interrupt controllers and timers.                            *)
(***************************************************************************)
cpu_interrupt_enable == Call({"idt"}, {}, {"sti"}, {})

cpu_interrupt_disable == Call({}, {}, {}, {"sti"})

(* The descriptor tables, every gate, and last the legacy controller. *)
interrupts_initialize == Call({}, {"idt", "sti"}, {"idt", "pic"}, {})

pic_retire == Call({"pic"}, {"sti", "pic_retired"}, {"pic_retired"}, {})

interrupt_breakpoint_self_test == Call({"idt"}, {"sti"}, {}, {})

interrupt_ist_self_test == Call({"idt"}, {"sti"}, {}, {})

interrupt_pic_spurious_self_test == Call({"idt", "pic"}, {"sti"}, {}, {})

pm_timer_initialize == Call({"clocks"}, {"pm_timer"}, {"pm_timer"}, {})

pm_timer_wait == Call({"pm_timer"}, {}, {}, {})

apic_bring_online == Call({"topology", "idt"}, {"apic", "sti"}, {"apic"}, {})

apic_retire_legacy_routing == Call({"apic"}, {"sti"}, {}, {})

ioapic_initialize == Call({"topology"}, {"ioapic", "sti"}, {"ioapic"}, {})

pit_start(route) ==
    Call({"idt"} \cup (IF route = "LEGACY_PIC" THEN {} ELSE {"ioapic"}),
         {"pit_retired", "pit_running", "sti"}
             \cup (IF route = "LEGACY_PIC" THEN {"pic_retired"} ELSE {}),
         {"pit_running"}, {})

pit_wait_for_ticks == Call({"pit_running"}, {"sti"}, {}, {})

pit_wait_for_ticks_bounded == Call({"pit_running", "pm_timer"}, {"sti"}, {}, {})

pit_stop == Call({"pit_running"}, {"sti"}, {}, {"pit_running"})

pit_retire == Call({}, {"pit_retired", "sti"}, {"pit_retired"}, {"pit_running"})

apic_timer_calibrate == Call({"apic", "pm_timer"}, {"sti", "calibrated"}, {"calibrated"}, {})

apic_timer_start ==
    Call({"apic", "calibrated", "idt"}, {"sti", "ticking", "timers"}, {"ticking"}, {})

apic_timer_wait_for_ticks == Call({"ticking"}, {"sti"}, {}, {})

apic_timer_stop == Call({"ticking"}, {"sti"}, {}, {"ticking"})

tsc_calibrate == Call({"pm_timer"}, {"sti", "tsc"}, {"tsc"}, {})

clock_start == Call({"tsc"}, {"clock"}, {"clock"}, {})

timer_start == Call({"clock", "heap", "idt"}, {"timers", "sti"}, {"timers"}, {})

timer_sleep_ns == Call({"timers", "calibrated"}, {}, {}, {})

prove_timer_route(route) == <<pit_start(route), pit_wait_for_ticks, pit_stop>>

retire_legacy_interrupt_path == <<pic_retire, apic_retire_legacy_routing>>

prove_level_route == <<pit_start("IO_APIC_LEVEL"), pit_wait_for_ticks_bounded, pit_stop>>

prove_pm_timer == <<pm_timer_wait>>

prove_apic_timer ==
    <<apic_timer_calibrate, apic_timer_start, apic_timer_wait_for_ticks, apic_timer_stop>>

prove_tsc == <<tsc_calibrate>>

retire_pit == <<pit_retire>>

prove_clocks_without_pit ==
    <<Call({"pit_retired"}, {}, {}, {}), apic_timer_start, apic_timer_wait_for_ticks,
      apic_timer_stop, Call({"pm_timer", "tsc"}, {}, {}, {})>>

prove_monotonic_time == <<clock_start, timer_start, timer_sleep_ns>>

(***************************************************************************)
(* Memory.                                                                 *)
(***************************************************************************)
frame_allocator_initialize == Call({"information"}, {}, {"frames"}, {})

frame_allocate == Call({"frames"}, {}, {}, {})

prove_frame_lifecycle == <<frame_allocate, frame_allocate>>

paging_initialize == Call({"windows", "frames"}, {"paging", "sti"}, {"paging"}, {})

paging_verify == Call({"paging"}, {}, {}, {})

paging_map == Call({"paging", "frames"}, {}, {}, {})

install_page_tables == <<paging_initialize, paging_verify>>

(* The framebuffer's window is read back as write-combining. *)
prove_write_combining == <<paging_verify>>

prove_paging_lifecycle == <<frame_allocate, paging_map>>

heap_initialize == Call({"paging"}, {"heap", "sti"}, {"heap"}, {})

heap_allocate == Call({"heap"}, {}, {}, {})

heap_verify == Call({"heap", "paging"}, {}, {}, {})

bring_up_heap == <<heap_initialize>>

prove_heap_lifecycle == <<heap_allocate, heap_verify>>

(***************************************************************************)
(* Display, input and the shell.                                           *)
(***************************************************************************)
framebuffer_initialize == Call({"paging", "windows"}, {"framebuffer"}, {"framebuffer"}, {})

prove_framebuffer == <<framebuffer_initialize>>

surface_initialize == Call({"heap"}, {}, {}, {})

prove_surface == <<Call({"framebuffer"}, {}, {}, {}), surface_initialize>>

draw_logo == <<Call({"framebuffer"}, {}, {}, {}), heap_allocate>>

screen_initialize == Call({"framebuffer", "heap"}, {"screen"}, {"screen"}, {})

prove_screen_console == <<screen_initialize>>

keyboard_initialize == Call({"idt", "ioapic"}, {"keyboard", "sti"}, {"keyboard"}, {})

keyboard_inject_scancode == Call({"keyboard"}, {}, {}, {})

prove_keyboard ==
    <<keyboard_initialize, cpu_interrupt_enable, keyboard_inject_scancode, cpu_interrupt_disable>>

shell_initialize == Call({}, {}, {"shell"}, {})

prove_shell ==
    <<shell_initialize, Call({"screen"}, {}, {}, {}), cpu_interrupt_enable,
      keyboard_inject_scancode, cpu_interrupt_disable>>

pointer_initialize ==
    CallFor({"pointer"}, Call({"keyboard", "ioapic", "idt"}, {"pointer", "sti"}, {"pointer"}, {}))

ui_font_initialize == Call({}, {}, {"font"}, {})

ui_layout_build == Call({"framebuffer"}, {}, {}, {})

ui_construct == Call({"framebuffer", "screen", "font"}, {"ui"}, {"ui"}, {})

ui_activate == Call({"ui"}, {"ui_active"}, {"ui_active"}, {})

ui_verify_installed == Call({"ui_active", "font"}, {}, {}, {})

(***************************************************************************)
(* Devices and threads.                                                    *)
(***************************************************************************)
pci_initialize == Call({"heap"}, {"pci", "sti"}, {"pci"}, {})

bring_up_pci == <<pci_initialize>>

pci_resource_initialize == Call({"pci", "paging"}, {"resources", "sti"}, {"resources"}, {})

interrupt_vector_initialize == Call({"idt", "apic"}, {"vectors", "sti"}, {"vectors"}, {})

dma_initialize == Call({}, {"dma"}, {"dma"}, {})

dma_self_test == Call({"dma", "frames", "paging"}, {}, {}, {})

network_initialize ==
    CallFor({"nic"}, Call({"pci", "resources", "vectors", "dma"}, {"nic"}, {"nic", "claims"}, {}))

(* A proof claims a device, drives it and gives everything back. *)
DeviceProof == Call({"pci", "resources", "vectors", "dma", "clock"}, {"claims"}, {}, {})

thread_start == Call({"heap", "paging"}, {"threads", "sti"}, {"threads"}, {})

thread_create == Call({"threads", "frames"}, {"sti"}, {}, {})

thread_join == Call({"threads"}, {}, {}, {})

thread_enable_preemption == Call({"threads", "timers"}, {"preemptive"}, {"preemptive"}, {})

thread_disable_preemption == Call({"threads", "preemptive"}, {}, {}, {"preemptive"})

thread_stop == Call({"threads"}, {"sti"}, {}, {"threads", "preemptive"})

prove_threads == <<thread_start, thread_create, thread_join, thread_stop>>

prove_preemption ==
    <<thread_start, Call({"timers"}, {}, {}, {}), thread_create, thread_enable_preemption,
      cpu_interrupt_enable, thread_join, cpu_interrupt_disable, thread_disable_preemption,
      thread_stop>>

===============================================================================
