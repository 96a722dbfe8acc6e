------------------------------ MODULE DriverMatrix ------------------------------
(***************************************************************************)
(* The drivers that take a device, look at it and give it back: the        *)
(* built-in matrix (driver.c), the NVIDIA drivers (nvidia.c) and the audio *)
(* proof (audio.c).  A probe resets or reads its device and judges the     *)
(* answer; the values are left out, every status it may refuse with is     *)
(* kept.                                                                   *)
(***************************************************************************)
EXTENDS DriverSteps

probe_e1000_family == Check({"REGISTER_WINDOW", "RESET_TIMEOUT", "IDENTITY"})

probe_intel_82540em == probe_e1000_family

probe_intel_82574l == probe_e1000_family

probe_intel_ich9_ahci == Check({"REGISTER_WINDOW", "RESET_TIMEOUT", "IDENTITY"})

probe_intel_ich9_hda == Check({"REGISTER_WINDOW", "RESET_TIMEOUT", "IDENTITY"})

probe_realtek_rtl8139 == Check({"REGISTER_WINDOW", "RESET_TIMEOUT", "IDENTITY"})

probe_amd_pcnet == Check({"REGISTER_WINDOW", "RESET_TIMEOUT", "IDENTITY"})

probe_intel_ich4_ehci == Check({"REGISTER_WINDOW", "IDENTITY", "RESET_TIMEOUT"})

probe_cirrus_gd5446 == Check({"REGISTER_WINDOW", "IDENTITY"})

probe_bochs_display == Check({"REGISTER_WINDOW", "IDENTITY"})

probe_intel_82441fx == Check({"CONFIGURATION_READ", "IDENTITY"})

probe_intel_piix3_isa == Check({"CONFIGURATION_READ", "IDENTITY"})

probe_intel_piix3_ide == Check({"CONFIGURATION_READ", "IDENTITY"})

probe_intel_piix4_acpi == Check({"CONFIGURATION_READ", "IDENTITY"})

(* A driver: how it reaches its device, and its probe. *)
Driver(access, probe) == [access |-> access, probe |-> probe]

(* In the order the matrix binds them. *)
driver_matrix ==
    <<Driver("configuration", probe_intel_82441fx), Driver("configuration", probe_intel_piix3_isa),
      Driver("configuration", probe_intel_piix3_ide), Driver("configuration", probe_intel_piix4_acpi),
      Driver("memory", probe_intel_82540em), Driver("memory", probe_intel_82574l),
      Driver("memory", probe_intel_ich9_ahci), Driver("memory", probe_intel_ich9_hda),
      Driver("memory", probe_realtek_rtl8139), Driver("memory", probe_intel_ich4_ehci),
      Driver("memory", probe_cirrus_gd5446), Driver("memory", probe_bochs_display),
      Driver("memory", probe_amd_pcnet)>>

probe_master_control == Check({"REGISTER_WINDOW", "IDENTITY", "ENDIANNESS"})

probe_configuration_mirror == Check({"REGISTER_WINDOW", "IDENTITY"})

probe_timer == Check({"REGISTER_WINDOW", "TIMER_STOPPED"})

(* The ROM shadow is switched off for the read and must read back as it was. *)
probe_video_bios == Check({"REGISTER_WINDOW", "ROM_NOT_RESTORED", "ROM_ABSENT", "ROM_MALFORMED"})

probe_hd_audio == Check({"REGISTER_WINDOW", "VERSION", "IDENTITY"})

probe_boot_straps == Check({"REGISTER_WINDOW", "STRAPS", "APERTURE_ALIASED", "IDENTITY"})

probe_master_control_engines == Check({"REGISTER_WINDOW", "IDENTITY", "APERTURE_ALIASED"})

probe_memory_apertures == Check({"CLAIM_FAILURE", "APERTURE"})

probe_express_link == Check({"LINK"})

probe_board_identity == Check({"IDENTITY"})

probe_power_management == Check({"POWER_MANAGEMENT"})

probe_message_interrupts == Check({"MESSAGE_INTERRUPTS"})

probe_express_device == Check({"ENDPOINT"})

probe_expansion_rom == Check({"EXPANSION_ROM"})

probe_timer_scale == Check({"REGISTER_WINDOW", "TIMER_SCALE", "TIMER_STOPPED"})

(* In the order nvidia_bind goes through them. *)
nvidia_drivers ==
    <<Driver("memory", probe_master_control), Driver("memory", probe_configuration_mirror),
      Driver("memory", probe_timer), Driver("memory", probe_video_bios),
      Driver("memory", probe_hd_audio), Driver("memory", probe_boot_straps),
      Driver("memory", probe_master_control_engines), Driver("aperture", probe_memory_apertures),
      Driver("configuration", probe_express_link), Driver("configuration", probe_board_identity),
      Driver("configuration", probe_power_management), Driver("configuration", probe_message_interrupts),
      Driver("configuration", probe_express_device), Driver("configuration", probe_expansion_rom),
      Driver("memory", probe_timer_scale)>>

(* find_device: a driver whose device is not there is passed over.  A driver that
   reads only configuration space takes nothing; one that wants the description
   of the BARs claims; the others claim, map and probe. *)
find_device == Step("find", "", {})

bind_one(driver) ==
    <<find_device>>
        \o (IF driver.access # "configuration" THEN <<Claim>> ELSE <<>>)
        \o (IF driver.access = "memory" THEN <<Map("registers"), Check({"REGISTER_WINDOW"})>> ELSE <<>>)
        \o <<driver.probe>>

(* After the probe, whatever it said. *)
bind_release == <<Unmap("registers"), Release>>

-------------------------------------------------------------------------------
(* The High Definition Audio proof: reset, two rings, one identification per
   codec, release (audio.c). *)

wait_gctl == <<Halt({"RESET_TIMEOUT"})>>

select_ring_size == <<Check({"RING_SIZE"})>>

reset_command_read_pointer == <<Check({"RING_RESET"})>>

(* A verb is answered in time, once, and by the codec that was asked. *)
issue_verb == <<Check({"VERB_TIMEOUT", "RESPONSE_AUTHENTICATION"})>>

identify_codec == issue_verb \o issue_verb \o <<Check({"IDENTITY"})>>

rings == {"command_ring", "response_ring"}

bring_up ==
    <<Claim, Map("registers"), Check({"REGISTER_WINDOW"})>> \o wait_gctl \o wait_gctl
        \o <<Arm, Check({"VERSION", "CODEC_ABSENT"})>> \o select_ring_size
        \o <<Allocate("command_ring"), Allocate("response_ring"), Check({"DMA_FAILURE"})>>
        \o reset_command_read_pointer
        \o <<Refuse(Master(rings)), Mark("command_ring"), Mark("response_ring"),
             Give("command_ring"), Give("response_ring"), Master(rings), Start(rings),
             Check({"RING_START"})>>
        \o identify_codec \o <<Check({"IDENTITY"})>>

release_controller ==
    <<Stop, Unmaster, Take("response_ring"), Take("command_ring"), Free("response_ring"),
      Free("command_ring"), Unmap("registers"), Release>>

audio_prove == <<Check({"ABSENT"})>> \o bring_up

===============================================================================
