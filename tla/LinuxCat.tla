------------------------------- MODULE LinuxCat -------------------------------
(***************************************************************************)
(* linux_cat.c: the third Linux program, which stays in the middle of its  *)
(* read until the terminal delivers a line or the end of the input.        *)
(***************************************************************************)
EXTENDS LinuxProgram

Files == INSTANCE FileReads

(* Between two reads the program waits for the terminal. *)
transition_process(from, to) ==
    \/ from \in DOMAIN ProcessOrder /\ to \in ProcessOrder[from]
    \/ from = "RUNNING" /\ to = "WAITING_FOR_INPUT"
    \/ from = "WAITING_FOR_INPUT" /\ to \in {"READY_TO_RESUME", "STOPPING"}
    \/ from = "READY_TO_RESUME" /\ to \in {"RUNNING", "STOPPING"}

transition_executable(from, to) == to \in ExecutableOrder[from]

transition_stack(from, to) == to \in StackOrder[from]

allocate_runtime_frames == Frames(Image \o StackPages)

(* The parser, and the segments where they have to be. *)
validated_placement == Check({"ELF"})

(* The image is copied in and compared. *)
install_image == Check({"ELF_INSTALL"})

build_initial_stack == StackWrites

map_initial_pages == Pages(Image \o StackPages)

open_program(mounted) ==
    Opened(IF mounted THEN Files!linux_read_open_mounted ELSE Files!filesystem_linux_read_open_profile(2))

(* Reads that have to be refused are tried before the program runs. *)
read_negative_self_test == <<Check({"ROBUSTNESS"})>>

enter_program == Entered("cat", read_negative_self_test) \o Calls(<<"set_fs", "set_tid", "read">>)

linux_attempt(mounted) ==
    open_program(mounted) \o Parsed(validated_placement) \o allocate_runtime_frames
        \o Installed(install_image, build_initial_stack, map_initial_pages, FALSE) \o enter_program

unmap_all == Unmapped(<<>>)

release_runtime == Stopped(Files!private_read_cleanup) \o unmap_all \o Freed(<<>>)

(* The boot proves only the foundations of this program. *)
linux_cat_abi_installed_prove == <<Job(<<Check({"ROBUSTNESS"})>>, <<>>, NoPoint)>>

(* What follows once the saved read has been completed. *)
resume_program(calls) ==
    <<Check({"ROBUSTNESS"}), Then(ResumeFrame, "process", "READY_TO_RESUME"),
      Then(Activate(1), "process", "RUNNING")>> \o Calls(calls)

(* Started from the session or from the drive; given a line; given the end. *)
linux_cat_abi_launch ==
    <<Job(linux_attempt(FALSE), release_runtime, NoPoint),
      Job(linux_attempt(TRUE), release_runtime, NoPoint),
      Job(resume_program(<<"write", "read">>), release_runtime, NoPoint),
      Job(resume_program(<<"exit">>), release_runtime, NoPoint)>>

===============================================================================
