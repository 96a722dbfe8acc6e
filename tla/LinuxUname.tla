------------------------------ MODULE LinuxUname ------------------------------
(***************************************************************************)
(* linux_uname.c: the second Linux program, which asks for the name of the *)
(* system and writes it.                                                   *)
(***************************************************************************)
EXTENDS LinuxProgram

Files == INSTANCE FileReads

Runtime == Heap \o <<"anon">>

failure_status(step) == PointStatus(step)

transition_process(from, to) == to \in ProcessOrder[from]

transition_executable(from, to) == to \in ExecutableOrder[from]

transition_stack(from, to) == to \in StackOrder[from]

allocate_runtime_frames == Frames(Image \o StackPages \o Runtime)

(* The parser, and the segments where they have to be. *)
validated_placement == Check({"ELF"})

(* The image is copied in and compared. *)
install_image == Check({"ELF_INSTALL"})

build_initial_stack == StackWrites

map_initial_pages == Pages(Image \o StackPages)

open_program(mounted) ==
    Opened(IF mounted THEN Files!linux_read_open_mounted ELSE Files!filesystem_linux_read_open_profile(2))

(* The copy to the program is tried on every bad address before it runs, and
   before the failure point of the arming, which it does not change. *)
copyout_self_test == <<Check({"ROBUSTNESS"})>>

enter_program ==
    Entered("uname", copyout_self_test)
        \o Calls(<<"set_fs", "set_tid", "uname", "ioctl", "writev", "exit">>)

linux_attempt(mounted, scarce) ==
    open_program(mounted) \o Parsed(validated_placement) \o allocate_runtime_frames
        \o Installed(install_image, build_initial_stack, map_initial_pages, scarce) \o enter_program

unmap_all == Unmapped(Runtime)

release_runtime == Stopped(Files!private_read_cleanup) \o unmap_all \o Freed(Runtime)

linux_uname_abi_installed_prove ==
    Proof(linux_attempt(FALSE, FALSE), linux_attempt(FALSE, TRUE), release_runtime) \o <<>>

linux_uname_abi_launch ==
    <<Job(linux_attempt(FALSE, FALSE), release_runtime, NoPoint),
      Job(linux_attempt(TRUE, FALSE), release_runtime, NoPoint)>>

===============================================================================
