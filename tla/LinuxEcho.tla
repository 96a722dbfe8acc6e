------------------------------- MODULE LinuxEcho -------------------------------
(***************************************************************************)
(* linux_abi.c: the first Linux program, which maps, unmaps and writes.    *)
(***************************************************************************)
EXTENDS LinuxProgram

Files == INSTANCE FileReads

Runtime == Heap \o <<"anon">>

failure_status(step) == PointStatus(step)

transition_process(from, to) == to \in ProcessOrder[from]

transition_executable(from, to) == to \in ExecutableOrder[from]

transition_stack(from, to) == to \in StackOrder[from]

allocate_runtime_frames == Frames(Image \o StackPages \o Runtime)

(* The parser, and the segments where they have to be. *)
validated_placement == Check({"ELF"})

(* The image is copied in and compared. *)
install_image == Check({"ELF_INSTALL"})

build_initial_stack == StackWrites

map_initial_pages == Pages(Image \o StackPages)

open_program(mounted) ==
    Opened(IF mounted THEN Files!linux_read_open_mounted ELSE Files!filesystem_linux_read_open_profile(2))

enter_program ==
    Entered("echo", <<>>)
        \o Calls(<<"set_fs", "set_tid", "brk0", "brk", "mmap_none", "mmap", "write", "munmap", "exit">>)

linux_attempt(mounted, scarce) ==
    open_program(mounted) \o Parsed(validated_placement) \o allocate_runtime_frames
        \o Installed(install_image, build_initial_stack, map_initial_pages, scarce) \o enter_program

unmap_all == Unmapped(Runtime)

release_runtime == Stopped(Files!private_read_cleanup) \o unmap_all \o Freed(Runtime)

linux_abi_installed_prove ==
    Proof(linux_attempt(FALSE, FALSE), linux_attempt(FALSE, TRUE), release_runtime) \o <<>>

(* The program from the private session, or from the mounted drive. *)
linux_abi_launch ==
    <<Job(linux_attempt(FALSE, FALSE), release_runtime, NoPoint),
      Job(linux_attempt(TRUE, FALSE), release_runtime, NoPoint)>>

===============================================================================
