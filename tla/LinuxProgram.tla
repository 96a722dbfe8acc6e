------------------------------ MODULE LinuxProgram ------------------------------
(***************************************************************************)
(* What the three Linux programs have in common: linux_abi.c (echo),       *)
(* linux_uname.c and linux_cat.c build, run and reclaim a program by the   *)
(* same steps, each file with its own copy of the functions.  LinuxEcho,   *)
(* LinuxUname and LinuxCat are the three files.                            *)
(***************************************************************************)
EXTENDS ProcessSteps

(* The image: executable pages and others. *)
Executable == <<"code1", "code2">>

Image == Executable \o <<"data">>

Heap == <<"heap1", "heap2">>

(***************************************************************************)
(* The order the records of a program may pass through their states.       *)
(***************************************************************************)
ProcessOrder ==
    [CANDIDATE |-> {"BUILDING", "STOPPING"}, BUILDING |-> {"INSTALLED", "STOPPING"},
     INSTALLED |-> {"RUNNING", "STOPPING"}, RUNNING |-> {"EXITING", "STOPPING"},
     EXITING |-> {"STOPPING"}, STOPPING |-> {"RELEASED"}, RELEASED |-> {}]

ExecutableOrder ==
    [CANDIDATE |-> {"VALIDATED", "RELEASED"}, VALIDATED |-> {"INSTALLED", "RELEASED"},
     INSTALLED |-> {"RELEASED"}, RELEASED |-> {}]

StackOrder ==
    [CANDIDATE |-> {"BUILDING", "RELEASED"}, BUILDING |-> {"INSTALLED", "RELEASED"},
     INSTALLED |-> {"RELEASED"}, RELEASED |-> {}]

(***************************************************************************)
(* Building.                                                               *)
(***************************************************************************)
Frames(names) == Each(LAMBDA n : Point(Allocate(1, n)), names)

(* A string or a word at a time, and a look at the whole; two of the writes
   stand for all of them. *)
StackWrites == <<Point(Check({"STACK"})), Point(Check({"STACK"}))>>

Pages(names) == Each(LAMBDA n : Point(MapPage(1, n)), names)

Opened(file) == <<Move("process", "BUILDING")>> \o file \o <<Point(Check({"FILESYSTEM"}))>>

Parsed(check) == <<Point(Then(check, "executable", "VALIDATED"))>>

(* In an attempt that is to run out of page tables, from here on it may. *)
Installed(install, stack, pages, scarce) ==
    <<Point(Then(install, "executable", "INSTALLED")), Move("stack", "BUILDING")>>
        \o stack \o <<Point(Then(Check({"STACK"}), "stack", "INSTALLED"))>>
        \o (IF scarce THEN <<ArmTables>> ELSE <<>>)
        \o <<Point(Build(1)), Point(Narrow(1, Executable))>>
        \o pages \o <<Point(Validate(1, Image \o StackPages, {"PERMISSION_AUDIT"}))>>

Entered(profile, controls) ==
    <<Point(ArmSyscall(1, profile))>> \o controls
        \o <<Move("process", "INSTALLED"), Point(Then(Activate(1), "process", "RUNNING"))>>

Calls(names) == Each(LAMBDA n : Points(Call(1, n)), names)

(***************************************************************************)
(* Release.  Whatever becomes of one step, the next is taken.              *)
(***************************************************************************)
Backwards(Make(_, _), names) == Each(LAMBDA n : Make(1, n), Reverse(names))

Stopped(close) ==
    close \o <<RestoreKernel(1), Move("process", "STOPPING"), Disarm("syscall")>>

Unmapped(runtime) ==
    Backwards(UnmapPage, runtime) \o Backwards(UnmapPage, StackPages) \o Backwards(UnmapPage, Image)
        \o <<RestoreAliases(1), ReleaseSpace(1), DisarmTables>>

Freed(runtime) ==
    Backwards(Free, runtime) \o Backwards(Free, StackPages) \o Backwards(Free, Image)
        \o <<Move("executable", "RELEASED"), Move("stack", "RELEASED"), CloseFile,
             Move("process", "RELEASED")>>

(***************************************************************************)
(* A proof: a failure at every point, every page table missing in turn     *)
(* until an attempt does not notice, and an attempt that is let through.   *)
(***************************************************************************)
Attempts(up, down, points) == [i \in DOMAIN points |-> Job(up, down, points[i])]

Proof(plain, scarce, down) ==
    Attempts(plain, down, FileFirst(plain))
        \o Attempts(scarce, down, Append(TablePoints(scarce), <<0, "table">>))
        \o <<Job(plain, down, NoPoint)>>

===============================================================================
