------------------------------ MODULE ProcessProof ------------------------------
(***************************************************************************)
(* The proof that one process can be built, entered, left and reclaimed    *)
(* (process.c), as steps.                                                  *)
(***************************************************************************)
EXTENDS ProcessSteps

Files == INSTANCE FileReads

(* A failure point only after the first and after the last of the stack pages. *)
EndPoints(steps) ==
    [i \in DOMAIN steps |-> IF i \in {1, Len(steps)} THEN Point(steps[i]) ELSE steps[i]]

failure_status(step) == PointStatus(step)

(* The order the states of the process may be passed through. *)
process_transition(from, to) ==
    CASE from = "CANDIDATE" -> to \in {"BUILDING", "STOPPING"}
      [] from = "BUILDING"  -> to \in {"INSTALLED", "STOPPING"}
      [] from = "INSTALLED" -> to \in {"RUNNING", "STOPPING"}
      [] from = "RUNNING"   -> to = "STOPPING"
      [] from = "STOPPING"  -> to = "RELEASED"
      [] OTHER              -> FALSE

(* The point that follows is reported as the parser's. *)
validated_placement == Check({"ELF_PARSER", "ELF_PLACEMENT"})

(* The image is copied in and compared. *)
install_image == Check({"FRAME_INITIALIZATION"})

stack_frames == Each(LAMBDA n : Point(Allocate(1, n)), StackPages)

stack_pages == EndPoints(Each(LAMBDA n : MapPage(1, n), StackPages))

(* process_return_interrupt authenticates the frame and restores the tables. *)
process_return_interrupt == Enter(1)

build_process ==
    <<Point(Check({"FILESYSTEM"})), Point(validated_placement),
      Point(Allocate(1, "code1")), Point(install_image)>>
        \o stack_frames
        \o <<Point(Build(1)), Point(Narrow(1, <<"code1">>)), Point(MapPage(1, "code1"))>>
        \o stack_pages
        \o <<Point(Validate(1, <<"code1">> \o StackPages, {"USER_WALK"}))>>

run_process ==
    <<Check({"CPU_CONTRACT"}), Point(ArmGate), Move("process", "INSTALLED"),
      Point(Then(Activate(1), "process", "RUNNING")), process_return_interrupt,
      Check({"RETURN_AUTHENTICATION"})>>

process_attempt ==
    <<Move("process", "BUILDING")>> \o Files!filesystem_private_read_open
        \o build_process \o run_process

unmap_all == Each(LAMBDA n : UnmapPage(1, n), Reverse(StackPages)) \o <<UnmapPage(1, "code1")>>

free_all == Each(LAMBDA n : Free(1, n), Reverse(StackPages)) \o <<Free(1, "code1")>>

release_runtime_FreesFirst ==
    Files!private_read_cleanup
        \o <<RestoreKernel(1), Move("process", "STOPPING"), Disarm("gate")>>
        \o free_all \o unmap_all
        \o <<RestoreAliases(1), ReleaseSpace(1), CloseFile, Move("process", "RELEASED")>>

(* An open that failed has given its session back by now, or could not. *)
release_runtime ==
    Files!private_read_cleanup
        \o <<RestoreKernel(1), Move("process", "STOPPING"), Disarm("gate")>>
        \o unmap_all \o <<RestoreAliases(1), ReleaseSpace(1)>>
        \o free_all \o <<CloseFile, Move("process", "RELEASED")>>

(* One attempt for every failure point, and one that is let through. *)
process_installed_prove ==
    Each(LAMBDA point : Job(process_attempt, release_runtime, point),
         Append(FileFirst(process_attempt), NoPoint)) \o <<>>

===============================================================================
