------------------------------ MODULE Multiprocess ------------------------------
(***************************************************************************)
(* The proof that several processes, each with its own tables, take turns  *)
(* on the processor and do not disturb one another (multiprocess.c), as    *)
(* steps.  The turns themselves are actions of Processes.                  *)
(***************************************************************************)
EXTENDS ProcessSteps, Integers

CONSTANT MaxProcesses      \* MULTIPROCESS_MAX_PROCESSES

failure_status(step) == PointStatus(step)

validated_placement == <<Check({"ELF_PARSER"}), Check({"ELF_PLACEMENT"})>>

(* The image is copied in and compared. *)
install_image == Check({"FRAME_INITIALIZATION"})

(* Failure points are placed in the last process only, so that the others are
   already built. *)
LastOnly(p, step) == IF p = MaxProcesses THEN Point(step) ELSE step

(* A point after the last of the pages. *)
EndPoint(p, steps) == Append(Front(steps), LastOnly(p, Last(steps)))

build_process(p) ==
    validated_placement
        \o <<LastOnly(p, Allocate(p, "code1")), LastOnly(p, install_image)>>
        \o EndPoint(p, Each(LAMBDA n : Allocate(p, n), StackPages))
        \o <<LastOnly(p, Build(p)), LastOnly(p, Narrow(p, <<"code1">>)),
             LastOnly(p, MapPage(p, "code1"))>>
        \o EndPoint(p, Each(LAMBDA n : MapPage(p, n), StackPages))
        \o <<LastOnly(p, Validate(p, <<"code1">> \o StackPages, {"USER_WALK"})),
             Check({"CPU_CONTRACT"})>>

(* Distinct tables for distinct processes, judged before the first runs. *)
distinct_hierarchies == Check({"ADDRESS_SPACE"})

collect_published_state == Check({"ISOLATION"})

multiprocess_attempt ==
    FlattenSeq([p \in 1 .. MaxProcesses |-> build_process(p)])
        \o <<distinct_hierarchies, ArmGate, Schedule, collect_published_state>>

release_process(p) ==
    Each(LAMBDA n : UnmapPage(p, n), Reverse(StackPages))
        \o <<UnmapPage(p, "code1"), RestoreAliases(p), ReleaseSpace(p)>>
        \o Each(LAMBDA n : Free(p, n), Reverse(StackPages)) \o <<Free(p, "code1")>>

release_all_OldestFirst ==
    <<Disarm("counted_gate")>> \o FlattenSeq([p \in 1 .. MaxProcesses |-> release_process(p)])

(* Newest first, since a narrowing may stand on a split of an older one.  The
   gate is given back only if the proof came to count it as armed. *)
release_all ==
    <<Disarm("counted_gate")>>
        \o FlattenSeq([i \in 1 .. MaxProcesses |-> release_process(MaxProcesses + 1 - i)])

(* One attempt for every failure point, one in which a process faults and the
   others must finish, and one that is let through. *)
multiprocess_prove ==
    Each(LAMBDA point : Job(multiprocess_attempt, release_all, point),
         PointsOf(multiprocess_attempt) \o <<<<0, "fault">>, NoPoint>>) \o <<>>

===============================================================================
