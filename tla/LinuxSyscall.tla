------------------------------ MODULE LinuxSyscall ------------------------------
(***************************************************************************)
(* The system-call boundary of the three Linux programs (linux_syscall.c): *)
(* what each call does to the record of the boundary, as operators on it.  *)
(* The pages a call maps or unmaps, and the return to the kernel's tables, *)
(* are actions of Processes.                                               *)
(*                                                                         *)
(* A call is named for what the program means by it, so that a number used *)
(* twice has two names; that its arguments are not the expected ones, or   *)
(* that the processor does not take a register, is the choice "refused".   *)
(***************************************************************************)
EXTENDS Integers, Sequences, SequencesExt

CONSTANT MaxLines        \* LINUX_CAT_INPUT_LINES

(* The order of the calls of each program. *)
profile_expected(profile) ==
    CASE profile = "echo"  -> <<"set_fs", "set_tid", "brk0", "brk", "mmap_none", "mmap", "write", "munmap", "exit">>
      [] profile = "uname" -> <<"set_fs", "set_tid", "uname", "ioctl", "writev", "exit">>
      [] profile = "cat"   -> <<"set_fs", "set_tid", "read", "write", "exit">>

profile_expected_calls(profile) == Len(profile_expected(profile))

(* Every other call has no number here. *)
profile_allowed(profile) == Range(profile_expected(profile))

cat_expected_number(phase) ==
    CASE phase = "INIT_FS"  -> "set_fs"
      [] phase = "INIT_TID" -> "set_tid"
      [] phase = "READ"     -> "read"
      [] phase = "WRITE"    -> "write"
      [] phase = "EXIT"     -> "exit"
      [] OTHER              -> "none"

NoLine == "none"

Unarmed ==
    [active |-> FALSE, profile |-> "none", cpu |-> "CANDIDATE", provenance |-> "CANDIDATE",
     stdout |-> "CANDIDATE", uts |-> "CANDIDATE", uname_stdout |-> "CANDIDATE", calls |-> 0,
     phase |-> "INIT_FS", read |-> "IDLE", saved |-> FALSE, output |-> NoLine, eof |-> FALSE,
     lines |-> 0, resumes |-> 0, status |-> "OK"]

(***************************************************************************)
(* The state machines of the boundary.                                     *)
(***************************************************************************)
transition_cpu(from, to) ==
    \/ from = "CANDIDATE" /\ to = "ARMED"
    \/ from \in {"ARMED", "RETURNED"} /\ to \in {"ENTERED", "DISARMED"}
    \/ from = "ENTERED" /\ to = "RETURNED"

transition_stdout(from, to) ==
    \/ from = "CANDIDATE" /\ to \in {"ARMED", "RELEASED"}
    \/ from = "ARMED" /\ to \in {"WRITTEN", "RELEASED"}
    \/ from = "WRITTEN" /\ to = "RELEASED"

(* A copy under way can be neither abandoned nor released. *)
transition_uts(from, to) ==
    \/ from = "CANDIDATE" /\ to \in {"ACTIVE", "RELEASED"}
    \/ from = "ACTIVE" /\ to \in {"COMPLETED", "FAILED"}
    \/ from \in {"COMPLETED", "FAILED"} /\ to = "RELEASED"

transition_uname_stdout(from, to) ==
    \/ from = "CANDIDATE" /\ to \in {"EMPTY", "RELEASED"}
    \/ from = "EMPTY" /\ to \in {"RECEIVING", "INVALID", "RELEASED"}
    \/ from = "RECEIVING" /\ to \in {"VALID", "INVALID"}
    \/ from \in {"VALID", "INVALID"} /\ to = "RELEASED"

transition_provenance(from, to) ==
    \/ from = "CANDIDATE" /\ to \in {"ENTERED", "RELEASED"}
    \/ from = "ENTERED" /\ to \in {"COMPLETED", "RELEASED"}
    \/ from = "COMPLETED" /\ to \in {"CANDIDATE", "RELEASED"}

Transition(machine, from, to) ==
    CASE machine = "cpu"          -> transition_cpu(from, to)
      [] machine = "stdout"       -> transition_stdout(from, to)
      [] machine = "uts"          -> transition_uts(from, to)
      [] machine = "uname_stdout" -> transition_uname_stdout(from, to)
      [] machine = "provenance"   -> transition_provenance(from, to)

(* One transition of a record after another; one that is not allowed is refused. *)
Advance(b, moves) ==
    FoldLeft(LAMBDA r, move :
                 IF Transition(move[1], r[move[1]], move[2]) THEN [r EXCEPT ![move[1]] = move[2]]
                 ELSE [r EXCEPT !.status = IF move[1] = "provenance" THEN "BAD_PROVENANCE" ELSE "BAD_STATE"],
             b, moves)

Refused(b, status) == [b EXCEPT !.status = status]

(***************************************************************************)
(* Arming and disarming.                                                   *)
(***************************************************************************)
CanArm(b, installed) == ~b.active /\ installed

linux_syscall_arm(profile) ==
    Advance([Unarmed EXCEPT !.active = TRUE, !.profile = profile],
            <<<<"cpu", "ARMED">>, <<"stdout", IF profile = "echo" THEN "ARMED" ELSE "RELEASED">>>>
                \o (IF profile = "uname" THEN <<<<"uname_stdout", "EMPTY">>>>
                    ELSE <<<<"uts", "RELEASED">>, <<"uname_stdout", "RELEASED">>>>))

linux_syscall_validate_armed(b) == b.active /\ b.cpu = "ARMED" /\ b.status = "OK"

(* Not from inside a call, nor on the tables of the process. *)
CanDisarm(b, kernel) == b.active /\ kernel /\ b.cpu \in {"ARMED", "RETURNED"}

cat_release_saved_read_Keeps(b) == b

cat_release_saved_read(b) == [b EXCEPT !.saved = FALSE]

(* Whether every record of the boundary can be taken to its end. *)
DisarmsWell(b) ==
    /\ b.stdout = "RELEASED" \/ transition_stdout(b.stdout, "RELEASED")
    /\ b.uts = "RELEASED" \/ transition_uts(b.uts, "RELEASED")
    /\ b.uname_stdout = "RELEASED" \/ transition_uname_stdout(b.uname_stdout, "RELEASED")
    /\ b.provenance = "RELEASED" \/ transition_provenance(b.provenance, "RELEASED")

(* What is left is as good as never armed, except for what the result says. *)
linux_syscall_disarm(b) == [Unarmed EXCEPT !.cpu = "DISARMED"]

linux_syscall_resources_released(b) == ~b.active /\ ~b.saved /\ b.output = NoLine /\ ~b.eof

(***************************************************************************)
(* Calls.                                                                  *)
(***************************************************************************)
validate_entry(b, active) ==
    IF ~b.active \/ b.provenance # "CANDIDATE" \/ b.cpu \notin {"ARMED", "RETURNED"} THEN "BAD_STATE"
    ELSE IF ~active THEN "BAD_CR3"
    ELSE "OK"

(* The pages a call of the first program adds and takes away; the two of the
   heap come and go together. *)
Maps(call) == CASE call = "brk" -> {"heap1", "heap2"} [] call = "mmap" -> {"anon"} [] OTHER -> {}

Unmaps(call) == CASE call = "mmap_none" -> {"heap1"} [] call = "munmap" -> {"anon"} [] OTHER -> {}

execute_echo_call(b, call) == IF call = "write" THEN Advance(b, <<<<"stdout", "WRITTEN">>>>) ELSE b

(* An address the record cannot be copied to is the program's to deal with. *)
execute_uname_call(b, call, how) ==
    CASE call = "uname"  ->
           Advance(b, <<<<"uts", "ACTIVE">>, <<"uts", IF how = "fault" THEN "FAILED" ELSE "COMPLETED">>>>)
      [] call = "writev" -> Advance(b, <<<<"uname_stdout", "RECEIVING">>, <<"uname_stdout", "VALID">>>>)
      [] OTHER           -> b

(* A read from elsewhere than the terminal fails at once. *)
execute_cat_call(b, call, how) ==
    CASE call = "set_fs"  -> [b EXCEPT !.phase = "INIT_TID"]
      [] call = "set_tid" -> [b EXCEPT !.phase = "READ"]
      [] call = "read" /\ how = "fault" -> b
      [] call = "read" /\ how # "fault" ->
           IF b.read # "IDLE" \/ b.saved THEN Refused(b, "BAD_STATE")
           ELSE [b EXCEPT !.saved = TRUE, !.read = "WAITING"]
      [] call = "write" ->
           IF b.read # "RESUMED" \/ b.output = NoLine THEN Refused(b, "STDOUT")
           ELSE cat_release_saved_read([b EXCEPT !.output = NoLine, !.read = "IDLE", !.phase = "READ"])
      [] call = "exit" ->
           IF b.read # "RESUMED" \/ ~b.eof THEN Refused(b, "EXIT")
           ELSE cat_release_saved_read([b EXCEPT !.eof = FALSE, !.read = "RELEASED", !.phase = "RELEASED"])

execute_call(b, call, how) ==
    CASE how = "refused" ->
           Refused(Advance(b, IF call = "writev" THEN <<<<"uname_stdout", "RECEIVING">>, <<"uname_stdout", "INVALID">>>>
                              ELSE <<>>),
                   "BAD_ARGUMENT")
      [] how = "table"   -> Refused(b, "MAPPING")
      [] how \notin {"refused", "table"} ->
           CASE b.profile = "echo"  -> execute_echo_call(b, call)
             [] b.profile = "uname" -> execute_uname_call(b, call, how)
             [] b.profile = "cat"   -> execute_cat_call(b, call, how)

InOrder(b, call) ==
    IF b.profile = "cat" THEN call = cat_expected_number(b.phase)
    ELSE b.calls < profile_expected_calls(b.profile) /\ call = profile_expected(b.profile)[b.calls + 1]

return_to_kernel(b, status) ==
    [b EXCEPT !.status = status, !.cpu = IF @ = "ENTERED" THEN "RETURNED" ELSE @]

Entering(b) == Advance(b, <<<<"cpu", "ENTERED">>, <<"provenance", "ENTERED">>>>)

(* The call is over and the program goes on. *)
Resuming(b) == Advance(b, <<<<"provenance", "COMPLETED">>, <<"cpu", "RETURNED">>, <<"provenance", "CANDIDATE">>>>)

(* A call that was executed: counted, and the way back. *)
Executed(done, fail) ==
    CASE done.status # "OK" -> return_to_kernel(done, done.status)
      [] done.status = "OK" /\ fail = "after" ->
           return_to_kernel(Advance([done EXCEPT !.calls = @ + 1], <<<<"provenance", "COMPLETED">>>>),
                            "CONTROLLED_FAILURE")
      [] done.status = "OK" /\ fail # "after" -> Resuming([done EXCEPT !.calls = @ + 1])

(* One call: fail is where it is told to fail, how what the environment adds. *)
linux_syscall_dispatch(b, call, active, fail, how) ==
    IF validate_entry(b, active) # "OK" THEN return_to_kernel(b, validate_entry(b, active))
    ELSE IF fail = "before" THEN return_to_kernel(Entering(b), "CONTROLLED_FAILURE")
    ELSE IF call \notin profile_allowed(b.profile) THEN Resuming(Entering(b))
    ELSE IF ~InOrder(b, call) THEN return_to_kernel(Entering(b), "BAD_ORDER")
    ELSE Executed(execute_call(Entering(b), call, how), fail)

(* Whether the program is left for the kernel when the call is over. *)
Leaves(b) ==
    \/ b.status # "OK"
    \/ b.profile = "cat" /\ (b.read = "WAITING" \/ b.phase = "RELEASED")
    \/ b.profile # "cat" /\ b.calls = profile_expected_calls(b.profile)

(***************************************************************************)
(* The read that waits for the terminal.                                   *)
(***************************************************************************)
linux_syscall_cat_waiting(b) ==
    b.active /\ b.profile = "cat" /\ b.phase = "READ" /\ b.read = "WAITING" /\ b.saved

cat_wait_invariants(b, kernel) ==
    linux_syscall_cat_waiting(b) /\ b.cpu = "RETURNED" /\ b.provenance = "CANDIDATE" /\ kernel

cat_delivery_valid(b, eof) == eof \/ b.lines < MaxLines

CanComplete(b, kernel, eof) == cat_wait_invariants(b, kernel) /\ cat_delivery_valid(b, eof)

linux_syscall_cat_complete_read(b, line, eof) ==
    IF eof THEN [b EXCEPT !.output = NoLine, !.eof = TRUE, !.phase = "EXIT", !.read = "READY"]
    ELSE [b EXCEPT !.output = line, !.lines = @ + 1, !.phase = "WRITE", !.read = "READY"]

cat_resume_invariants(b, kernel) ==
    /\ b.active /\ b.profile = "cat" /\ b.cpu = "RETURNED" /\ b.provenance = "CANDIDATE"
    /\ b.read = "READY" /\ b.saved /\ (b.eof \/ b.output # NoLine) /\ kernel

linux_syscall_cat_resume_frame(b) == [b EXCEPT !.read = "RESUMED", !.resumes = @ + 1]

===============================================================================
