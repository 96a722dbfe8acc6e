------------------------------- MODULE Processes -------------------------------
(***************************************************************************)
(* The proofs that build, run and reclaim user processes at boot, and the  *)
(* Linux programs started from the shell afterwards, on the address spaces *)
(* of ProcessSpaces and the system-call boundary of LinuxSyscall.          *)
(*                                                                         *)
(* A proof is a series of attempts: one for every point at which the code  *)
(* can be told to fail, and one that is let through.  An attempt is a      *)
(* sequence of steps; the first that fails sends it to its release, which  *)
(* takes all of its own steps whatever becomes of each.  What the attempts *)
(* do on purpose is free; beyond that, in each attempt at most MaxFaults   *)
(* faults of different kinds happen: a refusal on the way up, an           *)
(* unexpected trap or call, a step of a release that fails.  Faults of an  *)
(* attempt before are forgotten only if nothing is left of them.           *)
(***************************************************************************)
EXTENDS ProcessSpaces, ProcessSteps

CONSTANTS
    MaxFaults,
    MaxProcesses,    \* MULTIPROCESS_MAX_PROCESSES
    Rounds,          \* MULTIPROCESS_ROUNDS
    FaultIndex,      \* MULTIPROCESS_CONTAINMENT_FAULT_INDEX
    FaultRound,      \* MULTIPROCESS_CONTAINMENT_FAULT_ROUND
    MaxLines,        \* LINUX_CAT_INPUT_LINES
    Line             \* what may be typed

ASSUME ProcessesAssumption ==
    /\ MaxFaults \in Nat
    /\ MaxProcesses \in 1 .. SpaceSlots
    /\ FaultIndex \in 1 .. MaxProcesses /\ FaultRound \in 1 .. Rounds
    /\ MaxLines \in Nat

Single == INSTANCE ProcessProof
Multi == INSTANCE Multiprocess
Echo == INSTANCE LinuxEcho
Uname == INSTANCE LinuxUname
Cat == INSTANCE LinuxCat
Files == INSTANCE FileReads
Sys == INSTANCE LinuxSyscall

VARIABLES
    reader,     \* private_read_runtime, and whether a file stands for it
    boundary,   \* the record of the system-call boundary
    gate,       \* the interrupt gate of the proofs
    tables,     \* page tables are made to run out
    turns,      \* the turns of the processes of the multiprocess proof
    typed,      \* the lines the waiting program was given, in order
    shown,      \* the lines it wrote
    attempt,    \* what is being attempted
    before,     \* the census taken when it began
    faulted,    \* the kinds of fault that have happened
    stage       \* how far the boot has come

vars == <<paging, reader, boundary, gate, tables, turns, typed, shown, attempt, before, faulted, stage>>

(***************************************************************************)
(* What is attempted, stage by stage and then at run time.                 *)
(***************************************************************************)
FileJobs == <<Job(Files!filesystem_file_prove, Files!private_read_cleanup, NoPoint)>>

SingleJobs == Single!process_installed_prove

EchoJobs == Echo!linux_abi_installed_prove

UnameJobs == Uname!linux_uname_abi_installed_prove

CatJobs == Cat!linux_cat_abi_installed_prove

MultiJobs == Multi!multiprocess_prove

EchoRuns == Echo!linux_abi_launch

UnameRuns == Uname!linux_uname_abi_launch

CatRuns == Cat!linux_cat_abi_launch

Jobs(group) ==
    CASE group = "file" -> FileJobs       [] group = "process" -> SingleJobs
      [] group = "echo" -> EchoJobs       [] group = "uname" -> UnameJobs
      [] group = "cat" -> CatJobs         [] group = "multiprocess" -> MultiJobs
      [] group = "run_echo" -> EchoRuns   [] group = "run_uname" -> UnameRuns
      [] group = "run_cat" -> CatRuns

BootStages == <<"file", "process", "echo", "uname", "cat", "multiprocess">>

Running == Len(BootStages) + 1

Launches == {"run_echo", "run_uname", "run_cat"}

(* Jobs of run_cat that resume the waiting program. *)
GivenLine == 3

GivenEnd == 4

Candidate == [process |-> "CANDIDATE", executable |-> "CANDIDATE", stack |-> "CANDIDATE"]

Idle ==
    [group |-> "none", job |-> 1, point |-> NoPoint, doing |-> "idle", at |-> 1, failed |-> FALSE, status |-> "OK",
     counted |-> FALSE, observed |-> FALSE, life |-> Candidate]

NoReader == [owned |-> FALSE, fat32 |-> FALSE, state |-> "UNOPENED", token |-> FALSE]

Process == 1 .. MaxProcesses

FirstTurn ==
    [running |-> 0, last |-> 0, context |-> [p \in Process |-> 0], rounds |-> [p \in Process |-> 0],
     state |-> [p \in Process |-> "RUNNABLE"], schedule |-> <<>>]

NoTurns == <<>>

capture_census == <<Cardinality(frames), Cardinality(kernel_map.split), cr3>>

Init ==
    /\ SpacesInit
    /\ reader = NoReader /\ boundary = Sys!Unarmed /\ gate = "none" /\ tables = FALSE
    /\ turns = NoTurns /\ typed = <<>> /\ shown = <<>>
    /\ attempt = Idle /\ before = <<>> /\ faulted = {} /\ stage = 1

Work == Jobs(attempt.group)[attempt.job]

Up == Work.up

Down == Work.down

Current == Up[attempt.at]

GoingUp == attempt.doing = "up" /\ attempt.at <= Len(Up)

Program == attempt.group \in {"echo", "uname"} \cup Launches

(* linux_abi_resources_released and the same of the other proofs; each looks at
   what its own attempts can hold. *)
ResourcesReleased ==
    /\ paging_process_resources_released
    /\ ~reader.owned /\ gate = "none" /\ cr3 = Kernel
    /\ Sys!linux_syscall_resources_released(boundary)

MayFault(kind) == kind \notin faulted /\ Cardinality(faulted) < MaxFaults

(***************************************************************************)
(* The records of a process.                                               *)
(***************************************************************************)
Allowed(machine, from, to) ==
    CASE attempt.group = "process" -> Single!process_transition(from, to)
      [] attempt.group \in {"echo", "run_echo"} ->
           \/ machine = "process" /\ Echo!transition_process(from, to)
           \/ machine = "executable" /\ Echo!transition_executable(from, to)
           \/ machine = "stack" /\ Echo!transition_stack(from, to)
      [] attempt.group \in {"uname", "run_uname"} ->
           \/ machine = "process" /\ Uname!transition_process(from, to)
           \/ machine = "executable" /\ Uname!transition_executable(from, to)
           \/ machine = "stack" /\ Uname!transition_stack(from, to)
      [] attempt.group = "run_cat" ->
           \/ machine = "process" /\ Cat!transition_process(from, to)
           \/ machine = "executable" /\ Cat!transition_executable(from, to)
           \/ machine = "stack" /\ Cat!transition_stack(from, to)

MovesAllowed(s) == \A i \in DOMAIN s.to : Allowed(s.to[i][1], attempt.life[s.to[i][1]], s.to[i][2])

Moved(life, s) ==
    FoldLeft(LAMBDA l, move : [l EXCEPT ![move[1]] = move[2]], life, s.to)

(***************************************************************************)
(* Steps of an attempt.                                                    *)
(***************************************************************************)

(* The conditions under which the call of a step is not refused. *)
Permitted(s) ==
    CASE s.op \in {"session", "drive"} -> ~reader.owned
      [] s.op = "reader" -> Files!transition(reader.state, s.names[1])
      [] s.op = "block" -> Files!transition(reader.state, "BLOCK_CONTROLLER_OWNED")
      [] s.op = "allocate" -> CanAllocate(s.p, s.names[1])
      [] s.op = "build" -> CanBuild(s.p)
      [] s.op = "narrow" -> CanNarrow(s.p, s.names)
      [] s.op = "map" -> CanMapPages(s.p, {s.names[1]})
      [] s.op = "validate" -> CanValidate(s.p, Range(s.names))
      [] s.op = "activate" -> CanActivate(s.p)
      [] s.op = "arm_tables" -> ~tables /\ paging_process_resources_released /\ cr3 = Kernel
      [] s.op = "arm_gate" -> gate = "none"
      [] s.op = "arm_syscall" -> Sys!CanArm(boundary, spaces[s.p].state = "INSTALLED")
      [] s.op = "enter" -> CanRestoreKernel(s.p) /\ gate = "ARMED"
      [] s.op = "resume" -> Sys!cat_resume_invariants(boundary, cr3 = Kernel)
      [] OTHER -> TRUE

(* The reader after a step of the open. *)
ReaderAfter(s) ==
    CASE s.op = "session" -> [NoReader EXCEPT !.owned = TRUE]
      [] s.op = "reader" -> [reader EXCEPT !.state = s.names[1]]
      [] s.op = "block" -> [reader EXCEPT !.state = "BLOCK_CPU_OWNED"]
      [] s.op = "hand" -> [reader EXCEPT !.token = TRUE]
      [] s.op = "drive" -> [NoReader EXCEPT !.owned = TRUE, !.fat32 = TRUE, !.token = TRUE]
      [] OTHER -> reader

(* A step that is not refused; the call of the gate's handler is part of enter. *)
Does(s) ==
    /\ reader' = ReaderAfter(s)
    /\ boundary' = CASE s.op = "arm_syscall" -> Sys!linux_syscall_arm(s.names[1])
                     [] s.op = "resume" -> Sys!linux_syscall_cat_resume_frame(boundary)
                     [] OTHER -> boundary
    /\ gate' = CASE s.op = "arm_gate" -> "ARMED" [] s.op = "enter" -> "RETURNED" [] OTHER -> gate
    /\ tables' = (tables \/ s.op = "arm_tables")
    /\ \/ s.op = "allocate" /\ frame_allocate(s.p, s.names[1])
       \/ s.op = "build" /\ paging_process_space_build(s.p)
       \/ s.op = "narrow" /\ narrow_alias_pages(s.p, s.names)
       \/ s.op = "map" /\ paging_process_map_user_page(s.p, {s.names[1]})
       \/ s.op = "validate" /\ paging_process_validate(s.p, Range(s.names))
       \/ s.op = "activate" /\ paging_process_activate(s.p)
       \/ s.op = "enter" /\ paging_process_restore_kernel(s.p)
       \/ s.op \notin {"allocate", "build", "narrow", "map", "validate", "activate", "enter"}
            /\ UNCHANGED paging

(* What a step leaves behind that the environment refuses. *)
Leaves(s) ==
    /\ reader' = IF s.op = "block" THEN [reader EXCEPT !.state = "BLOCK_CONTROLLER_OWNED"] ELSE reader
    /\ \/ boundary' = boundary
       \/ s.op = "arm_syscall" /\ boundary' = Sys!linux_syscall_arm(s.names[1])
    /\ \/ s.op # "enter" /\ gate' = gate /\ UNCHANGED paging
       \/ s.op = "arm_gate" /\ gate' = "ARMED" /\ UNCHANGED paging
       \/ s.op = "enter" /\ gate' = "RETURNED" /\ paging_process_restore_kernel(s.p)
    /\ UNCHANGED tables

GoDown(a, status) == [a EXCEPT !.doing = "down", !.at = 1, !.status = status]

failure_status(s) ==
    CASE attempt.group = "process"      -> Single!failure_status(s)
      [] attempt.group = "multiprocess" -> Multi!failure_status(s)
      [] attempt.group = "echo"         -> Echo!failure_status(s)
      [] attempt.group = "uname"        -> Uname!failure_status(s)

(* The next step, unless the attempt is to fail here. *)
Proceed(a, s) ==
    IF attempt.point = <<attempt.at, "after">> THEN GoDown(a, failure_status(s))
                                            ELSE [a EXCEPT !.at = @ + 1]

Told == attempt.point[2] \notin {"none", "fault"}

OutOfTables(s) == attempt.point = <<attempt.at, "table">>

StepSucceeds ==
    /\ GoingUp
    /\ Current.op \notin {"call", "schedule"}
    /\ \E s \in {Current} :
         /\ Permitted(s) /\ MovesAllowed(s) /\ ~OutOfTables(s)
         /\ Does(s)
         /\ attempt' = Proceed([attempt EXCEPT !.life = Moved(@, s), !.counted = @ \/ s.op = "arm_gate"], s)
    /\ UNCHANGED <<turns, typed, shown, before, faulted, stage>>

(* In an attempt that is told to fail, what may besides be refused by the
   environment is the very step. *)
MayRefuse == MayFault("up") /\ (Told => attempt.at = attempt.point[1])

(* Refused by the environment, for want of a page table or by the call itself.  A
   file may be missing from the beginning, which is no fault. *)
StepFails ==
    /\ GoingUp
    /\ Current.op \notin {"call", "schedule"}
    /\ \E s \in {Current} : \E refused \in {~Permitted(s) \/ ~MovesAllowed(s)} :
           \E status \in s.on \cup (IF s.on = {} /\ refused THEN {"TRANSITION_INVALID"} ELSE {}) :
             LET missing == status = "ABSENT" /\ (attempt.job = 1 \/ stage = Running) IN
             /\ attempt' = GoDown([attempt EXCEPT !.observed = OutOfTables(s)], status)
             /\ IF refused \/ OutOfTables(s)
                  THEN UNCHANGED <<paging, reader, boundary, gate, tables, faulted>>
                  ELSE /\ Leaves(s)
                       /\ s.op # "reader"
                       /\ missing \/ MayRefuse
                       /\ faulted' = IF missing THEN faulted ELSE faulted \cup {"up"}
    /\ UNCHANGED <<turns, typed, shown, before, stage>>

(***************************************************************************)
(* System calls.                                                           *)
(***************************************************************************)

(* The call the program makes next, and what the kernel meets in it: a step out
   of line is the program's fault, and is looked at where nothing else is meant to
   go wrong. *)
CallChoices(name) ==
    {[call |-> name, how |-> IF attempt.point = <<attempt.at, "table">> THEN "table" ELSE "ok"]}
        \cup (IF attempt.point = NoPoint /\ MayFault("call")
                THEN {[call |-> name, how |-> "refused"], [call |-> "other", how |-> "ok"]}
                       \cup (IF name # "exit" THEN {[call |-> "exit", how |-> "early"]} ELSE {})
                       \cup (IF name \in {"uname", "read"} THEN {[call |-> name, how |-> "fault"]} ELSE {})
                ELSE {})

(* Pages a call maps and unmaps, and the return to the kernel's tables. *)
CallSpaces(call, executed, leaves) ==
    LET p == cr3 IN
    /\ spaces' = [spaces EXCEPT ![p].pages = IF executed THEN (@ \cup Sys!Maps(call)) \ Sys!Unmaps(call) ELSE @,
                                ![p].state = IF leaves THEN "INSTALLED" ELSE @]
    /\ cr3' = IF leaves THEN Kernel ELSE p
    /\ UNCHANGED <<narrowed, kernel_map, frames, shared>>

CallStatus(status) ==
    CASE status = "CONTROLLED_FAILURE" -> failure_status(Current)
      [] status = "MAPPING" -> "MAPPING"
      [] OTHER -> "EXIT"

(* Whether the pages of the call can be mapped and unmapped. *)
PagesCan(call) == CanMapPages(cr3, Sys!Maps(call)) /\ CanUnmapPages(cr3, Sys!Unmaps(call))

Dispatched(choice) ==
    Sys!linux_syscall_dispatch(boundary, choice.call, CanRestoreKernel(1),
                               IF attempt.point[1] = attempt.at THEN attempt.point[2] ELSE "",
                               IF PagesCan(choice.call) THEN choice.how ELSE "table")

linux_syscall_dispatch ==
    /\ GoingUp
    /\ Current.op = "call"
    /\ \E choice \in CallChoices(Current.names[1]) : \E b \in {Dispatched(choice)} :
         LET call == choice.call
             executed == b.calls > boundary.calls
             again == call = "other" \/ (call = "read" /\ choice.how = "fault")
             usual == choice.how \in {"ok", "table"} /\ call # "other"
             a == [attempt EXCEPT !.life.process = IF executed /\ call = "exit" THEN "EXITING" ELSE @]
         IN  /\ boundary' = b
             /\ CallSpaces(call, executed, Sys!Leaves(b))
             /\ shown' = IF executed /\ boundary.profile = "cat" /\ call = "write"
                           THEN Append(shown, boundary.output) ELSE shown
             /\ attempt' = IF b.status # "OK"
                             THEN GoDown([a EXCEPT !.observed = b.status = "MAPPING"], CallStatus(b.status))
                             ELSE [a EXCEPT !.at = IF again THEN @ ELSE @ + 1]
             /\ faulted' = IF usual THEN faulted ELSE faulted \cup {"call"}
    /\ UNCHANGED <<reader, gate, tables, turns, typed, before, stage>>

(***************************************************************************)
(* Turns.  Each process counts its rounds in a register the kernel saves   *)
(* and gives back, yields after each and leaves after the last; in one of  *)
(* the attempts a process touches its guard page instead.                  *)
(***************************************************************************)
Faults(p) == attempt.point = <<0, "fault">> /\ p = FaultIndex

Schedule_starts ==
    /\ GoingUp
    /\ Current.op = "schedule"
    /\ attempt' = [attempt EXCEPT !.doing = "schedule"]
    /\ turns' = FirstTurn
    /\ UNCHANGED <<paging, reader, boundary, gate, tables, typed, shown, before, faulted, stage>>

Runnable == {p \in Process : turns.state[p] = "RUNNABLE"}

(* The loop of run_schedule: on in the order of the table, and again from the start. *)
run_schedule ==
    LET later == {p \in Runnable : p > turns.last}
        least(S) == CHOOSE p \in S : \A q \in S : p <= q
    IN  least(IF later = {} THEN Runnable ELSE later)

context_authenticated(p) == turns.context[p] = turns.rounds[p]

give_processor ==
    /\ attempt.doing = "schedule" /\ turns.running = 0 /\ Runnable # {}
    /\ LET p == run_schedule
           status == IF ~context_authenticated(p) THEN "CONTEXT_AUTHENTICATION"
                     ELSE IF gate # "ARMED" THEN "GATE"
                     ELSE IF ~CanActivate(p) THEN "ENTRY" ELSE "OK"
       IN  IF status = "OK"
             THEN /\ paging_process_activate(p)
                  /\ turns' = [turns EXCEPT !.running = p, !.last = p]
                  /\ UNCHANGED attempt
             ELSE /\ UNCHANGED paging
                  /\ turns' = NoTurns
                  /\ attempt' = GoDown(attempt, status)
    /\ UNCHANGED <<reader, boundary, gate, tables, typed, shown, before, faulted, stage>>

(* What the register says when the program traps, and how the kernel reads it. *)
classify_trap(p, trap, count) ==
    CASE trap = "yield" -> IF count = turns.rounds[p] + 1 THEN "YIELD" ELSE "UNEXPECTED"
      [] trap = "exit"  -> IF count = Rounds THEN "EXIT" ELSE "UNEXPECTED"
      [] trap = "fault" -> "FAULT"
      [] trap = "other" -> "UNEXPECTED"

Traps(p) ==
    LET count == turns.context[p] + 1 IN
    {IF Faults(p) /\ count = FaultRound THEN [trap |-> "fault", count |-> count]
     ELSE IF count > Rounds THEN [trap |-> "exit", count |-> Rounds]
     ELSE [trap |-> "yield", count |-> count]}
        \cup (IF MayFault("trap") THEN {[trap |-> "other", count |-> count]} ELSE {})

(* The handler puts the kernel's tables back, whatever the trap was; the
   scheduler then opens the gate again. *)
multiprocess_trap_interrupt ==
    /\ attempt.doing = "schedule" /\ turns.running # 0
    /\ \E t \in Traps(turns.running) :
         LET p == turns.running
             kind == classify_trap(p, t.trap, t.count)
         IN  /\ faulted' = IF t.trap = "other" THEN faulted \cup {"trap"} ELSE faulted
             /\ IF kind = "UNEXPECTED"
                  THEN /\ gate' = "RETURNED"
                       /\ turns' = NoTurns
                       /\ attempt' = GoDown(attempt, "TRAP_AUTHENTICATION")
                  ELSE /\ gate' = "ARMED"
                       /\ turns' = [turns EXCEPT !.running = 0, !.context[p] = t.count,
                                                 !.rounds[p] = IF kind = "YIELD" THEN @ + 1 ELSE @,
                                                 !.state[p] = CASE kind = "EXIT" -> "FINISHED"
                                                                [] kind = "FAULT" -> "TERMINATED"
                                                                [] OTHER -> @,
                                                 !.schedule = Append(@, p)]
                       /\ UNCHANGED attempt
    /\ paging_process_restore_kernel(turns.running)
    /\ UNCHANGED <<reader, boundary, tables, typed, shown, before, stage>>

(* The order plain turns would have produced, from the rounds alone. *)
RoundRobin ==
    LET last(p) == IF Faults(p) THEN FaultRound ELSE Rounds + 1
    IN  FlattenSeq([t \in 1 .. Rounds + 1 |-> SelectSeq([p \in Process |-> p], LAMBDA p : last(p) >= t)])

schedule_is_round_robin == turns.schedule = RoundRobin

(* Everyone has left, as its program says. *)
Schedule_ends ==
    /\ attempt.doing = "schedule" /\ turns.running = 0 /\ Runnable = {}
    /\ LET as_told(p) == IF Faults(p) THEN turns.state[p] = "TERMINATED" /\ turns.rounds[p] + 1 = FaultRound
                                      ELSE turns.state[p] = "FINISHED" /\ turns.rounds[p] = Rounds
       IN  attempt' = IF schedule_is_round_robin /\ \A p \in Process : as_told(p)
                        THEN [attempt EXCEPT !.doing = "up", !.at = @ + 1]
                        ELSE GoDown(attempt, "SCHEDULE")
    /\ turns' = NoTurns
    /\ UNCHANGED <<paging, reader, boundary, gate, tables, typed, shown, before, faulted, stage>>

(***************************************************************************)
(* The end of an attempt: judged, suspended, or released.                  *)
(***************************************************************************)
Returned == boundary.status = "OK" /\ boundary.cpu = "RETURNED" /\ spaces[1].state = "INSTALLED" /\ cr3 = Kernel

(* The program waits for the terminal. *)
Waits ==
    /\ attempt.group = "run_cat" /\ attempt.job # GivenEnd
    /\ Returned /\ Sys!linux_syscall_cat_waiting(boundary) /\ attempt.life.process = "RUNNING"
    /\ attempt.job # GivenLine => boundary.calls = 3

(* Everything it should have done is done, and nothing more. *)
Finished ==
    /\ Returned /\ attempt.life.process = "EXITING"
    /\ CASE attempt.group \in {"echo", "run_echo"} ->
              boundary.calls = Sys!profile_expected_calls("echo") /\ boundary.stdout = "WRITTEN"
         [] attempt.group \in {"uname", "run_uname"} ->
              /\ boundary.calls = Sys!profile_expected_calls("uname")
              /\ boundary.uts = "COMPLETED" /\ boundary.uname_stdout = "VALID"
         [] attempt.group = "run_cat" ->
              boundary.calls = 4 + 2 * boundary.lines /\ boundary.resumes = boundary.lines + 1

UpDone ==
    /\ attempt.doing = "up" /\ attempt.at > Len(Up)
    /\ attempt' = IF ~Program THEN GoDown(attempt, "OK")
                  ELSE IF Waits THEN [attempt EXCEPT !.doing = "waiting", !.life.process = "WAITING_FOR_INPUT"]
                  ELSE GoDown(attempt, IF Finished THEN "OK" ELSE "EXIT")
    /\ UNCHANGED <<paging, reader, boundary, gate, tables, turns, typed, shown, before, faulted, stage>>

(* linux_cat_abi_deliver_input: a line, if there is room for one more, or the end. *)
linux_cat_abi_deliver_input(line, eof) ==
    /\ attempt.doing = "waiting"
    /\ Sys!CanComplete(boundary, cr3 = Kernel, eof)
    /\ boundary' = Sys!linux_syscall_cat_complete_read(boundary, line, eof)
    /\ typed' = IF eof THEN typed ELSE Append(typed, line)
    /\ attempt' = [attempt EXCEPT !.job = IF eof THEN GivenEnd ELSE GivenLine, !.doing = "up", !.at = 1]
    /\ UNCHANGED <<paging, reader, gate, tables, turns, shown, before, faulted, stage>>

(* Whatever else runs while the program waits may take a frame. *)
HeapGrows ==
    /\ attempt.doing = "waiting"
    /\ <<Kernel, "heap">> \notin frames
    /\ frames' = frames \cup {<<Kernel, "heap">>}
    /\ UNCHANGED <<spaces, narrowed, kernel_map, cr3, shared, reader, boundary, gate, tables, turns, typed,
                   shown, attempt, before, faulted, stage>>

(***************************************************************************)
(* Release.                                                                *)
(***************************************************************************)

(* Whether there is anything to undo. *)
Wanted(s) ==
    CASE s.op = "abandon" -> reader.owned /\ ~reader.token
      [] s.op = "close" -> reader.token
      [] s.op = "restore_kernel" -> spaces[s.p].state = "ACTIVE"
      [] s.op = "move" -> LET machine == s.to[1][1] state == s.to[1][2] IN
           /\ attempt.life[machine] \notin {state, "RELEASED"}
           /\ machine = "process" /\ state = "RELEASED" => attempt.life.process = "STOPPING"
      [] s.op = "disarm" ->
           \/ s.names[1] = "gate" /\ gate # "none"
           \/ s.names[1] = "counted_gate" /\ attempt.counted
           \/ s.names[1] = "syscall" /\ ~Sys!linux_syscall_resources_released(boundary)
      [] s.op = "unmap" -> s.names[1] \in spaces[s.p].pages
      [] s.op = "restore_aliases" -> AliasOwned(s.p)
      [] s.op = "release_space" -> spaces[s.p].state # "none"
      [] s.op = "disarm_tables" -> tables
      [] s.op = "free" -> <<s.p, s.names[1]>> \in frames

(* The next step with something to undo. *)
NextDown ==
    LET down == Down
        wanted == {i \in attempt.at .. Len(down) : Wanted(down[i])}
    IN  {i \in wanted : \A j \in wanted : i <= j}

TornDown == attempt.doing = "down" /\ NextDown = {}

DownPermitted(s) ==
    CASE s.op \in {"abandon", "close"} ->
           reader.fat32 \/ reader.state = "STOPPING" \/ Files!transition(reader.state, "STOPPING")
      [] s.op = "restore_kernel" -> CanRestoreKernel(s.p)
      [] s.op = "move" -> MovesAllowed(s)
      [] s.op = "disarm" ->
           s.names[1] = "syscall" => Sys!CanDisarm(boundary, cr3 = Kernel) /\ Sys!DisarmsWell(boundary)
      [] s.op = "unmap" -> CanUnmapPages(s.p, {s.names[1]})
      [] s.op = "restore_aliases" -> CanRestoreAliases(s.p)
      [] s.op = "release_space" -> CanReleaseSpace(s.p)
      [] s.op = "disarm_tables" -> paging_process_resources_released /\ cr3 = Kernel
      [] OTHER -> TRUE

Undoes(s) ==
    /\ reader' = IF s.op \in {"abandon", "close"} THEN NoReader ELSE reader
    /\ boundary' = IF s.op = "disarm" /\ s.names[1] = "syscall" THEN Sys!linux_syscall_disarm(boundary) ELSE boundary
    /\ gate' = IF s.op = "disarm" /\ s.names[1] # "syscall" THEN "none" ELSE gate
    /\ tables' = (tables /\ s.op # "disarm_tables")
    /\ \/ s.op = "restore_kernel" /\ paging_process_restore_kernel(s.p)
       \/ s.op = "unmap" /\ paging_process_unmap_user_page(s.p, {s.names[1]})
       \/ s.op = "restore_aliases" /\ restore_active_aliases(s.p)
       \/ s.op = "release_space" /\ paging_process_space_release(s.p)
       \/ s.op = "free" /\ frame_release(s.p, s.names[1])
       \/ s.op \notin {"restore_kernel", "unmap", "restore_aliases", "release_space", "free"} /\ UNCHANGED paging

(* What is left of a step that fails: a session that did not close is kept, a
   boundary is inactive all the same unless the call itself is refused, and a frame
   that could not be given back is nobody's. *)
Breaks(s) ==
    /\ reader' = IF s.op \in {"abandon", "close"} THEN [reader EXCEPT !.state = "STOPPING"] ELSE reader
    /\ boundary' = IF s.op = "disarm" /\ s.names[1] = "syscall" /\ Sys!CanDisarm(boundary, cr3 = Kernel)
                     THEN Sys!linux_syscall_disarm(boundary) ELSE boundary
    /\ frames' = IF s.op = "free" THEN (frames \ {<<s.p, s.names[1]>>}) \cup {<<Kernel, "lost">>} ELSE frames
    /\ UNCHANGED <<spaces, narrowed, kernel_map, cr3, shared, gate, tables>>

(* The mounted drive has nothing to close. *)
CanBreak(s) ==
    /\ s.op \notin {"move", "disarm_tables"}
    /\ s.op = "close" => ~reader.fat32

Undo ==
    /\ attempt.doing = "down"
    /\ \E i \in NextDown : \E s \in {Down[i]} :
         /\ DownPermitted(s)
         /\ Undoes(s)
         /\ attempt' = [attempt EXCEPT !.at = i + 1, !.life = Moved(@, s), !.counted = @ /\ s.op # "disarm"]
    /\ UNCHANGED <<turns, typed, shown, before, faulted, stage>>

UndoFails ==
    /\ attempt.doing = "down"
    /\ \E i \in NextDown : \E s \in {Down[i]} :
         /\ ~DownPermitted(s) \/ (CanBreak(s) /\ MayFault(s.op))
         /\ Breaks(s)
         /\ faulted' = IF DownPermitted(s) THEN faulted \cup {s.op} ELSE faulted
         /\ attempt' = [attempt EXCEPT !.at = i + 1, !.failed = TRUE, !.counted = @ /\ s.op # "disarm"]
    /\ UNCHANGED <<turns, typed, shown, before, stage>>

(***************************************************************************)
(* Verdicts.                                                               *)
(***************************************************************************)
census_equal == capture_census = before

(* Nothing is left of any process. *)
Clean ==
    /\ ResourcesReleased /\ ~tables
    /\ kernel_map = [narrow |-> {}, split |-> {}]
    /\ {frame \in frames : frame[1] # Kernel} = {}

Forget == faulted' = IF Clean /\ <<Kernel, "lost">> \notin frames THEN {} ELSE faulted

(* A delivery keeps the name of the failure; an attempt hides it behind what it
   left lying about. *)
Verdict ==
    IF attempt.failed THEN "TEARDOWN"
    ELSE IF attempt.group = "run_cat" /\ attempt.job \in {GivenLine, GivenEnd} /\ attempt.status # "OK"
      THEN attempt.status
    ELSE IF ~ResourcesReleased THEN "TEARDOWN"
    ELSE IF ~census_equal THEN "RESOURCE_CENSUS"
    ELSE IF attempt.point[2] = "table" /\ ~attempt.observed
      THEN (IF attempt.status = "OK" THEN "PREREQUISITE" ELSE "ROBUSTNESS")
    ELSE IF attempt.status = "OK" /\ attempt.point[2] \in {"before", "after"} THEN "ROBUSTNESS"
    ELSE attempt.status

(* What the proof takes for the expected end of this attempt. *)
Accepted(verdict) ==
    CASE attempt.point[2] \in {"before", "after"} -> verdict = failure_status(Up[attempt.point[1]])
      [] attempt.point = <<0, "table">> -> verdict = "PREREQUISITE"
      [] attempt.point[2] = "table" /\ attempt.point[1] > 0 ->
           attempt.observed /\ verdict \in {"ADDRESS_SPACE", "ALIAS", "MAPPING"}
      [] attempt.point[2] \in {"none", "fault"} -> verdict = "OK"

Begin(group, job) ==
    /\ attempt' = [Idle EXCEPT !.group = group, !.job = job, !.point = Jobs(group)[job].point, !.doing = "up"]
    /\ before' = capture_census

NextJob ==
    /\ TornDown /\ stage < Running
    /\ Accepted(Verdict) /\ attempt.job < Len(Jobs(attempt.group))
    /\ Begin(attempt.group, attempt.job + 1)
    /\ Forget
    /\ UNCHANGED <<paging, reader, boundary, gate, tables, turns, typed, shown, stage>>

(* The file may be missing, which is found out in the first attempt. *)
Absent(verdict) == verdict = "ABSENT" /\ attempt.job = 1

ProofEnds ==
    /\ TornDown /\ stage < Running
    /\ \E verdict \in {Verdict} :
         /\ ~Accepted(verdict) \/ attempt.job = Len(Jobs(attempt.group))
         /\ stage' = IF Accepted(verdict) \/ Absent(verdict) THEN stage + 1 ELSE Running + 1
    /\ attempt' = Idle /\ before' = <<>>
    /\ Forget
    /\ UNCHANGED <<paging, reader, boundary, gate, tables, turns, typed, shown>>

(* linux_userland_launch or the delivery returns; finish_failure finds nothing of
   the program left to abort. *)
LaunchEnds ==
    /\ TornDown /\ stage = Running
    /\ attempt' = Idle /\ before' = <<>> /\ typed' = <<>> /\ shown' = <<>>
    /\ Forget
    /\ UNCHANGED <<paging, reader, boundary, gate, tables, turns, stage>>

(***************************************************************************)
(* Starts.                                                                 *)
(***************************************************************************)
(* Where the frames of the processes will lie is the allocator's choice. *)
BootStage ==
    /\ attempt.doing = "idle" /\ stage < Running
    /\ ResourcesReleased
    /\ Begin(BootStages[stage], 1)
    /\ shared' \in IF BootStages[stage] = "multiprocess" THEN BOOLEAN ELSE {FALSE}
    /\ UNCHANGED <<spaces, narrowed, kernel_map, cr3, frames, reader, boundary, gate, tables, turns, typed,
                   shown, faulted, stage>>

(* One program at a time, and none while anything of another is left. *)
linux_userland_launch(group, mounted) ==
    /\ attempt.doing = "idle" /\ stage = Running
    /\ ResourcesReleased
    /\ Begin(group, IF mounted THEN 2 ELSE 1)
    /\ UNCHANGED <<paging, reader, boundary, gate, tables, turns, typed, shown, faulted, stage>>

Next ==
    \/ StepSucceeds \/ StepFails \/ linux_syscall_dispatch
    \/ Schedule_starts \/ give_processor \/ multiprocess_trap_interrupt \/ Schedule_ends
    \/ UpDone
    \/ \E line \in Line : linux_cat_abi_deliver_input(line, FALSE)
    \/ linux_cat_abi_deliver_input(Sys!NoLine, TRUE)
    \/ HeapGrows
    \/ Undo \/ UndoFails
    \/ NextJob \/ ProofEnds \/ LaunchEnds \/ BootStage
    \/ \E group \in Launches, mounted \in BOOLEAN : linux_userland_launch(group, mounted)

Spec == Init /\ [][Next]_vars

(***************************************************************************)
(* Properties.                                                             *)
(***************************************************************************)
TypeOK ==
    /\ DOMAIN spaces = Slot /\ cr3 \in Slot \cup {Kernel}
    /\ reader.state \in DOMAIN Files!Successor
    /\ gate \in {"none", "ARMED", "RETURNED"} /\ tables \in BOOLEAN
    /\ attempt.doing \in {"idle", "up", "schedule", "waiting", "down"}
    /\ boundary.cpu \in {"CANDIDATE", "ARMED", "ENTERED", "RETURNED", "DISARMED"}
    /\ Cardinality(faulted) <= MaxFaults
    /\ stage \in 1 .. Running + 1

(* The kernel's own map is read-only for exactly the frames some process may
   execute, and split exactly where one of them lies: in whichever order attempts
   fail and processes sharing a 2 MiB page are released, no restore gives back a
   split another narrowing stands on, and none leaves one behind. *)
KernelMapExact ==
    LET held == UNION {AliasFrames(narrowed[i]) : i \in DOMAIN narrowed}
    IN  /\ TypeOK
        /\ kernel_map.narrow = held
        /\ kernel_map.split = {Region(frame) : frame \in held}

(* A page a process can reach is backed by a frame that is in use, and a frame it
   can execute is read-only in the two maps the narrowing is for, the kernel's and
   the process's own (other processes keep a writable alias of it in theirs).  A
   release in which unmapping, or the return to the kernel's tables, has failed
   gives the frames up all the same; but nothing is built, run or resumed from then
   on, so no process ever runs on memory that was given up, and none runs without a
   way back armed. *)
UserMemoryHeld ==
    LET Lapsed(kinds) == faulted \cap kinds # {} /\ attempt.doing \in {"down", "idle"}
    IN  /\ \A s \in Slot :
             \A page \in spaces[s].pages :
               /\ <<s, page>> \in frames \/ Lapsed({"unmap", "restore_kernel"})
               /\ page \in Code => <<s, page>> \in kernel_map.narrow /\ page \in spaces[s].own
        /\ kernel_map.narrow \subseteq frames \/ Lapsed({"unmap", "restore_kernel", "restore_aliases"})
        /\ cr3 # Kernel =>
             /\ spaces[cr3].state = "ACTIVE"
             /\ gate = "ARMED" \/ boundary.active \/ "restore_kernel" \in faulted

(* Wherever an attempt is told to fail, and whichever call refuses it, its release
   takes its steps in an order every call accepts and leaves nothing behind; and
   with no fault the proof sees each attempt end as it means it to, or the file
   missing.  A proof or a launch that is content, or content with the failure it
   asked for, has left nothing behind even if something failed on the way. *)
EverythingGivenBack ==
    TornDown =>
        /\ faulted = {} => /\ Clean /\ ~attempt.failed
                           /\ stage < Running => Accepted(Verdict) \/ Absent(Verdict)
        /\ Accepted(Verdict) => Clean

(* The lines the waiting program writes are the ones it was given, each once and
   in order; it waits again only when it has written the last, and goes on waiting
   for as long as lines come; and when the input ends it has written all, and is
   reported to have ended well unless something else took a frame meanwhile. *)
LinesReturned ==
    /\ IsPrefix(shown, typed)
    /\ attempt.doing = "waiting" => shown = typed
    /\ TornDown /\ attempt.group = "run_cat" /\ faulted = {} =>
         /\ attempt.job # GivenLine
         /\ attempt.job = GivenEnd =>
              /\ shown = typed
              /\ Verdict = IF <<Kernel, "heap">> \in frames /\ ~census_equal THEN "RESOURCE_CENSUS" ELSE "OK"

===============================================================================
