----------------------------- MODULE ProcessSteps -----------------------------
(***************************************************************************)
(* The calls by which the kernel builds, runs and reclaims a user process, *)
(* as data: a proof is the sequence of steps of its attempt and of its     *)
(* release, and the functions it is written from are the subsequences.     *)
(* Processes says what a step does.                                        *)
(*                                                                         *)
(* p is the process the step is about, names the frames, pages or system   *)
(* calls it concerns, on the statuses it fails with.  point says where the *)
(* code can be told to fail on purpose: before the step has done anything, *)
(* or after it has done everything.  to are the transitions of the records *)
(* of the process, its executable and its stack that go with the step.     *)
(***************************************************************************)
EXTENDS Sequences, SequencesExt

Step(op, p, names, on) ==
    [op |-> op, p |-> p, names |-> names, on |-> on, point |-> {}, to |-> <<>>]

(* The step moves these records on. *)
Then(step, machine, state) == [step EXCEPT !.to = Append(@, <<machine, state>>)]

(* A transition of a record alone. *)
Move(machine, state) == Then(Step("move", 0, <<>>, {}), machine, state)

(* A failure point follows the step. *)
Point(step) == [step EXCEPT !.point = {"after"}]

(* A failure point on either side of it. *)
Points(step) == [step EXCEPT !.point = {"before", "after"}]

(* The pages of a stack; the code has four. *)
StackPages == <<"stack1", "stack2">>

Each(Make(_), names) == [i \in DOMAIN names |-> Make(names[i])]

(* What is judged between two calls that change something, and the statuses
   with which it can be refused. *)
Check(on) == Step("check", 0, <<>>, on)

(***************************************************************************)
(* The private read of the program file.                                   *)
(***************************************************************************)
OpenSession == Step("session", 0, <<>>, {"ABSENT", "FILESYSTEM"})

ReaderTo(state) == Step("reader", 0, <<state>>, {"FILESYSTEM"})

Block == Step("block", 0, <<>>, {"FILESYSTEM"})

HandOver == Step("hand", 0, <<>>, {})

ReadFromDrive == Step("drive", 0, <<>>, {"ABSENT", "FILESYSTEM"})

Abandon == Step("abandon", 0, <<>>, {})

CloseFile == Step("close", 0, <<>>, {})

(***************************************************************************)
(* Frames, spaces and pages.                                               *)
(***************************************************************************)
Allocate(p, name) == Step("allocate", p, <<name>>, {"FRAME_ALLOCATION"})

Build(p) == Step("build", p, <<>>, {"ADDRESS_SPACE"})

Narrow(p, names) == Step("narrow", p, names, {"ALIAS"})

MapPage(p, name) == Step("map", p, <<name>>, {"MAPPING"})

Validate(p, names, on) == Step("validate", p, names, on)

Activate(p) == Step("activate", p, <<>>, {"ENTRY"})

RestoreKernel(p) == Step("restore_kernel", p, <<>>, {})

UnmapPage(p, name) == Step("unmap", p, <<name>>, {})

RestoreAliases(p) == Step("restore_aliases", p, <<>>, {})

ReleaseSpace(p) == Step("release_space", p, <<>>, {})

Free(p, name) == Step("free", p, <<name>>, {})

ArmTables == Step("arm_tables", 0, <<>>, {"ROBUSTNESS"})

DisarmTables == Step("disarm_tables", 0, <<>>, {})

(***************************************************************************)
(* The ways into the kernel and into user mode.                            *)
(***************************************************************************)
ArmGate == Step("arm_gate", 0, <<>>, {"GATE"})

ArmSyscall(p, profile) == Step("arm_syscall", p, <<profile>>, {"SYSCALL_CPU"})

Disarm(way) == Step("disarm", 0, <<way>>, {})

(* The program runs until its one interrupt. *)
Enter(p) == Step("enter", p, <<>>, {"RETURN_AUTHENTICATION"})

(* The program runs until its next system call. *)
Call(p, name) == Step("call", p, <<name>>, {"SYSCALL_CONTROL"})

(* All programs run in turn. *)
Schedule == Step("schedule", 0, <<>>, {})

(* A suspended program goes on from its saved read. *)
ResumeFrame == Step("resume", 1, <<>>, {"ENTRY"})

(***************************************************************************)
(* Jobs: an attempt, its release, and where it is told to fail.            *)
(***************************************************************************)
NoPoint == <<0, "none">>

Job(up, down, point) == [up |-> up, down |-> down, point |-> point]

(* The status an attempt reports that failed on purpose after a step. *)
PointStatus(step) ==
    IF "ELF_PARSER" \in step.on THEN "ELF_PARSER" ELSE CHOOSE status \in step.on \ {"ABSENT"} : TRUE

PointsOf(up) ==
    FlattenSeq([i \in DOMAIN up |->
        (IF "before" \in up[i].point THEN <<<<i, "before">>>> ELSE <<>>)
            \o (IF "after" \in up[i].point THEN <<<<i, "after">>>> ELSE <<>>)])

(* The check of the file that was read. *)
IsFileCheck(step) == step.op = "check" /\ step.on = {"FILESYSTEM"}

(* The point after the file is read comes first: there alone it may be absent. *)
FileFirst(up) ==
    PointsOf([i \in DOMAIN up |-> IF IsFileCheck(up[i]) THEN up[i] ELSE [up[i] EXCEPT !.point = {}]])
        \o PointsOf([i \in DOMAIN up |-> IF IsFileCheck(up[i]) THEN [up[i] EXCEPT !.point = {}] ELSE up[i]])

NeedsTable(step) ==
    \/ step.op \in {"build", "narrow", "map"}
    \/ step.op = "call" /\ step.names[1] \in {"brk", "mmap"}

(* The steps that may need a page table, each of which is told to find none. *)
TablePoints(up) ==
    FlattenSeq([i \in DOMAIN up |-> IF NeedsTable(up[i]) THEN <<<<i, "table">>>> ELSE <<>>])

===============================================================================
