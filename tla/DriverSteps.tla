------------------------------ MODULE DriverSteps ------------------------------
(***************************************************************************)
(* The calls a driver makes, as data: a driver is the sequence of steps of *)
(* its bring-up and of its teardown, and the functions it is written from  *)
(* are the subsequences.  Devices says what a step does.                   *)
(*                                                                         *)
(* op names the call, arg the BAR or the allocation, on the allocations it *)
(* concerns or the statuses a check fails with, back the allocations a     *)
(* command leaves to the processor.  A step marked refused is a negative   *)
(* control, which must be turned down; a step marked guarded is skipped    *)
(* unless bus mastering was withdrawn.                                     *)
(***************************************************************************)
EXTENDS Sequences, SequencesExt

Step(op, arg, on) ==
    [op |-> op, arg |-> arg, on |-> on, back |-> {}, refused |-> FALSE, guarded |-> FALSE]

Refuse(step) == [step EXCEPT !.refused = TRUE]

Guarded(steps) == [i \in DOMAIN steps |-> [steps[i] EXCEPT !.guarded = TRUE]]

Claim == Step("claim", "", {})

Map(bar) == Step("map", bar, {})

(* A capability window, in a BAR that may be mapped already. *)
Window(bar) == Step("window", bar, {})

Unmap(bar) == Step("unmap", bar, {})

Release == Step("release", "", {})

Allocate(b) == Step("allocate", b, {})

Mark(b) == Step("mark", b, {})

Give(b) == Step("give", b, {})

Take(b) == Step("take", b, {})

Free(b) == Step("free", b, {})

Bind == Step("bind", "", {})

BindMasked == Step("bind_masked", "", {})

(* msix_test_inject_failure_once, and the bind that must fail and undo itself. *)
InjectedBind == Step("inject", "", {})

(* No vector and no binding may be left on the whole machine. *)
NoneBound == Step("none_bound", "", {})

Mask == Step("mask", "", {})

Unmask == Step("unmask", "", {})

Unbind == Step("unbind", "", {})

Master(on) == Step("master", "", on)

Unmaster == Step("unmaster", "", {})

(* What the device answers is judged, and may be refused with one of these
   statuses: every early return between two calls that change the ledger. *)
Check(statuses) == Step("check", "", statuses)

(* The device is reset, which ends what it was doing, or does not answer. *)
Halt(statuses) == Step("halt", "", statuses)

(* From here on the driver's teardown quiesces the device. *)
Arm == Step("arm", "", {})

(* The device is told where these allocations are, and set going. *)
Start(on) == Step("start", "", on)

Stop == Step("stop", "", {})

(* A command with these data, through a queue the processor keeps afterwards
   (back) and queues that return to the device (on).  If it fails, the handler
   or the wait may have stopped with any of them in the hands of the processor. *)
Command(data, back, on) == [Step("command", data, on) EXCEPT !.back = back]

(* A slot of the device is enabled, which the teardown gives back. *)
EnableSlot == Step("enable_slot", "", {})

DisableSlot == Step("disable_slot", "", {})

Each(Make(_), names) == [i \in DOMAIN names |-> Make(names[i])]

(* Mark and hand over each allocation in turn. *)
Prepare(names) == FlattenSeq(Each(LAMBDA b : <<Mark(b), Give(b)>>, names))

===============================================================================
