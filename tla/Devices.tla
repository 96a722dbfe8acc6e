-------------------------------- MODULE Devices --------------------------------
(***************************************************************************)
(* Every driver of the kernel at work on the shared device ledger, in the  *)
(* order the boot calls them and then for as long as the machine runs.     *)
(*                                                                         *)
(* A driver's bring-up is a sequence of steps; the first that fails sends  *)
(* it to its teardown, which goes through all of its own steps whatever    *)
(* becomes of each.  The environment may refuse any step of a bring-up; in *)
(* teardowns at most MaxFaults steps fail.  One driver works at a time, as *)
(* in the code, while the network device, once up, keeps its resources.    *)
(***************************************************************************)
EXTENDS DeviceLedger, DriverSteps

Nvme == INSTANCE NvmeDriver
Xhci == INSTANCE XhciDriver
Virtio == INSTANCE VirtioDrivers
Matrix == INSTANCE DriverMatrix

CONSTANTS MaxFaults, NetDevice, RngDevice, XhciDevice, NvmeDevice, AudioDevice, CardDevice

ASSUME DevicesAssumption ==
    /\ Function = {NetDevice, RngDevice, XhciDevice, NvmeDevice, AudioDevice, CardDevice}
    /\ MaxFaults \in Nat

VARIABLES
    engine,    \* per function: the allocations the running device may reach
    attempt,   \* what the driver at work is doing
    before,    \* the holdings and the counts when it began
    faulted,   \* the kinds of teardown step that have failed so far
    locked,    \* filesystem_runtime.active
    net_up,    \* the network runtime is active
    stage      \* how far the boot has come

vars == <<ledger, engine, attempt, before, faulted, locked, net_up, stage>>

(***************************************************************************)
(* Jobs.  A group is what one stage of the boot, or one call at run time,  *)
(* does: a job on one function, or one for each driver of a table.         *)
(***************************************************************************)
Job(f, up, down) == [f |-> f, up |-> up, down |-> down]

NetJobs == <<Job(NetDevice, Virtio!virtio_net_initialize, Virtio!net_cleanup)>>

RngJobs == <<Job(RngDevice, Virtio!device_substrate_prove, Virtio!rng_cleanup)>>

XhciJobs == <<Job(XhciDevice, Xhci!xhci_descriptor_prove(FALSE), Xhci!teardown_controller)>>

ScratchpadJobs == <<Job(XhciDevice, Xhci!xhci_descriptor_prove(TRUE), Xhci!teardown_controller)>>

XhciSelfTestJobs ==
    [k \in 1 .. 8 |-> Job(XhciDevice, Xhci!exercise_cleanup_boundary(k), Xhci!reclaim_all \o Xhci!release_all)] \o <<>>

NvmeSelfTestJobs ==
    [k \in 1 .. 7 |-> Job(NvmeDevice, Nvme!exercise_cleanup_boundary(k), Nvme!exercise_cleanup)]
        \o <<Job(NvmeDevice, Nvme!exercise_owned_release_refusal, Nvme!exercise_cleanup)>>

ReadJobs == <<Job(NvmeDevice, Nvme!nvme_read_prove, Nvme!teardown_controller)>>

SessionJobs == <<Job(NvmeDevice, Nvme!nvme_filesystem_session_open, Nvme!teardown_controller)>>

VolumeJobs == <<Job(NvmeDevice, Nvme!volume_open_interrupts_disabled, Nvme!teardown_controller)>>

AudioJobs == <<Job(AudioDevice, Matrix!audio_prove, Matrix!release_controller)>>

MatrixJobs ==
    [i \in DOMAIN Matrix!driver_matrix |->
        Job(CardDevice, Matrix!bind_one(Matrix!driver_matrix[i]), Matrix!bind_release)] \o <<>>

NvidiaJobs ==
    [i \in DOMAIN Matrix!nvidia_drivers |->
        Job(CardDevice, Matrix!bind_one(Matrix!nvidia_drivers[i]), Matrix!bind_release)] \o <<>>

Jobs(group) ==
    CASE group = "net" -> NetJobs           [] group = "rng" -> RngJobs
      [] group = "xhci" -> XhciJobs         [] group = "scratchpads" -> ScratchpadJobs
      [] group = "xhci_test" -> XhciSelfTestJobs [] group = "nvme_test" -> NvmeSelfTestJobs
      [] group = "read" -> ReadJobs         [] group = "session" -> SessionJobs
      [] group = "volume" -> VolumeJobs     [] group = "audio" -> AudioJobs
      [] group = "matrix" -> MatrixJobs     [] group = "nvidia" -> NvidiaJobs

(* The groups a stage of the boot may run, by scenario and hardware. *)
BootStages ==
    <<{"net"}, {"rng"}, {"xhci_test"}, {"xhci", "scratchpads"}, {"nvme_test"}, {"read"}, {"session"},
      {"audio", "matrix", "nvidia"}>>

Running == Len(BootStages) + 1

(* What a driver holds in the ledger. *)
Holdings(f) == <<claims[f], buffers[f], bindings[f], {v \in Vector : handlers[v] = f}>>

Resources == [f \in Function |-> Holdings(f)]

Idle ==
    [group |-> "none", job |-> 1, doing |-> "idle", at |-> 1, armed |-> FALSE, slot |-> FALSE,
     withdrawn |-> TRUE, failed |-> FALSE, status |-> "OK", result |-> "OK"]

TypeOK ==
    /\ LedgerTypeOK
    /\ DOMAIN engine = Function
    /\ attempt.doing \in {"idle", "up", "down", "open"}
    /\ attempt.status \in {"OK", "ABSENT", "FAILED"}
    /\ Cardinality(faulted) <= MaxFaults
    /\ stage \in 1 .. Running + 1
    /\ locked \in BOOLEAN /\ net_up \in BOOLEAN

Init ==
    /\ LedgerInit
    /\ engine = [f \in Function |-> {}]
    /\ attempt = Idle
    /\ before = <<>>
    /\ faulted = {}
    /\ locked = FALSE /\ net_up = FALSE
    /\ stage = 1

(***************************************************************************)
(* Steps.                                                                  *)
(***************************************************************************)
Work == Jobs(attempt.group)[attempt.job]

Device == Work.f

Steps == IF attempt.doing = "down" THEN Work.down ELSE Work.up

Current == Steps[attempt.at]

(* What a command leaves the allocations it uses to. *)
CommandBuffers(s) == (IF s.arg = "" THEN {} ELSE {s.arg}) \cup s.back \cup s.on

CanCommand(f, s) ==
    /\ CommandBuffers(s) \subseteq DOMAIN buffers[f]
    /\ \A b \in CommandBuffers(s) \ s.back : dma_is_device_owned(f, b)
    /\ \A b \in s.back : Holds(f, b, {"ready", "device"})
    /\ bindings[f].active /\ ~bindings[f].masked /\ claims[f].bus

HandTo(f, processor) ==
    /\ buffers' = [buffers EXCEPT ![f] = [b \in DOMAIN @ |-> IF b \in processor THEN "ready" ELSE @[b]]]
    /\ UNCHANGED <<claims, allocated, handlers, bindings, layout, firmware>>

(* The conditions under which the call of a step is not refused. *)
Permitted(f, s) ==
    CASE s.op = "claim" -> CanClaim(f)
      [] s.op = "map" -> CanMap(f, s.arg)
      [] s.op = "window" -> s.arg \in Maps(f) \/ CanMap(f, s.arg)
      [] s.op = "unmap" -> CanUnmap(f, s.arg)
      [] s.op = "release" -> CanRelease(f)
      [] s.op = "allocate" -> CanAllocate(f, s.arg)
      [] s.op = "mark" -> CanMark(f, s.arg)
      [] s.op = "give" -> CanGive(f, s.arg)
      [] s.op = "take" -> CanTake(f, s.arg)
      [] s.op = "free" -> CanFree(f, s.arg)
      [] s.op \in {"bind", "bind_masked", "inject"} -> CanBind(f)
      [] s.op \in {"mask", "unmask"} -> CanSetMasked(f)
      [] s.op = "unbind" -> CanUnbind(f) /\ RollsBackWholly(f)
      [] s.op = "none_bound" -> allocated = {} /\ \A g \in Function : ~bindings[g].active
      [] s.op = "master" -> CanMaster(f, s.on)
      [] s.op = "unmaster" -> CanUnmaster(f)
      [] s.op = "command" -> CanCommand(f, s)
      [] OTHER -> TRUE

(* The ledger after a step that is not refused. *)
Calls(f, s) ==
    \/ s.op = "claim" /\ pci_claim_device(f)
    \/ s.op = "map" /\ pci_claim_map_bar(f, s.arg)
    \/ s.op = "window" /\ s.arg \in Maps(f) /\ UNCHANGED ledger
    \/ s.op = "window" /\ s.arg \notin Maps(f) /\ pci_claim_map_bar(f, s.arg)
    \/ s.op = "unmap" /\ pci_claim_unmap_last_bar(f, s.arg)
    \/ s.op = "release" /\ pci_release_device(f)
    \/ s.op = "allocate" /\ dma_allocate(f, s.arg)
    \/ s.op = "mark" /\ dma_mark_initialized(f, s.arg)
    \/ s.op = "give" /\ dma_transfer_to_device(f, s.arg)
    \/ s.op = "take" /\ dma_transfer_to_cpu(f, s.arg)
    \/ s.op = "free" /\ dma_release(f, s.arg)
    \/ s.op = "bind" /\ msix_bind(f, FALSE)
    \/ s.op = "bind_masked" /\ msix_bind(f, TRUE)
    \/ s.op \in {"mask", "unmask"} /\ msix_set_masked(f, s.op = "mask")
    \/ s.op = "unbind" /\ msix_unbind(f)
    \/ s.op = "master" /\ pci_claim_enable_bus_master(f, s.on)
    \/ s.op = "unmaster" /\ pci_claim_disable_bus_master(f)
    \/ s.op \in {"command", "disable_slot"} /\ HandTo(f, CommandBuffers(s) \ s.on)
    \/ s.op \in {"check", "find", "halt", "arm", "start", "stop", "inject", "none_bound", "enable_slot"} /\ UNCHANGED ledger

(* The device is set going, or stops. *)
Runs(f, s) ==
    engine' = CASE s.op = "start" -> [engine EXCEPT ![f] = s.on]
                [] s.op \in {"halt", "stop"} -> [engine EXCEPT ![f] = {}]
                [] OTHER -> engine

(* The flags a driver keeps of what its teardown has to undo. *)
Remember(a, s) ==
    CASE s.op = "arm" -> [a EXCEPT !.armed = TRUE]
      [] s.op = "stop" -> [a EXCEPT !.armed = FALSE]
      [] s.op = "enable_slot" -> [a EXCEPT !.slot = TRUE]
      [] s.op = "disable_slot" -> [a EXCEPT !.slot = FALSE]
      [] OTHER -> a

(* Statuses with which the environment can refuse a step of a bring-up. *)
Refusals(s) ==
    CASE s.op \in {"check", "halt"} -> s.on
      [] s.op \in {"claim", "map", "window", "allocate", "bind", "bind_masked", "inject", "unmask",
                   "master", "command", "none_bound", "mark", "give", "take"} -> {s.op}
      [] OTHER -> {}

(* Only the platform's own answers may be refused where the ledger has no objection. *)
MayRefuse(s) == s.op \notin {"none_bound", "mark", "give", "take", "inject"}

Proceed(a) == attempt' = [a EXCEPT !.at = @ + 1]

(* Nobody tells one failure from another, except that a device is absent. *)
Fail(status) ==
    attempt' = [attempt EXCEPT !.doing = "down", !.at = 1,
                               !.status = IF status = "ABSENT" THEN "ABSENT" ELSE "FAILED"]

(***************************************************************************)
(* Bring-up.                                                               *)
(***************************************************************************)
GoingUp == attempt.doing = "up" /\ attempt.at <= Len(Steps)

StepSucceeds ==
    /\ GoingUp
    /\ LET s == Current IN
         /\ ~s.refused /\ Permitted(Device, s)
         /\ Calls(Device, s)
         /\ Runs(Device, s)
         /\ Proceed(Remember(attempt, s))
    /\ UNCHANGED <<before, faulted, locked, net_up, stage>>

(* A negative control must be turned down; one that is carried out is a failure. *)
Control ==
    /\ GoingUp
    /\ Current.refused
    /\ IF Permitted(Device, Current) THEN Calls(Device, Current) /\ Fail("CONTROL")
                                     ELSE UNCHANGED ledger /\ Proceed(attempt)
    /\ UNCHANGED <<engine, before, faulted, locked, net_up, stage>>

StepFails ==
    /\ GoingUp
    /\ LET s == Current IN
         /\ ~s.refused
         /\ MayRefuse(s) \/ ~Permitted(Device, s)
         /\ \E status \in Refusals(s) : Fail(status)
         /\ \/ s.op # "command" /\ UNCHANGED ledger
            \/ s.op = "command" /\ \E taken \in SUBSET (CommandBuffers(s) \cap DOMAIN buffers[Device]) :
                 HandTo(Device, taken)
    /\ UNCHANGED <<engine, before, faulted, locked, net_up, stage>>

(* find_device returns NULL: the driver is passed over. *)
PassedOver ==
    /\ GoingUp
    /\ Current.op = "find"
    /\ attempt' = [attempt EXCEPT !.at = Len(Steps) + 1]
    /\ UNCHANGED <<ledger, engine, before, faulted, locked, net_up, stage>>

(* A bring-up that went through: the network device and the sessions stay, a
   proof tears down what it made. *)
UpDone ==
    /\ attempt.doing = "up" /\ attempt.at > Len(Steps)
    /\ CASE attempt.group = "net" -> attempt' = Idle
         [] attempt.group \in {"session", "volume"} -> attempt' = [attempt EXCEPT !.doing = "open"]
         [] OTHER -> attempt' = [attempt EXCEPT !.doing = "down", !.at = 1]
    /\ stage' = IF attempt.group = "net" /\ stage < Running THEN stage + 1 ELSE stage
    /\ net_up' = (net_up \/ attempt.group = "net")
    /\ before' = IF attempt'.doing = "idle" THEN <<>> ELSE before
    /\ UNCHANGED <<ledger, engine, faulted, locked>>

(***************************************************************************)
(* Teardown.                                                               *)
(***************************************************************************)
GoingDown == attempt.doing = "down" /\ attempt.at <= Len(Steps)

(* A step is taken only if there is something to undo. *)
Wanted(f, s) ==
    /\ s.guarded => attempt.withdrawn
    /\ CASE s.op = "stop" -> attempt.armed
         [] s.op \in {"mask", "unbind"} -> bindings[f].active
         [] s.op = "unmaster" -> claims[f].bus
         [] s.op = "take" -> dma_is_device_owned(f, s.arg)
         [] s.op = "free" -> s.arg \in DOMAIN buffers[f]
         [] s.op = "unmap" -> s.arg \in Maps(f)
         [] s.op = "release" -> claims[f].active
         [] s.op = "disable_slot" -> attempt.slot

(* On to the next step with something to undo. *)
Skip ==
    /\ GoingDown
    /\ ~Wanted(Device, Current)
    /\ attempt' = [attempt EXCEPT !.at = Min({i \in @ .. Len(Steps) : Wanted(Device, Steps[i])}
                                                \cup {Len(Steps) + 1})]
    /\ UNCHANGED <<ledger, engine, before, faulted, locked, net_up, stage>>

Undo ==
    /\ GoingDown
    /\ LET s == Current IN
         /\ Wanted(Device, s) /\ Permitted(Device, s)
         /\ Calls(Device, s)
         /\ Runs(Device, s)
         /\ Proceed(Remember(attempt, s))
    /\ UNCHANGED <<before, faulted, locked, net_up, stage>>

(* What a step that fails leaves behind, whether it was refused or broke. *)
Breaks(f, s) ==
    \/ s.op = "unbind" /\ msix_unbind_fails(f)
    \/ s.op = "release" /\ pci_release_fails(f)
    \/ s.op = "disable_slot" /\ \E taken \in SUBSET ({"command", "event"} \cap DOMAIN buffers[f]) : HandTo(f, taken)
    \/ s.op \in {"stop", "mask", "unmaster", "unmap"} /\ UNCHANGED ledger

AfterFailure(s) ==
    [attempt EXCEPT !.failed = TRUE, !.armed = IF s.op = "stop" THEN FALSE ELSE @,
                    !.withdrawn = IF s.op = "unmaster" THEN FALSE ELSE @]

UndoFails ==
    /\ GoingDown
    /\ LET s == Current IN
         /\ Wanted(Device, s)
         /\ Cardinality(faulted \cup {s.op}) <= MaxFaults
         /\ Breaks(Device, s)
         /\ faulted' = faulted \cup {s.op}
         /\ Proceed(AfterFailure(s))
    /\ UNCHANGED <<engine, before, locked, net_up, stage>>

(* A step the ledger refuses. *)
UndoRefused ==
    /\ GoingDown
    /\ LET s == Current IN
         /\ Wanted(Device, s) /\ ~Permitted(Device, s)
         /\ IF s.op = "unbind" THEN msix_unbind_fails(Device) ELSE UNCHANGED ledger
         /\ Proceed(AfterFailure(s))
    /\ UNCHANGED <<engine, before, faulted, locked, net_up, stage>>

(***************************************************************************)
(* Verdicts.  The drivers judge their teardown by counts: the same as      *)
(* before, or none at all.                                                 *)
(***************************************************************************)
Zero == [claims |-> 0, mappings |-> 0, masters |-> 0, cpu |-> 0, device |-> 0, vectors |-> 0, bindings |-> 0]

Released(group) ==
    CASE group = "rng" -> Census = Zero
      [] group = "audio" -> Census = before[2] /\ Census.cpu + Census.device = 0 /\ Census.masters = 0
      [] group = "nvidia" -> Census = before[2] /\ Census.claims = 0 /\ Census.mappings = 0 /\ Census.masters = 0
      [] group = "net" -> TRUE
      [] OTHER -> Census = before[2]

(* A failure the driver already has to report keeps its name in the proofs that
   look at the counts only after a success. *)
Verdict(group, result) ==
    IF result # "OK" /\ group \in {"rng", "audio", "matrix", "net"} THEN result
    ELSE IF Released(group) THEN result ELSE "TEARDOWN"

JobStatus == IF attempt.failed THEN "TEARDOWN" ELSE attempt.status

(* The failure a group reports is the first. *)
GroupResult == IF attempt.result # "OK" THEN attempt.result ELSE JobStatus

Result == Verdict(attempt.group, GroupResult)

(* The next driver of the table, whatever became of this one. *)
NextJob ==
    /\ attempt.doing = "down" /\ attempt.at > Len(Steps)
    /\ attempt.job < Len(Jobs(attempt.group))
    /\ attempt' = [Idle EXCEPT !.group = attempt.group, !.job = attempt.job + 1, !.doing = "up",
                               !.result = GroupResult]
    /\ UNCHANGED <<ledger, engine, before, faulted, locked, net_up, stage>>

GroupEnds ==
    /\ attempt.doing = "down" /\ attempt.at > Len(Steps)
    /\ attempt.job = Len(Jobs(attempt.group))

(* A boot stage goes on after a success or an absent device, and stops the boot
   otherwise; the network is never essential. *)
BootEnds ==
    /\ GroupEnds /\ stage < Running
    /\ stage' = IF attempt.group = "net" \/ Result \in {"OK", "ABSENT"} THEN stage + 1 ELSE Running + 1
    /\ locked' = (locked /\ attempt.group = "session" /\ (attempt.failed \/ Result = "TEARDOWN"))
    /\ attempt' = Idle /\ before' = <<>>
    /\ UNCHANGED <<ledger, engine, faulted, net_up>>

(* A volume that could not be opened clears its record even if the teardown
   failed; one that could not be closed stays in use. *)
VolumeEnds ==
    /\ GroupEnds /\ stage = Running /\ attempt.group = "volume"
    /\ locked' = (attempt.result = "OPENED" /\ (attempt.failed \/ ~Released("volume")))
    /\ attempt' = Idle /\ before' = <<>>
    /\ UNCHANGED <<ledger, engine, faulted, net_up, stage>>

(* virtio_net_reset: a shutdown, and after a clean one the bring-up again.  A
   bring-up that failed leaves the device down. *)
NetEnds ==
    /\ GroupEnds /\ stage = Running /\ attempt.group = "net"
    /\ attempt' = IF attempt.result = "RESET" /\ ~attempt.failed
                    THEN [Idle EXCEPT !.group = "net", !.doing = "up"]
                    ELSE Idle
    /\ before' = IF attempt'.doing = "up" THEN before ELSE <<>>
    /\ UNCHANGED <<ledger, engine, faulted, locked, net_up, stage>>

(***************************************************************************)
(* Starts.                                                                 *)
(***************************************************************************)
Begin(group) ==
    /\ attempt' = [Idle EXCEPT !.group = group, !.doing = "up"]
    /\ before' = <<Resources, Census>>

BootStage(group) ==
    /\ attempt.doing = "idle" /\ stage < Running
    /\ group \in BootStages[stage]
    /\ Begin(group)
    /\ locked' = (group = "session")
    /\ UNCHANGED <<ledger, engine, faulted, net_up, stage>>

(* A scenario for which the stage has nothing to do. *)
StageSkipped ==
    /\ attempt.doing = "idle" /\ stage < Running
    /\ BootStages[stage] \cap {"read", "session", "audio"} # {}
    /\ stage' = stage + 1
    /\ UNCHANGED <<ledger, engine, attempt, before, faulted, locked, net_up>>

nvme_volume_open ==
    /\ attempt.doing = "idle" /\ stage = Running
    /\ ~locked
    /\ Begin("volume")
    /\ locked' = TRUE
    /\ UNCHANGED <<ledger, engine, faulted, net_up, stage>>

(* nvme_volume_close and nvme_filesystem_session_close. *)
Close ==
    /\ attempt.doing = "open"
    /\ attempt' = [attempt EXCEPT !.doing = "down", !.at = 1,
                                  !.result = IF attempt.group = "volume" THEN "OPENED" ELSE "OK"]
    /\ UNCHANGED <<ledger, engine, before, faulted, locked, net_up, stage>>

virtio_net_reset ==
    /\ attempt.doing = "idle" /\ stage = Running
    /\ net_up
    /\ net_up' = FALSE
    /\ attempt' = [Idle EXCEPT !.group = "net", !.doing = "down", !.armed = TRUE, !.result = "RESET"]
    /\ before' = <<Resources, Census>>
    /\ UNCHANGED <<ledger, engine, faulted, locked, stage>>

Next ==
    \/ StepSucceeds \/ Control \/ StepFails \/ PassedOver \/ UpDone
    \/ Skip \/ Undo \/ UndoFails \/ UndoRefused
    \/ NextJob \/ BootEnds \/ VolumeEnds \/ NetEnds
    \/ \E group \in UNION Range(BootStages) : BootStage(group)
    \/ StageSkipped \/ nvme_volume_open \/ Close \/ virtio_net_reset

Spec == Init /\ [][Next]_vars

(***************************************************************************)
(* Properties.                                                             *)
(***************************************************************************)

(* The memory a running device was told of and could write, gone from under it. *)
Stray(f) == Masters(f) /\ ~(engine[f] \subseteq DOMAIN buffers[f])

(* "DMA teardown disables bus mastering before memory is reclaimed" (CONTRIBUTING.md).
   A device that may write memory runs only in memory still allocated to it,
   whatever fails in whichever order: nvme.c and xhci.c give up no allocation
   unless bus mastering was withdrawn, and a controller that could not be stopped
   is reset before a later claim makes it a master again.  Two things break the
   promise, both only after a device could not be stopped: virtio_net.c,
   virtio_rng_proof.c and audio.c free their memory even if the withdrawal failed,
   and a release gives back the bus mastering of the firmware. *)
NoStrayDma ==
    \A f \in Function :
        Stray(f) =>
            /\ "stop" \in faulted
            /\ \/ f \notin {NvmeDevice, XhciDevice} /\ "unmaster" \in faulted
               \/ f \in firmware /\ ~claims[f].active

TornDown == attempt.doing = "down" /\ attempt.at > Len(Steps)

(* Whichever step of a bring-up fails, the teardown takes its own steps in an
   order the ledger accepts and gives back everything: the driver holds nothing,
   and the holdings of every other device are untouched.  And a driver that
   reports success or absence has given back everything even if something failed
   on the way, although it compares nothing but counts. *)
NothingLeaks ==
    TornDown =>
        LET clean == /\ Holdings(Device) = <<Unclaimed, [b \in {} |-> "raw"], Unbound, {}>>
                     /\ \A f \in Function \ {Device} : Holdings(f) = before[1][f]
        IN  /\ faulted = {} => clean /\ ~attempt.failed
            /\ GroupEnds /\ Result \in {"OK", "ABSENT"} /\ attempt.group # "net" => clean

(* A binding stands on an active claim in which its table and its pending bits
   are mapped, and its handler is installed: every teardown undoes the binding
   before it gives up what the binding stands on, in each layout of the table, also
   after a step of it has failed (msix_unbind has to reach the table to mask it). *)
BindingsStand ==
    /\ TypeOK
    /\ \A f \in Function :
         bindings[f].active =>
             claims[f].active /\ Range(layout[f]) \subseteq Maps(f) /\ handlers[bindings[f].vector] = f

===============================================================================
