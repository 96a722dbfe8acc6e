------------------------------ MODULE BootLedger ------------------------------
(***************************************************************************)
(* The boot ledger (src/kernel/boot_ledger.c) and the part of kernel_main  *)
(* that drives it: descriptors are added, validated and put into one       *)
(* canonical order; the stages run in that order and leave receipts; the   *)
(* receipts and the machine are compared with the plan; only then is the   *)
(* ledger published.  Any refusal stops the machine.                       *)
(*                                                                         *)
(* A plan is a sequence of descriptors in the order they were added.  The  *)
(* function pointer of a descriptor is a record: the steps it takes, each  *)
(* with the facts it needs and the facts it leaves behind, and the results *)
(* it may hand back (module BootProofs defines the steps, BootPlan the     *)
(* installed plan).                                                        *)
(***************************************************************************)
EXTENDS Naturals, Sequences, FiniteSets, SequencesExt

CONSTANTS
    Plans,          \* set of [stages, tamper, machines, expect, never]
    StageNumber,    \* enum boot_stage_id: stage |-> its number
    KnownCapabilities,  \* enum boot_capability
    PhaseCount,     \* BOOT_PHASE_COUNT
    StageCapacity,  \* BOOT_LEDGER_STAGE_CAPACITY
    CapabilityCapacity, \* BOOT_STAGE_CAPABILITY_CAPACITY
    Irreversible,   \* class |-> the capabilities it needs
    Reset,          \* what holds before kernel_main
    MaxFailures     \* bound: stages that fail in one boot

VARIABLES
    trial,     \* what the boot is for: the machines, and a self test's expectations
    descriptors,  \* ledger->descriptors, as added
    machine,   \* the devices present and the scenario asked for
    facts,     \* what the executors have set up so far
    blocked,   \* stages that found a fact they need missing
    asked,     \* stages whose executor was called
    phase,     \* where kernel_main is
    order,     \* ledger->canonical_order
    receipts,  \* ledger->receipts
    degraded,  \* ledger->degraded
    status     \* the last ledger status

vars == <<trial, descriptors, machine, facts, blocked, asked, phase, order, receipts, degraded, status>>

Indices == DOMAIN descriptors

Members(s) == {s[k] : k \in DOMAIN s}

(* The plans are sequences of descriptors, whose lists are sequences. *)
IsPlan(stages) ==
    /\ stages \in Seq(Members(stages))
    /\ \A i \in DOMAIN stages :
        /\ stages[i].phase \in Nat
        /\ \A s \in {stages[i].required, stages[i].provided, stages[i].skipped} :
                s \in Seq(Members(s))

ASSUME PlansAssumption == \A p \in Plans : IsPlan(p.stages)

(* The capabilities a descriptor lists, in the order validation meets them. *)
Listed(d) == d.provided \o d.skipped

Requires(i) == Members(descriptors[i].required)

(* What descriptor i may establish, by running or by being skipped: what the
   providers table of boot_ledger_validate records for it. *)
Provides(i) == Members(descriptors[i].provided \o descriptors[i].skipped)

Offered(I) == UNION {Provides(i) : i \in I}

First(S) == CHOOSE k \in S : \A l \in S : k <= l

(***************************************************************************)
(* Validation.                                                             *)
(***************************************************************************)
(* A required capability that is unknown, or required twice. *)
RequirementRefusal(r) ==
    LET bad == {k \in DOMAIN r : \/ r[k] \notin KnownCapabilities
                                 \/ \E l \in 1 .. k - 1 : r[l] = r[k]}
    IN  IF bad = {} THEN "OK"
        ELSE IF r[First(bad)] \notin KnownCapabilities THEN "UNKNOWN_CAPABILITY"
        ELSE "DUPLICATE_CAPABILITY_REQUIREMENT"

(* Listed capability k of descriptor i already has a provider.  The one
   repetition allowed is a capability common to running and being skipped. *)
Repeated(i, k) ==
    LET d == descriptors[i]
        c == Listed(d)[k]
        common == /\ k > Len(d.provided)
                  /\ c \in Members(d.provided)
                  /\ \A l \in 1 .. k - Len(d.provided) - 1 : d.skipped[l] # c
    IN  \/ \E j \in 1 .. i - 1 : c \in Members(Listed(descriptors[j]))
        \/ (\E l \in 1 .. k - 1 : Listed(d)[l] = c) /\ ~common

ProviderRefusal(i) ==
    LET listed == Listed(descriptors[i])
        bad == {k \in DOMAIN listed : listed[k] \notin KnownCapabilities \/ Repeated(i, k)}
    IN  IF bad = {} THEN "OK"
        ELSE IF listed[First(bad)] \notin KnownCapabilities THEN "UNKNOWN_CAPABILITY"
        ELSE "DUPLICATE_CAPABILITY_PROVIDER"

(* The first check descriptor i fails, in the order the code makes them. *)
Refusal(i) ==
    LET d == descriptors[i]
    IN  CASE d.stage \notin DOMAIN StageNumber -> "UNKNOWN_STAGE_IDENTIFIER"
          [] d.phase >= PhaseCount \/ d.irreversible \notin DOMAIN Irreversible ->
               "INVALID_PHASE_TRANSITION"
          [] \E s \in {d.required, d.provided, d.skipped} : Len(s) > CapabilityCapacity ->
               "TOO_MANY_STAGE_CAPABILITIES"
          [] d.neutral /\ (d.mandatory \/ d.skipped = <<>>) -> "INVALID_NEUTRAL_SKIP"
          [] \E j \in 1 .. i - 1 : descriptors[j].stage = d.stage -> "DUPLICATE_STAGE"
          [] RequirementRefusal(d.required) # "OK" -> RequirementRefusal(d.required)
          [] OTHER -> ProviderRefusal(i)

(* An irreversible transition needs its capabilities declared, and provided
   no later than its own phase. *)
TooEarly(i) ==
    \E c \in Irreversible[descriptors[i].irreversible] :
        \/ c \notin Requires(i)
        \/ c \notin Offered({j \in Indices : descriptors[j].phase <= descriptors[i].phase})

(* The first descriptor with a problem decides the refusal of the plan. *)
PlanRefusal ==
    LET refused == {i \in Indices : Refusal(i) # "OK"}
    IN  IF descriptors = <<>> THEN "EMPTY_PLAN"
        ELSE IF Len(descriptors) > StageCapacity THEN "TOO_MANY_STAGES"
        ELSE IF refused # {} THEN Refusal(First(refused))
        ELSE IF \E i \in Indices : ~(Requires(i) \subseteq Offered(Indices))
             THEN "MISSING_CAPABILITY_PROVIDER"
        ELSE IF \E i \in Indices : TooEarly(i)
             THEN "IRREVERSIBLE_STAGE_ORDERED_TOO_EARLY"
        ELSE "OK"

Ready_AnyRequirement(o) ==
    {i \in Indices \ Members(o) :
        \/ Requires(i) = {}
        \/ Requires(i) \cap Offered(Members(o)) # {}}

(* Not yet placed, and every provider of what it requires is. *)
Ready(o) ==
    LET offered == Offered(Members(o))
    IN  {i \in Indices \ Members(o) : Requires(i) \subseteq offered}

Before_LargestFirst(d, e) ==
    \/ d.phase < e.phase
    \/ d.phase = e.phase /\ StageNumber[d.stage] > StageNumber[e.stage]

(* The tie break among stages that are ready: phase, then number. *)
Before(d, e) ==
    \/ d.phase < e.phase
    \/ d.phase = e.phase /\ StageNumber[d.stage] < StageNumber[e.stage]

Selected(o) ==
    LET ready == Ready(o)
    IN  {i \in ready : \A j \in ready : ~Before(descriptors[j], descriptors[i])}

PhaseBackwards ==
    \E i, j \in Indices :
        Requires(i) \cap Provides(j) # {} /\ descriptors[j].phase > descriptors[i].phase

NoMachine == [present |-> {}, scenario |-> "NONE"]

Init ==
    /\ \E p \in Plans :
        /\ descriptors = p.stages
        /\ trial = [tamper |-> p.tamper, machines |-> p.machines, expect |-> p.expect,
                    never |-> p.never]
    /\ machine = NoMachine
    /\ facts = Reset
    /\ blocked = {}
    /\ asked = {}
    /\ phase = "build"
    /\ order = <<>>
    /\ receipts = <<>>
    /\ degraded = FALSE
    /\ status = "NOT_VALIDATED"

(* report_ledger_refusal and console_panic. *)
Panic(s) == phase' = "panic" /\ status' = s

(* boot_ledger_add_stage for every descriptor, then the checks of
   boot_ledger_validate that need no order. *)
boot_ledger_validate ==
    /\ phase = "build"
    /\ IF PlanRefusal = "OK"
       THEN phase' = "plan" /\ UNCHANGED status
       ELSE Panic(PlanRefusal)
    /\ UNCHANGED <<trial, descriptors, machine, facts, blocked, asked, order, receipts, degraded>>

Select ==
    /\ phase = "plan"
    /\ Len(order) < Len(descriptors)
    /\ \E i \in Selected(order) : order' = Append(order, i)
    /\ UNCHANGED <<trial, descriptors, machine, facts, blocked, asked, phase, receipts, degraded, status>>

Cycle ==
    /\ phase = "plan"
    /\ Len(order) < Len(descriptors)
    /\ Selected(order) = {}
    /\ Panic("CAPABILITY_DEPENDENCY_CYCLE")
    /\ UNCHANGED <<trial, descriptors, machine, facts, blocked, asked, order, receipts, degraded>>

(* The order is complete and the fingerprint taken.  A self test may now
   change an identifier, which boot_ledger_execute finds out at once. *)
Planned ==
    /\ phase = "plan"
    /\ Len(order) = Len(descriptors)
    /\ IF PhaseBackwards THEN Panic("INVALID_PHASE_TRANSITION") /\ UNCHANGED machine
       ELSE IF trial.tamper = "identifier"
            THEN Panic("PLAN_FINGERPRINT_MISMATCH") /\ UNCHANGED machine
       ELSE /\ phase' = "execute"
            /\ machine' \in trial.machines
            /\ UNCHANGED status
    /\ UNCHANGED <<trial, descriptors, facts, blocked, asked, order, receipts, degraded>>

(***************************************************************************)
(* Execution.                                                              *)
(***************************************************************************)
(* boot_ledger_has_capability: every capability some receipt lists. *)
Established(r) == UNION {r[k].provided : k \in DOMAIN r}

Failures(r) == Cardinality({k \in DOMAIN r : r[k].result = "failed"})

(* One guarded step of an executor: a step whose guard does not hold is
   refused by the subsystem, and the executor goes no further.  A step for a
   device the machine lacks does nothing. *)
Taken(w, s) ==
    IF w.stopped \/ ~(s.uses \subseteq w.facts) \/ s.forbids \cap w.facts # {}
    THEN [w EXCEPT !.stopped = TRUE]
    ELSE IF ~(s.devices \subseteq machine.present) THEN w
    ELSE [w EXCEPT !.facts = (@ \cup s.does) \ s.undoes]

Walk(steps, f) == FoldLeft(Taken, [facts |-> f, stopped |-> FALSE], steps)

(* context->test_scenario is KERNEL_TEST_NONE until EARLY_SCENARIO ran. *)
Scenario(f) == IF "scenario" \in f THEN machine.scenario ELSE "NONE"

(* dependencies_complete: the descriptor requires exactly what the executor
   insists on. *)
dependencies_complete(required, insists) ==
    Len(required) = Len(insists) /\ Members(insists) \subseteq Members(required)

(* The executors that insist on their requirements also make sure that the
   check refuses a list one short and a list with a repetition. *)
ContractHolds(required, insists) ==
    insists # <<>> =>
        /\ dependencies_complete(required, insists)
        /\ ~dependencies_complete(Front(required), insists)
        /\ ~dependencies_complete([required EXCEPT ![Len(required)] = required[1]], insists)

(* What the executor of d may hand back on this machine, with these facts. *)
Outcomes(d, e, stopped) ==
    IF ~ContractHolds(d.required, e.insists) THEN {"failed"}
    ELSE IF Scenario(facts) \notin e.when \/ ~(e.needs \subseteq machine.present) THEN e.without
    ELSE IF stopped /\ e.ends # {"ran"} THEN e.ends \ {"ran"}
    ELSE e.ends

(* boot_stage_result_succeed, boot_stage_result_skip, boot_stage_result_fail. *)
Claims(d, result) ==
    CASE result = "ran" -> Members(d.provided)
      [] result = "skipped" -> Members(d.skipped)
      [] OTHER -> {}

append_receipt(d, result) ==
    /\ receipts' = Append(receipts,
                     [stage |-> d.stage, sequence |-> Len(receipts) + 1,
                      result |-> result, provided |-> Claims(d, result)])
    /\ degraded' = (degraded \/ result = "failed" \/ (result = "skipped" /\ ~d.neutral))

Next_stage == descriptors[order[Len(receipts) + 1]]

Running == phase = "execute" /\ Len(receipts) < Len(order)

(* requirements_established found a capability missing. *)
execute_stage_unready ==
    /\ Running
    /\ Members(Next_stage.required) \ Established(receipts) # {}
    /\ IF Next_stage.mandatory
       THEN Panic("STAGE_EXECUTED_BEFORE_REQUIREMENTS") /\ UNCHANGED <<receipts, degraded>>
       ELSE append_receipt(Next_stage, "skipped") /\ UNCHANGED <<phase, status>>
    /\ UNCHANGED <<trial, descriptors, machine, facts, blocked, asked, order>>

(* The executor ran and handed back a result; one that failed left behind
   what the steps before the failure did. *)
execute_stage ==
    LET d == Next_stage
        e == d.execute
        done == Walk(e.steps, facts)
    IN  /\ Running
        /\ Members(d.required) \subseteq Established(receipts)
        /\ \E result \in Outcomes(d, e, done.stopped) :
            /\ result \in {"failed", "panicked"} => Failures(receipts) < MaxFailures
            /\ asked' = asked \cup {d.stage}
            /\ blocked' = IF result # "skipped" /\ done.stopped
                          THEN blocked \cup {d.stage} ELSE blocked
            /\ CASE result = "panicked" ->
                      Panic("console_panic") /\ UNCHANGED <<facts, receipts, degraded>>
                 [] result = "undeclared" ->
                      /\ Panic("UNDECLARED_CAPABILITY_PROVIDED")
                      /\ UNCHANGED <<facts, receipts, degraded>>
                 [] OTHER ->
                      /\ append_receipt(d, result)
                      /\ CASE result = "ran" -> facts' = done.facts
                           [] result = "skipped" -> UNCHANGED facts
                           [] OTHER -> \E n \in 0 .. Len(e.steps) :
                                facts' = Walk(SubSeq(e.steps, 1, n), facts).facts
                      /\ IF d.mandatory /\ result # "ran"
                         THEN Panic(IF result = "failed" THEN "REQUIRED_STAGE_FAILED"
                                                         ELSE "REQUIRED_STAGE_SKIPPED")
                         ELSE UNCHANGED <<phase, status>>
            /\ UNCHANGED <<trial, descriptors, machine, order>>

(* A self test forges the first receipt between execution and verification. *)
Forged(r, how) ==
    CASE how = "sequence" -> [r EXCEPT ![1].sequence = @ + 1]
      [] how = "capability" -> [r EXCEPT ![1].provided = {"HEAP_AVAILABLE"}]
      [] OTHER -> r

boot_ledger_execute_ends ==
    /\ phase = "execute"
    /\ Len(receipts) = Len(order)
    /\ phase' = "verify"
    /\ receipts' = Forged(receipts, trial.tamper)
    /\ status' = "OK"
    /\ UNCHANGED <<trial, descriptors, machine, facts, blocked, asked, order, degraded>>

(***************************************************************************)
(* Verification.                                                           *)
(***************************************************************************)
(* What verify_receipt_set makes of receipt k. *)
ReceiptRefusal(r, k) ==
    LET d == descriptors[order[k]]
        before == UNION {r[l].provided : l \in 1 .. k - 1}
        declared == Claims(d, r[k].result)
    IN  CASE r[k].stage # d.stage \/ r[k].sequence # k -> "INSTALLED_PLAN_DIFFERS_VALIDATED_PLAN"
          [] d.mandatory /\ r[k].result # "ran" -> "RECEIPT_MISMATCH"
          [] r[k].result # "skipped" /\ ~(Members(d.required) \subseteq before) ->
               "STAGE_EXECUTED_BEFORE_REQUIREMENTS"
          [] Cardinality(r[k].provided) # Cardinality(declared) -> "RECEIPT_MISMATCH"
          [] ~(r[k].provided \subseteq declared) -> "UNDECLARED_CAPABILITY_PROVIDED"
          [] r[k].provided \cap before # {} -> "DUPLICATE_CAPABILITY_PROVIDER"
          [] OTHER -> "OK"

verify_receipt_set_ResultsOnly(r) ==
    IF \A k \in DOMAIN r : r[k].result \in {"ran", "skipped", "failed"}
    THEN "OK" ELSE "RECEIPT_MISMATCH"

verify_receipt_set(r) ==
    LET refused == {k \in DOMAIN r : ReceiptRefusal(r, k) # "OK"}
    IN  IF Len(r) # Len(order) THEN "RECEIPT_MISMATCH"
        ELSE IF refused = {} THEN "OK"
        ELSE ReceiptRefusal(r, First(refused))

PlannedStage(s) == \E i \in Indices : descriptors[i].stage = s

With(r, s, result) == \E k \in DOMAIN r : r[k].stage = s /\ r[k].result = result

Earlier(r, s, t) ==
    \E k, l \in DOMAIN r : k < l /\ r[k].stage = s /\ r[l].stage = t

(* The proofs whose outcome must be decided: the stage, the capability of a
   proof that ran and the one of a fixture that is absent. *)
DecidedProofs ==
    { <<"DEVICE_SUBSTRATE_PROOF", "DEVICE_SUBSTRATE_INSTALLED_PROOF_COMPLETE",
        "DEVICE_SUBSTRATE_FIXTURE_ABSENT">>,
      <<"XHCI_DESCRIPTOR_PROOF", "XHCI_DESCRIPTOR_PROOF_COMPLETE", "XHCI_FIXTURE_ABSENT">>,
      <<"NVME_READ_PROOF", "NVME_READ_PROOF_COMPLETE", "NVME_FIXTURE_ABSENT">>,
      <<"FILESYSTEM_FILE_PROOF", "FILESYSTEM_FILE_PROOF_COMPLETE", "FILESYSTEM_FIXTURE_ABSENT">>,
      <<"PROCESS_INSTALLED_PROOF", "PROCESS_INSTALLED_PROOF_COMPLETE", "PROCESS_FIXTURE_ABSENT">>,
      <<"LINUX_INSTALLED_PROOF", "LINUX_INSTALLED_PROOF_COMPLETE", "LINUX_FIXTURE_ABSENT">>,
      <<"LINUX_UNAME_INSTALLED_PROOF", "LINUX_UNAME_INSTALLED_PROOF_COMPLETE",
        "LINUX_UNAME_FIXTURE_ABSENT">> }

Decides(s) == \E d \in DecidedProofs : d[1] = s

(* The executor of stage i reports success whatever it finds. *)
CannotFail(p, i) ==
    LET e == p.stages[i].execute
    IN  /\ e.insists = <<>> /\ e.needs = {} /\ e.ends = {"ran"}
        /\ \A m \in p.machines : {"NONE", m.scenario} \subseteq e.when

Guaranteed(p, c) == \E j \in DOMAIN p.stages : c \in Members(p.stages[j].provided) /\ p.stages[j].mandatory

(* Nothing a plan can lose keeps an outcome from being found out: what a stage
   that may report an absence requires comes from a mandatory stage, from a
   decided proof however that ends, or from a stage that cannot fail. *)
OutcomesAssured(p) ==
    \A i \in DOMAIN p.stages :
        p.stages[i].skipped # <<>> \/ Decides(p.stages[i].stage) =>
            \A c \in Members(p.stages[i].required) :
                \/ Guaranteed(p, c)
                \/ \E j \in DOMAIN p.stages :
                    /\ c \in Members(p.stages[j].provided)
                    /\ \/ Decides(p.stages[j].stage) /\ c \in Members(p.stages[j].skipped)
                       \/ /\ CannotFail(p, j)
                          /\ \A b \in Members(p.stages[j].required) : Guaranteed(p, b)

ASSUME OutcomesAssumption == \A p \in Plans : OutcomesAssured(p)

optional_outcome_valid_AcceptsNeither(planned, complete, absent) ==
    ~(planned /\ complete /\ absent)

optional_outcome_valid(planned, complete, absent) == ~planned \/ complete # absent

(* The seven optional proofs; process, Linux and uname are decided too. *)
ProofsDecided(r) ==
    /\ \A d \in DecidedProofs :
        LET complete == d[2] \in Established(r)
            absent == d[3] \in Established(r)
        IN  /\ optional_outcome_valid(PlannedStage(d[1]), complete, absent)
            /\ complete => With(r, d[1], "ran")
            /\ absent => With(r, d[1], "skipped")
    /\ \A d \in { <<"PROCESS_INSTALLED_PROOF", "PROCESS_OUTCOME_DECIDED">>,
                  <<"LINUX_INSTALLED_PROOF", "LINUX_OUTCOME_DECIDED">>,
                  <<"LINUX_UNAME_INSTALLED_PROOF", "LINUX_UNAME_OUTCOME_DECIDED">> } :
        (d[2] \in Established(r)) = PlannedStage(d[1])

(* Page tables: proved, and each of the three stages ran. *)
PagingInstalled(r, f) ==
    "PAGE_TABLES_INSTALLED" \in Established(r) =>
        /\ "paging" \in f
        /\ {"WRITE_XOR_EXECUTE_PROVED", "INSTALLED_DEVICE_WINDOWS_PROVED"} \subseteq Established(r)
        /\ \A s \in {"DEVICE_WINDOWS", "PAGING_INSTALL", "PAGING_PROOFS"} : With(r, s, "ran")

FramebufferProved(r, f) ==
    "framebuffer" \in f =>
        {"FRAMEBUFFER_WC_INDEPENDENTLY_PROVED", "SURFACE_AVAILABLE"} \subseteq Established(r)

(* The three device foundations come together or not at all. *)
DeviceFoundations(r, f) ==
    LET three == {"PCI_RESOURCE_OWNERSHIP_AVAILABLE", "DYNAMIC_VECTOR_FOUNDATION_AVAILABLE",
                  "DMA_FOUNDATION_AVAILABLE"}
    IN  three \cap Established(r) # {} =>
            three \subseteq Established(r) /\ {"resources", "vectors", "dma"} \subseteq f

(* The workspace: proved last, after the closing proofs, with the pointer the
   ledger decided on; or never activated. *)
WorkspaceInstalled(r, f) ==
    IF "REDWOOD_INSTALLED_PROOF_COMPLETE" \notin Established(r)
    THEN "DESKTOP_SHELL_ACTIVATED" \notin Established(r)
    ELSE /\ \A s \in {"UI_FONT", "POINTER_DECISION", "FRAMEBUFFER_WC", "UI_LAYOUT",
                      "DESKTOP_CONSTRUCTION", "DESKTOP_ACTIVATION", "REDWOOD_INSTALLED_PROOF",
                      "CLOSING_PROOFS"} : With(r, s, "ran")
         /\ LET available == "POINTER_INPUT_AVAILABLE" \in Established(r)
                absent == "POINTER_INPUT_ABSENT" \in Established(r)
            IN  /\ available # absent
                /\ With(r, "POINTER_OUTCOME", IF available THEN "ran" ELSE "skipped")
                /\ ("pointer" \in f) = available
         /\ \E i \in Indices :
                /\ descriptors[i].stage = "DESKTOP_ACTIVATION"
                /\ {"FRAMEBUFFER_WC_INDEPENDENTLY_PROVED", "SCHEDULER_AVAILABLE"}
                       \subseteq Requires(i)
         /\ \A s \in {"FRAMEBUFFER_WC", "UI_FONT", "UI_LAYOUT"} :
                Earlier(r, s, "DESKTOP_CONSTRUCTION")
         /\ Earlier(r, "DESKTOP_CONSTRUCTION", "DESKTOP_ACTIVATION")
         /\ Earlier(r, "CLOSING_PROOFS", "DESKTOP_ACTIVATION")
         /\ Earlier(r, "DESKTOP_ACTIVATION", "REDWOOD_INSTALLED_PROOF")
         /\ {"font", "ui_active"} \subseteq f

boot_ledger_verify_installed ==
    /\ phase = "verify"
    /\ LET set == verify_receipt_set(receipts)
       IN  IF set # "OK" THEN Panic(set)
           ELSE IF \/ ~PagingInstalled(receipts, facts)
                   \/ ~FramebufferProved(receipts, facts)
                   \/ ~DeviceFoundations(receipts, facts)
                   \/ ~ProofsDecided(receipts)
                   \/ ~WorkspaceInstalled(receipts, facts)
                THEN Panic("RECEIPT_MISMATCH")
           ELSE phase' = "published" /\ UNCHANGED status
    /\ UNCHANGED <<trial, descriptors, machine, facts, blocked, asked, order, receipts, degraded>>

Next ==
    \/ boot_ledger_validate
    \/ Select
    \/ Cycle
    \/ Planned
    \/ execute_stage_unready
    \/ execute_stage
    \/ boot_ledger_execute_ends
    \/ boot_ledger_verify_installed

Spec == Init /\ [][Next]_vars

(***************************************************************************)
(* Properties.                                                             *)
(***************************************************************************)
(* Whenever boot_ledger_validate has accepted a plan and execution begins, its
   canonical order runs every stage after the providers of all it requires, and never goes back to an
   earlier phase: although stages are picked greedily, by phase and number
   among those that are ready, no stage of an early phase is left waiting for
   one of a later phase. *)
PlannedInOrder ==
    phase = "execute" /\ receipts = <<>> =>
        /\ Members(order) = Indices
        /\ \A k, l \in DOMAIN order :
            /\ k < l => descriptors[order[k]].phase <= descriptors[order[l]].phase
            /\ Requires(order[l]) \cap Provides(order[k]) # {} => k < l

(* The capabilities of the installed plan say enough: in the canonical order,
   and after any failure of an optional stage, no executor of boot_plan.c
   calls a subsystem before the subsystem is ready for it, be it a dependency
   nobody declared (PCI needs the heap, the proofs read the scenario). *)
MachineReady == blocked = {}

(* A published ledger claims neither a proof nor an absence that was not
   found out: of each optional proof that decides something, the executor was
   called, and it either ran or found its fixture missing; a stage skipped
   only because something before it failed is never published as absent.  And
   a framebuffer that is in use was proved. *)
PublishedIsHonest ==
    phase = "published" =>
        /\ \A d \in DecidedProofs :
            PlannedStage(d[1]) =>
                /\ d[1] \in asked
                /\ With(receipts, d[1], "ran") # With(receipts, d[1], "skipped")
        /\ \A k \in DOMAIN receipts :
            receipts[k].result = "skipped" /\ receipts[k].provided # {} =>
                receipts[k].stage \in asked
        /\ FramebufferProved(receipts, facts)

(* Every plan of boot_ledger_self_test and of
   boot_plan_pointer_absence_self_test ends with the status the self test
   expects, and the two self tests that fail or skip a stage leak none of its
   capabilities. *)
SelfTestVerdicts ==
    phase \in {"published", "panic"} /\ trial.expect # "any" =>
        /\ status = trial.expect
        /\ Established(receipts) \cap trial.never = {}

===============================================================================
