----------------------------- MODULE DeviceLedger -----------------------------
(***************************************************************************)
(* What every driver shares: PCI claims and their mapped BARs              *)
(* (pci_resource.c), DMA allocations and their owner (dma.c), interrupt    *)
(* vectors and handlers (interrupt_vector.c, interrupts.c) and the MSI-X   *)
(* binding that ties them together (msix.c).  Each call is an action; Can  *)
(* before its name is the condition under which it is not refused.         *)
(*                                                                         *)
(* Addresses, sizes and register contents are left out: a BAR is a name, a *)
(* DMA allocation is the name its driver keeps it under.  What the         *)
(* platform may refuse (a BAR that fails its checks, no contiguous frames, *)
(* a configuration write that does not stick) is a choice of the module    *)
(* that makes the calls.                                                   *)
(***************************************************************************)
EXTENDS Integers, Sequences, FiniteSets, FiniteSetsExt, SequencesExt

CONSTANTS
    Function,            \* the PCI functions of the machine
    ClaimCapacity,       \* PCI_ACTIVE_CLAIM_CAPACITY
    MappingCapacity,     \* PCI_CLAIM_MAPPING_CAPACITY
    AllocationCapacity,  \* FRAME_CONTIGUOUS_ALLOCATION_CAPACITY
    DynamicVectors,      \* the dynamic vectors, numbered from 1
    Nobody

ASSUME LedgerAssumption ==
    /\ IsFiniteSet(Function) /\ Nobody \notin Function
    /\ ClaimCapacity \in Nat /\ MappingCapacity \in Nat
    /\ AllocationCapacity \in Nat /\ DynamicVectors \in Nat

VARIABLES
    claims,      \* per function: claimed, its BARs in mapping order, bus mastering
    buffers,     \* per function: its DMA allocations and who holds each
    allocated,   \* the vectors handed out
    handlers,    \* per vector: the function whose handler is installed
    bindings,    \* per function: its MSI-X binding
    layout,      \* per function: the BARs the MSI-X table needs besides BAR 0
    firmware     \* the functions whose command word the firmware left mastering the bus

ledger == <<claims, buffers, allocated, handlers, bindings, layout, firmware>>

Vector == 1 .. DynamicVectors

Unclaimed == [active |-> FALSE, maps |-> <<>>, bus |-> FALSE]

Unbound == [active |-> FALSE, vector |-> 0, masked |-> TRUE]

(* Where a device may keep its MSI-X table and pending bits. *)
Layouts == {<<>>, <<"table">>, <<"table", "pba">>}

LedgerTypeOK ==
    /\ \A f \in Function :
         /\ claims[f].active \in BOOLEAN /\ claims[f].bus \in BOOLEAN
         /\ Len(claims[f].maps) <= MappingCapacity
         /\ \A b \in DOMAIN buffers[f] : buffers[f][b] \in {"raw", "ready", "device"}
         /\ bindings[f].active \in BOOLEAN
    /\ allocated \subseteq Vector
    /\ handlers \in [Vector -> Function \cup {Nobody}]

LedgerInit ==
    /\ claims = [f \in Function |-> Unclaimed]
    /\ buffers = [f \in Function |-> [b \in {} |-> "raw"]]
    /\ allocated = {}
    /\ handlers = [v \in Vector |-> Nobody]
    /\ bindings = [f \in Function |-> Unbound]
    /\ \E bars \in Layouts : layout = [f \in Function |-> bars]
    /\ firmware \in {{}, Function}

(***************************************************************************)
(* PCI claims.                                                             *)
(***************************************************************************)
Claimed == {f \in Function : claims[f].active}

Maps(f) == Range(claims[f].maps)

(* Whether the device may write memory: the bus master bit of its command word.
   A claim begins by clearing it; a release puts back the word the claim found. *)
Masters(f) == IF claims[f].active THEN claims[f].bus ELSE f \in firmware

CanClaim(f) == ~claims[f].active /\ Cardinality(Claimed) < ClaimCapacity

pci_claim_device(f) ==
    /\ CanClaim(f)
    /\ claims' = [claims EXCEPT ![f] = [Unclaimed EXCEPT !.active = TRUE]]
    /\ UNCHANGED <<buffers, allocated, handlers, bindings, layout, firmware>>

CanMap(f, bar) ==
    /\ claims[f].active
    /\ bar \notin Maps(f)
    /\ Len(claims[f].maps) < MappingCapacity

pci_claim_map_bar(f, bar) ==
    /\ CanMap(f, bar)
    /\ claims' = [claims EXCEPT ![f].maps = Append(@, bar)]
    /\ UNCHANGED <<buffers, allocated, handlers, bindings, layout, firmware>>

(* A BAR is unmapped only if it was mapped last, and never under a bus master. *)
CanUnmap(f, bar) ==
    /\ claims[f].active
    /\ claims[f].maps # <<>>
    /\ Last(claims[f].maps) = bar
    /\ ~claims[f].bus

pci_claim_unmap_last_bar(f, bar) ==
    /\ CanUnmap(f, bar)
    /\ claims' = [claims EXCEPT ![f].maps = Front(@)]
    /\ UNCHANGED <<buffers, allocated, handlers, bindings, layout, firmware>>

dma_is_device_owned(f, b) == b \in DOMAIN buffers[f] /\ buffers[f][b] = "device"

CanMaster(f, bs) ==
    /\ claims[f].active /\ ~claims[f].bus
    /\ claims[f].maps # <<>>
    /\ \A b \in bs : dma_is_device_owned(f, b)

pci_claim_enable_bus_master(f, bs) ==
    /\ CanMaster(f, bs)
    /\ claims' = [claims EXCEPT ![f].bus = TRUE]
    /\ UNCHANGED <<buffers, allocated, handlers, bindings, layout, firmware>>

CanUnmaster(f) == claims[f].active /\ claims[f].bus

pci_claim_disable_bus_master(f) ==
    /\ CanUnmaster(f)
    /\ claims' = [claims EXCEPT ![f].bus = FALSE]
    /\ UNCHANGED <<buffers, allocated, handlers, bindings, layout, firmware>>

CanRelease(f) == claims[f].active

(* The bus is withdrawn, the mappings undone, and the command word the claim
   found written back, its bus master bit included. *)
pci_release_device(f) ==
    /\ CanRelease(f)
    /\ claims' = [claims EXCEPT ![f] = Unclaimed]
    /\ UNCHANGED <<buffers, allocated, handlers, bindings, layout, firmware>>

(* A release that fails on the way: bus mastering is left on, or it is off and
   some of the mappings are left, or only the command register is wrong. *)
pci_release_fails(f) ==
    /\ CanRelease(f)
    /\ \/ claims[f].bus /\ UNCHANGED claims
       \/ \E n \in 0 .. Len(claims[f].maps) :
            claims' = [claims EXCEPT ![f].bus = FALSE, ![f].maps = SubSeq(@, 1, n)]
    /\ UNCHANGED <<buffers, allocated, handlers, bindings, layout, firmware>>

(***************************************************************************)
(* DMA allocations: raw in the hands of the processor, ready once marked   *)
(* initialized, device once handed over.                                   *)
(***************************************************************************)
Allocations == {<<f, b>> \in Function \X UNION {DOMAIN buffers[f] : f \in Function} :
                  b \in DOMAIN buffers[f]}

Holds(f, b, owners) == b \in DOMAIN buffers[f] /\ buffers[f][b] \in owners

Set(f, b, owner) == buffers' = [buffers EXCEPT ![f][b] = owner]

CanAllocate(f, b) ==
    b \notin DOMAIN buffers[f] /\ Cardinality(Allocations) < AllocationCapacity

dma_allocate(f, b) ==
    /\ CanAllocate(f, b)
    /\ buffers' = [buffers EXCEPT ![f] = [c \in DOMAIN @ \cup {b} |-> IF c = b THEN "raw" ELSE @[c]]]
    /\ UNCHANGED <<claims, allocated, handlers, bindings, layout, firmware>>

CanMark(f, b) == Holds(f, b, {"raw", "ready"})

dma_mark_initialized(f, b) ==
    /\ CanMark(f, b)
    /\ Set(f, b, "ready")
    /\ UNCHANGED <<claims, allocated, handlers, bindings, layout, firmware>>

CanGive(f, b) == Holds(f, b, {"ready"})

dma_transfer_to_device(f, b) ==
    /\ CanGive(f, b)
    /\ Set(f, b, "device")
    /\ UNCHANGED <<claims, allocated, handlers, bindings, layout, firmware>>

CanTake(f, b) == Holds(f, b, {"device"})

dma_transfer_to_cpu(f, b) ==
    /\ CanTake(f, b)
    /\ Set(f, b, "ready")
    /\ UNCHANGED <<claims, allocated, handlers, bindings, layout, firmware>>

CanFree(f, b) == Holds(f, b, {"raw", "ready"})

dma_release(f, b) ==
    /\ CanFree(f, b)
    /\ buffers' = [buffers EXCEPT ![f] = [c \in DOMAIN @ \ {b} |-> @[c]]]
    /\ UNCHANGED <<claims, allocated, handlers, bindings, layout, firmware>>

(***************************************************************************)
(* Vectors and MSI-X.                                                      *)
(***************************************************************************)
FreeVectors == Vector \ allocated

(* The vector the next allocation returns: the lowest that is free. *)
interrupt_vector_allocate == Min(FreeVectors)

(* The BARs a binding maps itself, its table before its pending bits. *)
MappedHere(f) == SelectSeq(layout[f], LAMBDA bar : bar \notin Maps(f))

CanBind(f) ==
    /\ claims[f].active /\ ~bindings[f].active
    /\ Len(claims[f].maps) + Len(MappedHere(f)) <= MappingCapacity
    /\ FreeVectors # {}
    /\ handlers[interrupt_vector_allocate] = Nobody

msix_bind(f, masked) ==
    /\ CanBind(f)
    /\ LET v == interrupt_vector_allocate IN
         /\ claims' = [claims EXCEPT ![f].maps = @ \o MappedHere(f)]
         /\ allocated' = allocated \cup {v}
         /\ handlers' = [handlers EXCEPT ![v] = f]
         /\ bindings' = [bindings EXCEPT ![f] = [active |-> TRUE, vector |-> v, masked |-> masked]]
    /\ UNCHANGED <<buffers, layout, firmware>>

CanSetMasked(f) == bindings[f].active

msix_set_masked(f, masked) ==
    /\ CanSetMasked(f)
    /\ bindings' = [bindings EXCEPT ![f].masked = masked]
    /\ UNCHANGED <<claims, buffers, allocated, handlers, layout, firmware>>

(* What a rollback unmaps: the pending bits, then the table, each only while it
   is the last mapping and the device is no bus master.  A step that cannot be
   taken is skipped, and counts as a failure. *)
RolledBack(f) ==
    LET Drop(maps, bar) == IF maps # <<>> /\ Last(maps) = bar THEN Front(maps) ELSE maps
    IN  IF claims[f].bus THEN claims[f].maps ELSE FoldLeft(Drop, claims[f].maps, Reverse(layout[f]))

(* The handler is removed before its vector is given up, so that no vector is
   recycled while its handler can be reached. *)
rollback_binding(f) ==
    /\ allocated' = allocated \ {bindings[f].vector}
    /\ handlers' = [handlers EXCEPT ![bindings[f].vector] = Nobody]
    /\ bindings' = [bindings EXCEPT ![f] = Unbound]
    /\ UNCHANGED <<buffers, layout, firmware>>

CanUnbind(f) == bindings[f].active

RollsBackWholly(f) == Range(RolledBack(f)) \cap Range(layout[f]) = {}

msix_unbind(f) ==
    /\ CanUnbind(f)
    /\ claims' = [claims EXCEPT ![f].maps = RolledBack(f)]
    /\ rollback_binding(f)

(* An unbind in which a mapping cannot be undone, or a register does not take
   its old value. *)
msix_unbind_fails(f) ==
    /\ CanUnbind(f)
    /\ \E n \in Len(RolledBack(f)) .. Len(claims[f].maps) :
         claims' = [claims EXCEPT ![f].maps = SubSeq(@, 1, n)]
    /\ rollback_binding(f)

(***************************************************************************)
(* The counts pci_resource_get_state, dma_get_state,                       *)
(* interrupt_vector_get_state and msix_get_state report, which is all that *)
(* the drivers compare.                                                    *)
(***************************************************************************)
Count(owners) == Cardinality({a \in Allocations : buffers[a[1]][a[2]] \in owners})

Census ==
    [claims   |-> Cardinality(Claimed),
     mappings |-> MapThenSumSet(LAMBDA f : Len(claims[f].maps), Function),
     masters  |-> Cardinality({f \in Function : claims[f].bus}),
     cpu      |-> Count({"raw", "ready"}),
     device   |-> Count({"device"}),
     vectors  |-> Cardinality(allocated),
     bindings |-> Cardinality({f \in Function : bindings[f].active})]

===============================================================================
