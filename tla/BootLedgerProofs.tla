---------------------------- MODULE BootLedgerProofs ----------------------------
(***************************************************************************)
(* Whatever plan boot_ledger_validate accepts (src/kernel/boot_ledger.c),  *)
(* its greedy selection orders well (PlannedInOrder), its execution leaves *)
(* receipts that pass verification, and what is published was found out    *)
(* (PublishedIsHonest): for every set of plans.                            *)
(*                                                                         *)
(* The selection looks one stage ahead.  What it leaves behind, place by   *)
(* place, is in the invariant: each stage found its requirements offered   *)
(* by the stages before it (Supplied), and was of the earliest phase among *)
(* all stages that could have had its place (Greedy).  That no phase ever  *)
(* comes back follows for the order as a whole: of the stages that follow  *)
(* one of a later phase, take the first in the order.  It was not ready    *)
(* yet, so a provider of it lies between the two, and the check for        *)
(* backward capabilities puts that provider in a phase no later than its   *)
(* own: a stage that comes earlier still, after one of a later phase.      *)
(*                                                                         *)
(* A second invariant (RInv) says of each receipt why it is what it is: a  *)
(* stage that was not asked lacked something that the receipts before it   *)
(* did not grant.  A stage that may report an absence cannot have lacked   *)
(* anything once the verification is through, by OutcomesAssumption.       *)
(***************************************************************************)
EXTENDS BootLedger, FiniteSetTheorems, WellFoundedInduction, TLAPS

Phase(i) == descriptors[i].phase

(* The stages the places before k went to. *)
Placed(k) == {order[m] : m \in 1 .. k - 1}

(* No descriptor changes after it was added. *)
Shape == IsPlan(descriptors)

(* No capability of a plan boot_ledger_validate let through has two providers. *)
Accepted ==
    phase \notin {"build", "panic"} =>
        \A i, j \in Indices : Provides(i) \cap Provides(j) # {} => i = j

(* The selection gives each place to one stage and no stage two places. *)
Distinct ==
    /\ order \in Seq(Indices)
    /\ \A k, l \in DOMAIN order : order[k] = order[l] => k = l

(* When a stage got its place, the stages before it offered all it requires. *)
Supplied == \A l \in DOMAIN order : Requires(order[l]) \subseteq Offered(Placed(l))

(* No stage that could have had place k is of an earlier phase. *)
Greedy ==
    \A k \in DOMAIN order : \A i \in Indices \ Placed(k) :
        Requires(i) \subseteq Offered(Placed(k)) => Phase(order[k]) <= Phase(i)

(* Execution begins with every stage placed and no capability that comes from
   a later phase. *)
Complete ==
    phase = "execute" => Len(order) = Len(descriptors) /\ ~PhaseBackwards

IInv == Shape /\ Accepted /\ Distinct /\ Supplied /\ Greedy /\ Complete

(***************************************************************************)
(* The inductive invariant.                                                *)
(***************************************************************************)
(* The ledger starts with a plan as added and nothing placed. *)
LEMMA InitHolds == Init => IInv
<1> SUFFICES ASSUME Init PROVE IInv
    OBVIOUS
<1>1. Shape
    <2>1. PICK p \in Plans : descriptors = p.stages
        BY DEF Init
    <2> QED BY <2>1, PlansAssumption DEF Shape
<1>2. phase = "build" /\ order = <<>> /\ DOMAIN order = {}
    BY DEF Init
<1>3. Distinct
    BY <1>2 DEF Distinct
<1>4. Accepted /\ Supplied /\ Greedy /\ Complete
    BY <1>2 DEF Accepted, Supplied, Greedy, Complete
<1> QED BY <1>1, <1>3, <1>4 DEF IInv

(* What is said about the order speaks of the order and of the descriptors. *)
LEMMA OrderKept ==
    ASSUME IInv, UNCHANGED <<descriptors, order>>
    PROVE  /\ Shape' /\ Distinct' /\ Supplied' /\ Greedy'
           /\ PhaseBackwards' = PhaseBackwards
           /\ \A i, j \in Indices :
                (Provides(i) \cap Provides(j) # {})' <=> Provides(i) \cap Provides(j) # {}
<1>1. Indices' = Indices /\ DOMAIN order' = DOMAIN order
    BY DEF Indices
<1>2. \A i : Requires(i)' = Requires(i) /\ Provides(i)' = Provides(i) /\ Phase(i)' = Phase(i)
    BY DEF Requires, Provides, Phase
<1>3. PhaseBackwards' = PhaseBackwards
    BY <1>1, <1>2 DEF PhaseBackwards
<1>4. Shape' /\ Distinct'
    BY <1>1 DEF IInv, Shape, Distinct
<1>5. \A k : Placed(k)' = Placed(k) /\ Offered(Placed(k))' = Offered(Placed(k))
    BY <1>2 DEF Placed, Offered
<1>6. Supplied'
    <2>1. \A l : Requires(order[l])' = Requires(order[l])
        BY DEF Requires
    <2> QED BY <1>1, <1>5, <2>1 DEF IInv, Supplied
<1>7. Greedy'
    <2>1. \A l : Phase(order[l])' = Phase(order[l])
        BY DEF Phase
    <2> QED BY <1>1, <1>2, <1>5, <2>1 DEF IInv, Greedy
<1> QED BY <1>2, <1>3, <1>4, <1>6, <1>7

(* One more stage gets a place. *)
LEMMA SelectKeeps == IInv /\ Select => IInv'
<1> SUFFICES ASSUME IInv, Select PROVE IInv'
    OBVIOUS
<1>1. PICK i \in Selected(order) : order' = Append(order, i)
    BY DEF Select
<1>2. UNCHANGED <<descriptors, phase>>
    BY DEF Select
<1>3. order \in Seq(Indices) /\ Len(order) \in Nat /\ DOMAIN order = 1 .. Len(order)
    BY DEF IInv, Distinct
<1>4. i \in Indices /\ i \notin Members(order)
    BY DEF Selected, Ready
<1>5. /\ order' \in Seq(Indices)
      /\ DOMAIN order' = 1 .. Len(order) + 1
      /\ \A k \in 1 .. Len(order) : order'[k] = order[k]
      /\ order'[Len(order) + 1] = i
    BY <1>1, <1>3, <1>4
<1>6. Indices' = Indices /\ (\A j \in Indices : Requires(j)' = Requires(j) /\ Phase(j)' = Phase(j))
    BY <1>2 DEF Indices, Requires, Phase
<1>7. \A k \in 1 .. Len(order) + 1 : Placed(k)' = Placed(k)
    <2> SUFFICES ASSUME NEW k \in 1 .. Len(order) + 1 PROVE Placed(k)' = Placed(k)
        OBVIOUS
    <2>1. \A m \in 1 .. k - 1 : order'[m] = order[m]
        BY <1>3, <1>5
    <2> QED BY <2>1 DEF Placed
<1>8. Members(order) = Placed(Len(order) + 1)
    BY <1>3 DEF Members, Placed
<1>9. \A k \in 1 .. Len(order) + 1 : Offered(Placed(k))' = Offered(Placed(k))
    BY <1>2, <1>7 DEF Offered, Provides
<1>10. Distinct'
    <2>1. \A k \in DOMAIN order : order[k] # i
        BY <1>4 DEF Members
    <2>2. ASSUME NEW k \in DOMAIN order', NEW l \in DOMAIN order', order'[k] = order'[l]
          PROVE  k = l
        <3>1. CASE k \in 1 .. Len(order) /\ l \in 1 .. Len(order)
            BY <3>1, <2>2, <1>3, <1>5 DEF IInv, Distinct
        <3>2. CASE k = Len(order) + 1 \/ l = Len(order) + 1
            BY <3>2, <2>1, <2>2, <1>3, <1>5
        <3> QED BY <3>1, <3>2, <1>3, <1>5
    <2> QED BY <2>2, <1>5, <1>6 DEF Distinct
<1>11. Requires(i) \subseteq Offered(Placed(Len(order) + 1))
    BY <1>8 DEF Selected, Ready
<1>12. Supplied'
    <2> SUFFICES ASSUME NEW l \in 1 .. Len(order) + 1
                 PROVE  Requires(order'[l]) \subseteq Offered(Placed(l))
        BY <1>2, <1>5, <1>9 DEF Supplied, Requires
    <2>1. CASE l = Len(order) + 1
        BY <2>1, <1>5, <1>11
    <2>2. CASE l \in 1 .. Len(order)
        BY <2>2, <1>3, <1>5 DEF IInv, Supplied
    <2> QED BY <2>1, <2>2, <1>3
<1>13. Greedy'
    <2> SUFFICES ASSUME NEW k \in 1 .. Len(order) + 1, NEW j \in Indices \ Placed(k),
                        Requires(j) \subseteq Offered(Placed(k))
                 PROVE  descriptors[order'[k]].phase <= Phase(j)
        BY <1>2, <1>5, <1>6, <1>7, <1>9 DEF Greedy, Phase
    <2>1. CASE k \in 1 .. Len(order)
        BY <2>1, <1>3, <1>5 DEF IInv, Greedy, Phase
    <2>2. CASE k = Len(order) + 1
        <3>1. j \in Ready(order)
            BY <2>2, <1>8 DEF Ready
        <3>2. ~Before(descriptors[j], descriptors[i])
            BY <3>1 DEF Selected
        <3>3. descriptors[i].phase \in Nat /\ descriptors[j].phase \in Nat
            BY <1>4 DEF IInv, Shape, IsPlan, Indices
        <3> QED BY <2>2, <3>2, <3>3, <1>5 DEF Before, Phase
    <2> QED BY <2>1, <2>2, <1>3
<1>14. Accepted' /\ Complete' /\ Shape'
    <2>1. phase' = "plan" /\ phase = "plan"
        BY <1>2 DEF Select
    <2>2. \A j : Provides(j)' = Provides(j)
        BY <1>2 DEF Provides
    <2> QED BY <2>1, <2>2, <1>2, <1>6 DEF IInv, Accepted, Complete, Shape
<1> QED BY <1>10, <1>12, <1>13, <1>14 DEF IInv

(***************************************************************************)
(* What validation finds out.                                              *)
(***************************************************************************)
(* The first place of a set of places is one of them, and none lies before. *)
LEMMA FirstIsLeast ==
    ASSUME NEW S, S \subseteq Nat, S # {}
    PROVE  First(S) \in S /\ \A l \in S : First(S) <= l
<1>1. PICK n \in S : \A m \in S : ~ (<<m, n>> \in OpToRel(<, Nat))
    BY NatLessThanWellFounded, WFMin
<1>2. ASSUME NEW m \in S PROVE n <= m
    <2>1. CASE m < n
        <3>1. <<m, n>> \in Nat \X Nat /\ <<m, n>>[1] < <<m, n>>[2]
            BY <2>1
        <3>2. <<m, n>> \in OpToRel(<, Nat)
            BY <3>1 DEF OpToRel
        <3> QED BY <3>2, <1>1
    <2>2. m \in Nat /\ n \in Nat
        OBVIOUS
    <2> QED BY <2>1, <2>2
<1> QED BY <1>2 DEF First

(* A plan that is accepted passed every check, descriptor by descriptor. *)
LEMMA NoneRefused ==
    ASSUME Shape, PlanRefusal = "OK"
    PROVE  \A i \in Indices : Refusal(i) = "OK"
<1>1. Indices \subseteq Nat /\ DOMAIN descriptors = Indices
    BY DEF Shape, IsPlan, Indices
<1>2. ASSUME NEW i \in Indices PROVE Refusal(i) = "OK"
    <2> DEFINE refused == {k \in Indices : Refusal(k) # "OK"}
    <2>1. refused # {} => Refusal(First(refused)) # "OK"
        <3>1. refused # {} => First(refused) \in refused
            <4>1. refused \subseteq Nat
                BY <1>1
            <4> HIDE DEF refused
            <4> QED BY <4>1, FirstIsLeast
        <3> QED BY <3>1
    <2>2. refused # {} => PlanRefusal # "OK"
        <3> HIDE DEF refused
        <3>1. PlanRefusal = IF descriptors = <<>> THEN "EMPTY_PLAN"
                            ELSE IF Len(descriptors) > StageCapacity THEN "TOO_MANY_STAGES"
                            ELSE IF refused # {} THEN Refusal(First(refused))
                            ELSE IF \E k \in Indices : ~(Requires(k) \subseteq Offered(Indices))
                                 THEN "MISSING_CAPABILITY_PROVIDER"
                            ELSE IF \E k \in Indices : TooEarly(k)
                                 THEN "IRREVERSIBLE_STAGE_ORDERED_TOO_EARLY"
                            ELSE "OK"
            BY Zenon DEF PlanRefusal, refused
        <3> HIDE DEF PlanRefusal
        <3> QED BY <3>1, <2>1
    <2> QED BY <2>2
<1> QED BY <1>2

(* So no capability is listed twice, but for one that a descriptor gives
   whether it runs or is skipped. *)
LEMMA OneProvider ==
    ASSUME Shape, PlanRefusal = "OK"
    PROVE  \A i, j \in Indices : Provides(i) \cap Provides(j) # {} => i = j
<1>1. Indices \subseteq Nat /\ DOMAIN descriptors = Indices
    BY DEF Shape, IsPlan, Indices
<1>2. \A i \in Indices : Refusal(i) = "OK"
    BY NoneRefused
<1>3. ASSUME NEW i \in Indices PROVE ProviderRefusal(i) = "OK"
    <2>1. RequirementRefusal(descriptors[i].required) = "OK" \/
          RequirementRefusal(descriptors[i].required) # "OK"
        OBVIOUS
    <2> QED BY <2>1, <1>2, Zenon DEF Refusal
<1>4. ASSUME NEW i \in Indices, NEW k \in DOMAIN Listed(descriptors[i])
      PROVE  ~Repeated(i, k)
    <2> DEFINE listed == Listed(descriptors[i])
               bad == {l \in DOMAIN listed : listed[l] \notin KnownCapabilities \/ Repeated(i, l)}
    <2>1. ProviderRefusal(i) = IF bad = {} THEN "OK"
                               ELSE IF listed[First(bad)] \notin KnownCapabilities
                                    THEN "UNKNOWN_CAPABILITY"
                               ELSE "DUPLICATE_CAPABILITY_PROVIDER"
        BY Zenon DEF ProviderRefusal
    <2>2. bad = {}
        <3> HIDE DEF bad
        <3> QED BY <2>1, <1>3
    <2> QED BY <2>2
<1>5. ASSUME NEW i \in Indices, NEW j \in Indices, i < j
      PROVE  Provides(i) \cap Provides(j) = {}
    <2>1. ASSUME NEW c \in Provides(i), c \in Provides(j) PROVE FALSE
        <3>1. PICK k \in DOMAIN Listed(descriptors[j]) : Listed(descriptors[j])[k] = c
            BY <2>1 DEF Provides, Members, Listed
        <3>2. c \in Members(Listed(descriptors[i])) /\ i \in 1 .. j - 1
            BY <1>1, <1>5 DEF Provides, Listed, Shape, IsPlan, Indices
        <3> QED BY <3>1, <3>2, <1>4 DEF Repeated
    <2> QED BY <2>1
<1> QED BY <1>1, <1>5

(* Nor do two descriptors describe one stage. *)
LEMMA OneDescriptor ==
    ASSUME Shape, PlanRefusal = "OK"
    PROVE  \A i, j \in Indices : descriptors[i].stage = descriptors[j].stage => i = j
<1>1. Len(descriptors) \in Nat /\ Indices = 1 .. Len(descriptors)
    BY DEF Shape, IsPlan, Indices
<1>2. ASSUME NEW i \in Indices, NEW j \in Indices, i < j,
             descriptors[i].stage = descriptors[j].stage
      PROVE  FALSE
    <2>1. i \in 1 .. j - 1
        BY <1>1, <1>2
    <2>2. Refusal(j) # "OK"
        BY <1>2, <2>1, Zenon DEF Refusal
    <2> QED BY <2>2, NoneRefused
<1> QED BY <1>1, <1>2

(***************************************************************************)
(* The steps.                                                              *)
(***************************************************************************)
(* Every step keeps the invariant: only Select places a stage. *)
LEMMA NextKeeps == IInv /\ [Next]_vars => IInv'
<1> SUFFICES ASSUME IInv, [Next]_vars PROVE IInv'
    OBVIOUS
<1>1. CASE Select
    BY <1>1, SelectKeeps
<1>2. ASSUME UNCHANGED <<descriptors, order>>, Accepted', Complete' PROVE IInv'
    BY <1>2, OrderKept DEF IInv
<1>3. ASSUME UNCHANGED <<descriptors, order>>,
             phase' \in {phase, "panic", "verify", "published"},
             phase' \in {"verify", "published"} => phase \notin {"build", "panic"}
      PROVE  IInv'
    <2>1. Indices' = Indices /\ PhaseBackwards' = PhaseBackwards
        BY <1>3, OrderKept DEF Indices
    <2>2. Accepted'
        BY <2>1, <1>3, OrderKept DEF IInv, Accepted
    <2>3. Complete'
        BY <2>1, <1>3 DEF IInv, Complete
    <2> QED BY <1>2, <1>3, <2>2, <2>3
<1>4. CASE boot_ledger_validate
    <2>1. UNCHANGED <<descriptors, order>> /\ phase' \in {"plan", "panic"}
        BY <1>4 DEF boot_ledger_validate, Panic
    <2>2. phase' = "plan" => PlanRefusal = "OK"
        BY <1>4 DEF boot_ledger_validate, Panic
    <2>3. Accepted'
        BY <2>1, <2>2, OneProvider, OrderKept DEF IInv, Accepted, Indices
    <2>4. Complete'
        BY <2>1 DEF Complete
    <2> QED BY <1>2, <2>1, <2>3, <2>4
<1>5. CASE Cycle
    BY <1>3, <1>5 DEF Cycle, Panic
<1>6. CASE Planned
    <2>1. UNCHANGED <<descriptors, order>> /\ phase' \in {"execute", "panic"} /\ phase = "plan"
        BY <1>6 DEF Planned, Panic
    <2>2. phase' = "execute" => Len(order) = Len(descriptors) /\ ~PhaseBackwards
        BY <1>6 DEF Planned, Panic
    <2>3. Indices' = Indices /\ PhaseBackwards' = PhaseBackwards
        BY <2>1, OrderKept DEF Indices
    <2>4. Accepted'
        BY <2>1, <2>3, OrderKept DEF IInv, Accepted
    <2>5. Complete'
        BY <2>1, <2>2, <2>3 DEF Complete
    <2> QED BY <1>2, <2>1, <2>4, <2>5
<1>7. CASE execute_stage_unready
    BY <1>3, <1>7 DEF execute_stage_unready, Panic
<1>8. CASE execute_stage
    <2>1. phase' \in {phase, "panic"} /\ UNCHANGED <<descriptors, order>>
        BY <1>8, Zenon DEF execute_stage, Panic
    <2> QED BY <1>3, <2>1
<1>9. CASE boot_ledger_execute_ends
    BY <1>3, <1>9 DEF boot_ledger_execute_ends
<1>10. CASE boot_ledger_verify_installed
    BY <1>3, <1>10 DEF boot_ledger_verify_installed, Panic
<1>11. CASE UNCHANGED vars
    BY <1>3, <1>11 DEF vars
<1> QED BY <1>1, <1>4, <1>5, <1>6, <1>7, <1>8, <1>9, <1>10, <1>11 DEF Next

(* What the selection leaves behind, place by place, holds in every reachable
   state of the ledger. *)
THEOREM SelectionInductive == Spec => []IInv
<1> QED BY InitHolds, NextKeeps, PTL DEF Spec

(***************************************************************************)
(* What the invariant says of a complete order.                            *)
(***************************************************************************)
(* As many places as stages, each with its own stage: every stage is placed. *)
LEMMA EveryStagePlaced ==
    ASSUME IInv, Len(order) = Len(descriptors)
    PROVE  Members(order) = Indices
<1>1. descriptors \in Seq(Members(descriptors)) /\ order \in Seq(Indices)
    BY DEF IInv, Shape, IsPlan, Distinct
<1>2. DOMAIN order = Indices /\ Indices = 1 .. Len(descriptors) /\ Len(descriptors) \in Nat
    BY <1>1 DEF Indices
<1>3. order \in Injection(Indices, Indices)
    <2>1. order \in [1 .. Len(order) -> Indices]
        BY <1>1
    <2>2. order \in [Indices -> Indices]
        BY <2>1, <1>2
    <2>3. IsInjective(order)
        BY DEF IInv, Distinct, IsInjective
    <2> QED BY <2>2, <2>3 DEF Injection
<1>4. IsFiniteSet(Indices)
    BY <1>2, FS_Interval
<1>5. order \in Surjection(Indices, Indices)
    BY <1>3, <1>4, FS_Injection
<1> QED BY <1>5, <1>1, <1>2 DEF Surjection, Members

(* No stage follows one of a later phase. *)
LEMMA PhasesAscend ==
    ASSUME IInv, phase = "execute", NEW a \in DOMAIN order, NEW b \in DOMAIN order, a < b
    PROVE  Phase(order[a]) <= Phase(order[b])
<1>1. DOMAIN order \subseteq Nat /\ (\A l \in DOMAIN order : order[l] \in Indices)
    BY DEF IInv, Distinct
<1>2. \A l \in DOMAIN order : Phase(order[l]) \in Nat
    BY <1>1 DEF IInv, Shape, IsPlan, Phase, Indices
<1> DEFINE late == {l \in DOMAIN order :
                        \E k \in DOMAIN order : k < l /\ ~(Phase(order[k]) <= Phase(order[l]))}
<1>3. ASSUME late # {} PROVE FALSE
    <2>1. PICK l \in late : \A m \in late : l <= m
        <3>1. late \subseteq Nat
            BY <1>1
        <3> HIDE DEF late
        <3> QED BY <1>3, <3>1, FirstIsLeast
    <2>2. PICK k \in DOMAIN order : k < l /\ ~(Phase(order[k]) <= Phase(order[l]))
        BY <2>1
    <2>3. order[l] \in Indices \ Placed(k)
        <3>1. \A m \in 1 .. k - 1 : m \in DOMAIN order /\ m # l
            BY <1>1, <2>2 DEF IInv, Distinct
        <3> QED BY <1>1, <3>1 DEF Placed, IInv, Distinct
    <2>4. ~(Requires(order[l]) \subseteq Offered(Placed(k)))
        BY <2>2, <2>3 DEF IInv, Greedy
    <2>5. PICK c \in Requires(order[l]) : c \notin Offered(Placed(k))
        BY <2>4
    <2>6. PICK m \in 1 .. l - 1 : c \in Provides(order[m])
        <3>1. c \in Offered(Placed(l))
            BY <2>5 DEF IInv, Supplied
        <3> QED BY <3>1 DEF Offered, Placed
    <2>7. m \in DOMAIN order /\ k <= m /\ m < l
        <3>1. m \notin 1 .. k - 1
            BY <2>5, <2>6 DEF Offered, Placed
        <3> QED BY <3>1, <1>1, <2>2, <2>6 DEF IInv, Distinct
    <2>8. Phase(order[m]) <= Phase(order[l])
        <3>1. Requires(order[l]) \cap Provides(order[m]) # {}
            BY <2>5, <2>6
        <3>2. ~(Phase(order[m]) > Phase(order[l]))
            BY <3>1, <1>1, <2>7 DEF IInv, Complete, PhaseBackwards, Phase
        <3> QED BY <3>2, <1>2, <2>7
    <2>9. m # k
        BY <2>2, <2>8
    <2>10. m \in late
        BY <2>2, <2>7, <2>8, <2>9, <1>1, <1>2
    <2> QED BY <2>1, <2>7, <2>10, <1>1
<1> QED BY <1>3

(* A stage whose capability another requires lies before it. *)
LEMMA ProvidersFirst ==
    ASSUME IInv, phase = "execute", NEW k \in DOMAIN order, NEW l \in DOMAIN order,
           Requires(order[l]) \cap Provides(order[k]) # {}
    PROVE  k < l
<1>1. PICK c \in Requires(order[l]) : c \in Provides(order[k])
    OBVIOUS
<1>2. DOMAIN order \subseteq Nat /\ (\A m \in DOMAIN order : order[m] \in Indices)
    BY DEF IInv, Distinct
<1>3. PICK m \in 1 .. l - 1 : c \in Provides(order[m])
    <2>1. c \in Offered(Placed(l))
        BY <1>1 DEF IInv, Supplied
    <2> QED BY <2>1 DEF Offered, Placed
<1>4. m \in DOMAIN order
    BY <1>2, <1>3 DEF IInv, Distinct
<1>5. order[m] = order[k]
    BY <1>1, <1>2, <1>3, <1>4 DEF IInv, Accepted
<1>6. m = k
    BY <1>4, <1>5 DEF IInv, Distinct
<1> QED BY <1>2, <1>3, <1>6

(* boot_ledger_validate (boot_ledger.c): the order it makes of any plan it
   accepts puts every stage after the providers of all it requires, and never
   goes back to an earlier phase. *)
THEOREM PlansInOrder == Spec => []PlannedInOrder
<1>1. IInv => PlannedInOrder
    <2> SUFFICES ASSUME IInv, phase = "execute"
                 PROVE  /\ Members(order) = Indices
                        /\ \A k, l \in DOMAIN order :
                            /\ k < l => Phase(order[k]) <= Phase(order[l])
                            /\ Requires(order[l]) \cap Provides(order[k]) # {} => k < l
        BY DEF PlannedInOrder, Phase
    <2>1. Members(order) = Indices
        BY EveryStagePlaced DEF IInv, Complete
    <2> QED BY <2>1, PhasesAscend, ProvidersFirst
<1> QED BY <1>1, SelectionInductive, PTL

(***************************************************************************)
(* The receipts.                                                           *)
(***************************************************************************)
Described(k) == descriptors[order[k]]

(* What the receipts before place k claim. *)
Granted(k) == UNION {Claims(Described(l), receipts[l].result) : l \in 1 .. k - 1}

Met(k) == Requires(order[k]) \subseteq Granted(k)

(* The executor of descriptor i reports success whatever it finds here. *)
Sure(i) ==
    LET e == descriptors[i].execute
    IN  /\ e.insists = <<>> /\ e.needs = {} /\ e.ends = {"ran"}
        /\ {"NONE", machine.scenario} \subseteq e.when

(* The descriptors are those of a plan, and the machine is one it is for. *)
PlanOf(p) ==
    /\ descriptors = p.stages
    /\ trial.machines = p.machines
    /\ phase \in {"execute", "verify"} => machine \in p.machines

Planful == \E p \in Plans : PlanOf(p)

(* A plan boot_ledger_validate let through describes each stage once. *)
StagesApart ==
    phase \notin {"build", "panic"} =>
        \A i, j \in Indices : descriptors[i].stage = descriptors[j].stage => i = j

(* One receipt after the other, as a sequence of records. *)
Listing ==
    /\ receipts \in Seq(Members(receipts)) /\ Len(receipts) <= Len(order)
    /\ \A k \in DOMAIN receipts :
        receipts[k] = [stage |-> Described(k).stage, sequence |-> receipts[k].sequence,
                       result |-> receipts[k].result, provided |-> receipts[k].provided]

(* A stage that was not asked, or that cannot fail and did not run, lacked
   something it requires; any that was not skipped lacked nothing. *)
Justified(k) ==
    /\ Described(k).stage \notin asked => ~Met(k)
    /\ Sure(order[k]) /\ receipts[k].result # "ran" => ~Met(k)
    /\ receipts[k].result # "skipped" => Met(k)
    /\ Described(k).mandatory => receipts[k].result = "ran"

(* Until a self test forges one, receipts say what their results allow. *)
Genuine(k) ==
    receipts[k].sequence = k /\ receipts[k].provided = Claims(Described(k), receipts[k].result)

Accounts ==
    phase \in {"execute", "verify"} =>
        /\ Listing
        /\ \A k \in DOMAIN receipts : Justified(k)
        /\ phase = "execute" \/ trial.tamper = "none" => \A k \in DOMAIN receipts : Genuine(k)
        /\ phase = "verify" => Len(receipts) = Len(order) /\ Len(order) = Len(descriptors)

(* Nothing has a receipt before the execution begins. *)
NoneYet == phase \in {"build", "plan"} => receipts = <<>>

RInv == IInv /\ Planful /\ StagesApart /\ NoneYet /\ Accounts /\ PublishedIsHonest

(* The order is a sequence of descriptors. *)
LEMMA Places ==
    ASSUME IInv
    PROVE  /\ Len(order) \in Nat /\ DOMAIN order = 1 .. Len(order)
           /\ \A k \in DOMAIN order : order[k] \in Indices
           /\ Indices = DOMAIN descriptors /\ Indices \subseteq Nat
<1> QED BY DEF IInv, Distinct, Shape, IsPlan, Indices

(* The receipts so far establish what their results allow. *)
LEMMA EstablishedIsGranted ==
    ASSUME IInv, Listing, \A k \in DOMAIN receipts : Genuine(k)
    PROVE  Established(receipts) = Granted(Len(receipts) + 1)
<1>1. Len(receipts) \in Nat /\ DOMAIN receipts = 1 .. Len(receipts)
    BY DEF Listing
<1>2. \A k \in DOMAIN receipts : receipts[k].provided = Claims(Described(k), receipts[k].result)
    BY DEF Genuine
<1> QED BY <1>1, <1>2 DEF Established, Granted

(* One more receipt.  Those before it, and what they grant, stay. *)
LEMMA OneMoreReceipt ==
    ASSUME RInv, Running, NEW result, append_receipt(Next_stage, result),
           phase' = "execute", UNCHANGED <<trial, descriptors, machine, order>>,
           asked \subseteq asked',
           Next_stage.mandatory => result = "ran",
           Next_stage.stage \notin asked' => ~Met(Len(receipts) + 1),
           Sure(order[Len(receipts) + 1]) /\ result # "ran" => ~Met(Len(receipts) + 1),
           result # "skipped" => Met(Len(receipts) + 1)
    PROVE  Accounts'
<1> DEFINE n == Len(receipts)
           new == [stage |-> Next_stage.stage, sequence |-> n + 1,
                   result |-> result, provided |-> Claims(Next_stage, result)]
<1>1. Listing /\ (\A k \in DOMAIN receipts : Justified(k) /\ Genuine(k))
    BY DEF RInv, Accounts, Running
<1>2. n \in Nat /\ DOMAIN receipts = 1 .. n /\ n < Len(order) /\ Len(order) \in Nat
    BY <1>1, Places DEF RInv, Listing, Running
<1>3. receipts' = Append(receipts, new)
    BY DEF append_receipt
<1>4. /\ receipts' \in Seq(Members(receipts) \cup {new})
      /\ Len(receipts') = n + 1 /\ DOMAIN receipts' = 1 .. n + 1
      /\ \A k \in 1 .. n : receipts'[k] = receipts[k]
      /\ receipts'[n + 1] = new
    <2>1. receipts \in Seq(Members(receipts) \cup {new})
        BY <1>1 DEF Listing
    <2> HIDE DEF new, n
    <2> QED BY <1>2, <1>3, <2>1 DEF n
<1>5. \A k : Described(k)' = Described(k) /\ Sure(order[k])' = Sure(order[k])
             /\ Requires(order[k])' = Requires(order[k])
    BY DEF Described, Sure, Requires
<1>6. Next_stage = Described(n + 1)
    BY DEF Next_stage, Described
<1>7. \A k \in 1 .. n + 1 : Granted(k)' = Granted(k) /\ Met(k)' = Met(k)
    <2> SUFFICES ASSUME NEW k \in 1 .. n + 1 PROVE Granted(k)' = Granted(k) /\ Met(k)' = Met(k)
        OBVIOUS
    <2>1. \A l \in 1 .. k - 1 : Claims(Described(l), receipts[l].result)' =
                               Claims(Described(l), receipts[l].result)
        <3> TAKE l \in 1 .. k - 1
        <3>1. l \in 1 .. n
            BY <1>2
        <3> QED BY <3>1, <1>4, <1>5 DEF Claims
    <2>2. Granted(k)' = Granted(k)
        BY <2>1 DEF Granted
    <2> QED BY <2>2, <1>5 DEF Met
<1>8. Listing'
    <2>1. receipts' \in Seq(Members(receipts'))
        <3>1. \A k \in 1 .. n + 1 : receipts'[k] \in Members(receipts')
            BY <1>4 DEF Members
        <3> QED BY <3>1, <1>2, <1>4
    <2>2. Len(receipts') <= Len(order')
        BY <1>2, <1>4
    <2>3. ASSUME NEW k \in 1 .. n + 1
          PROVE  receipts'[k] = [stage |-> Described(k)'.stage, sequence |-> receipts'[k].sequence,
                                 result |-> receipts'[k].result, provided |-> receipts'[k].provided]
        <3>1. CASE k \in 1 .. n
            BY <3>1, <1>1, <1>2, <1>4, <1>5 DEF Listing
        <3>2. CASE k = n + 1
            BY <3>2, <1>4, <1>5, <1>6
        <3> QED BY <3>1, <3>2, <1>2
    <2> QED BY <2>1, <2>2, <2>3, <1>4 DEF Listing
<1>9. ASSUME NEW k \in 1 .. n + 1 PROVE Justified(k)' /\ Genuine(k)'
    <2>1. CASE k \in 1 .. n
        <3>1. Justified(k) /\ Genuine(k) /\ receipts'[k] = receipts[k]
            BY <2>1, <1>1, <1>2, <1>4
        <3>2. Justified(k)'
            BY <3>1, <1>5, <1>7 DEF Justified
        <3>3. Genuine(k)'
            BY <3>1, <1>5 DEF Genuine, Claims
        <3> QED BY <3>2, <3>3
    <2>2. CASE k = n + 1
        <3>1. /\ receipts'[k].result = result /\ receipts'[k].sequence = k
              /\ receipts'[k].provided = Claims(Next_stage, result)
            BY <2>2, <1>2, <1>4
        <3>2. Described(k)' = Next_stage /\ Sure(order[k])' = Sure(order[n + 1])
              /\ Met(k)' = Met(n + 1)
            BY <2>2, <1>5, <1>6, <1>7
        <3>3. Justified(k)'
            BY <3>1, <3>2 DEF Justified
        <3>4. Genuine(k)'
            BY <3>1, <3>2 DEF Genuine, Claims
        <3> QED BY <3>3, <3>4
    <2> QED BY <2>1, <2>2, <1>2
<1> QED BY <1>4, <1>8, <1>9 DEF Accounts

(***************************************************************************)
(* The steps of the execution.                                             *)
(***************************************************************************)
(* A ledger begins with a plan, and its facts are the plan's. *)
LEMMA InitReceipts == Init => RInv
<1> SUFFICES ASSUME Init PROVE RInv
    OBVIOUS
<1>1. phase = "build" /\ receipts = <<>>
    BY DEF Init
<1>2. Planful
    <2>1. PICK p \in Plans : descriptors = p.stages /\
              trial = [tamper |-> p.tamper, machines |-> p.machines, expect |-> p.expect,
                       never |-> p.never]
        BY DEF Init
    <2>2. trial.machines = p.machines
        BY <2>1
    <2> QED BY <1>1, <2>1, <2>2 DEF Planful, PlanOf
<1>3. StagesApart /\ NoneYet /\ Accounts /\ PublishedIsHonest
    BY <1>1 DEF StagesApart, NoneYet, Accounts, PublishedIsHonest
<1> QED BY <1>2, <1>3, InitHolds DEF RInv

(* An execution that begins has no receipts to answer for. *)
LEMMA ExecutionBegins ==
    ASSUME RInv, phase = "plan", phase' = "execute", UNCHANGED receipts, IInv'
    PROVE  Accounts'
<1>1. receipts' = <<>> /\ DOMAIN receipts' = {} /\ Len(receipts') = 0
    BY DEF RInv, NoneYet
<1>2. Len(order') \in Nat
    BY DEF IInv, Distinct
<1>3. Listing'
    <2>1. receipts' \in Seq(Members(receipts'))
        BY <1>1
    <2> QED BY <1>1, <1>2, <2>1 DEF Listing
<1> QED BY <1>1, <1>3 DEF Accounts

(* A stage without its requirements is skipped without being asked. *)
LEMMA UnreadyAccounts ==
    ASSUME RInv, execute_stage_unready, phase' = "execute"
    PROVE  Accounts'
<1>1. Running /\ append_receipt(Next_stage, "skipped") /\ ~Next_stage.mandatory
    BY DEF execute_stage_unready, Panic
<1>2. Established(receipts) = Granted(Len(receipts) + 1)
    BY <1>1, EstablishedIsGranted DEF RInv, Accounts, Running
<1>3. ~Met(Len(receipts) + 1)
    BY <1>2 DEF execute_stage_unready, Met, Requires, Next_stage
<1> QED BY <1>1, <1>3, OneMoreReceipt DEF execute_stage_unready

(* A stage that ran its executor had all it requires; if the executor cannot
   fail, it ran. *)
LEMMA ExecutedAccounts ==
    ASSUME RInv, execute_stage, phase' = "execute"
    PROVE  Accounts'
<1> DEFINE d == Next_stage
           done == Walk(d.execute.steps, facts)
<1>1. Running /\ Members(d.required) \subseteq Established(receipts)
    BY DEF execute_stage
<1>2. PICK result \in Outcomes(d, d.execute, done.stopped) :
        /\ asked' = asked \cup {d.stage}
        /\ CASE result = "panicked" ->
                  Panic("console_panic") /\ UNCHANGED <<facts, receipts, degraded>>
             [] result = "undeclared" ->
                  /\ Panic("UNDECLARED_CAPABILITY_PROVIDED")
                  /\ UNCHANGED <<facts, receipts, degraded>>
             [] OTHER ->
                  /\ append_receipt(d, result)
                  /\ CASE result = "ran" -> facts' = done.facts
                       [] result = "skipped" -> UNCHANGED facts
                       [] OTHER -> \E n \in 0 .. Len(d.execute.steps) :
                            facts' = Walk(SubSeq(d.execute.steps, 1, n), facts).facts
                  /\ IF d.mandatory /\ result # "ran"
                     THEN Panic(IF result = "failed" THEN "REQUIRED_STAGE_FAILED"
                                                     ELSE "REQUIRED_STAGE_SKIPPED")
                     ELSE UNCHANGED <<phase, status>>
        /\ UNCHANGED <<trial, descriptors, machine, order>>
    BY Zenon DEF execute_stage
<1> HIDE DEF done
<1>3. append_receipt(d, result) /\ (d.mandatory => result = "ran")
    <2>1. result # "panicked" /\ result # "undeclared"
        BY <1>2, Zenon DEF Panic
    <2>2. /\ append_receipt(d, result)
          /\ IF d.mandatory /\ result # "ran"
             THEN Panic(IF result = "failed" THEN "REQUIRED_STAGE_FAILED"
                                             ELSE "REQUIRED_STAGE_SKIPPED")
             ELSE UNCHANGED <<phase, status>>
        BY <1>2, <2>1, Zenon
    <2> QED BY <2>2, Zenon DEF Panic
<1>4. Established(receipts) = Granted(Len(receipts) + 1)
    BY <1>1, EstablishedIsGranted DEF RInv, Accounts, Running
<1>5. Met(Len(receipts) + 1)
    BY <1>1, <1>4 DEF Met, Requires, Next_stage
<1>6. Sure(order[Len(receipts) + 1]) => result = "ran"
    <2> SUFFICES ASSUME Sure(order[Len(receipts) + 1]) PROVE result = "ran"
        OBVIOUS
    <2>1. /\ d.execute.insists = <<>> /\ d.execute.needs = {} /\ d.execute.ends = {"ran"}
          /\ {"NONE", machine.scenario} \subseteq d.execute.when
        BY DEF Sure, Next_stage
    <2>2. ContractHolds(d.required, d.execute.insists)
        BY <2>1 DEF ContractHolds
    <2>3. Scenario(facts) \in d.execute.when /\ d.execute.needs \subseteq machine.present
        BY <2>1 DEF Scenario
    <2>4. Outcomes(d, d.execute, done.stopped) = {"ran"}
        BY <2>1, <2>2, <2>3, Zenon DEF Outcomes
    <2> QED BY <2>4
<1>7. d.stage \in asked' /\ asked \subseteq asked'
    BY <1>2
<1> QED BY <1>1, <1>2, <1>3, <1>5, <1>6, <1>7, OneMoreReceipt, phase' = "execute"

(* At the end of the execution a self test may forge the first receipt: its
   sequence or what it provides, but not its result. *)
LEMMA EndAccounts ==
    ASSUME RInv, boot_ledger_execute_ends
    PROVE  Accounts'
<1>1. phase = "execute" /\ Len(receipts) = Len(order) /\ phase' = "verify"
    BY DEF boot_ledger_execute_ends
<1>2. Listing /\ (\A k \in DOMAIN receipts : Justified(k) /\ Genuine(k))
    BY <1>1 DEF RInv, Accounts
<1>3. receipts' = Forged(receipts, trial.tamper)
    BY DEF boot_ledger_execute_ends
<1>4. UNCHANGED <<trial, descriptors, machine, asked, order>>
    BY DEF boot_ledger_execute_ends
<1>5. Len(receipts) \in Nat /\ DOMAIN receipts = 1 .. Len(receipts)
    BY <1>2 DEF Listing
<1>6. /\ receipts' \in Seq(Members(receipts')) /\ Len(receipts') = Len(receipts)
      /\ DOMAIN receipts' = DOMAIN receipts
      /\ \A k \in DOMAIN receipts :
            /\ receipts'[k] = [stage |-> receipts[k].stage, sequence |-> receipts'[k].sequence,
                               result |-> receipts[k].result, provided |-> receipts'[k].provided]
            /\ trial.tamper = "none" => receipts'[k] = receipts[k]
    <2>1. CASE trial.tamper = "sequence"
        <3>1. receipts' = [receipts EXCEPT ![1].sequence = @ + 1]
            BY <1>3, <2>1 DEF Forged
        <3>2. receipts' = [k \in 1 .. Len(receipts) |->
                  IF k = 1 THEN [receipts[1] EXCEPT !.sequence = @ + 1] ELSE receipts[k]]
            BY <3>1, <1>5
        <3> QED BY <3>2, <1>2, <1>5, <2>1 DEF Listing, Members
    <2>2. CASE trial.tamper = "capability"
        <3>1. receipts' = [receipts EXCEPT ![1].provided = {"HEAP_AVAILABLE"}]
            BY <1>3, <2>2 DEF Forged
        <3>2. receipts' = [k \in 1 .. Len(receipts) |->
                  IF k = 1 THEN [receipts[1] EXCEPT !.provided = {"HEAP_AVAILABLE"}] ELSE receipts[k]]
            BY <3>1, <1>5
        <3>3. receipts' \in Seq(Members(receipts')) /\ DOMAIN receipts' = DOMAIN receipts
              /\ Len(receipts') = Len(receipts)
            BY <3>2, <1>5 DEF Members
        <3>4. ASSUME NEW k \in DOMAIN receipts
              PROVE  receipts'[k] = [stage |-> receipts[k].stage, sequence |-> receipts'[k].sequence,
                                     result |-> receipts[k].result, provided |-> receipts'[k].provided]
            <4>1. receipts[k] = [stage |-> receipts[k].stage, sequence |-> receipts[k].sequence,
                                 result |-> receipts[k].result, provided |-> receipts[k].provided]
                BY <1>2 DEF Listing
            <4>2. receipts'[k] = receipts[k]
                  \/ receipts'[k] = [receipts[k] EXCEPT !.provided = {"HEAP_AVAILABLE"}]
                BY <3>2, <1>5
            <4> QED BY <4>1, <4>2
        <3> QED BY <3>3, <3>4, <2>2
    <2>3. CASE trial.tamper \notin {"sequence", "capability"}
        <3>1. receipts' = receipts
            BY <1>3, <2>3 DEF Forged
        <3> QED BY <3>1, <1>2 DEF Listing
    <2> QED BY <2>1, <2>2, <2>3
<1>7. \A k : Described(k)' = Described(k) /\ Sure(order[k])' = Sure(order[k])
             /\ Requires(order[k])' = Requires(order[k])
    BY <1>4 DEF Described, Sure, Requires
<1>8. \A k \in DOMAIN receipts : Granted(k)' = Granted(k) /\ Met(k)' = Met(k)
    <2> SUFFICES ASSUME NEW k \in DOMAIN receipts PROVE Granted(k)' = Granted(k) /\ Met(k)' = Met(k)
        OBVIOUS
    <2>1. \A l \in 1 .. k - 1 : Claims(Described(l), receipts[l].result)' =
                               Claims(Described(l), receipts[l].result)
        <3> TAKE l \in 1 .. k - 1
        <3>1. l \in DOMAIN receipts
            BY <1>5
        <3>2. receipts'[l].result = receipts[l].result
            BY <3>1, <1>6
        <3> QED BY <3>2, <1>7 DEF Claims
    <2>2. Granted(k)' = Granted(k)
        BY <2>1 DEF Granted
    <2> QED BY <2>2, <1>7 DEF Met
<1>9. Listing'
    <2>1. \A k \in DOMAIN receipts' :
            receipts'[k] = [stage |-> Described(k)'.stage, sequence |-> receipts'[k].sequence,
                            result |-> receipts'[k].result, provided |-> receipts'[k].provided]
        <3> TAKE k \in DOMAIN receipts'
        <3>1. receipts[k].stage = Described(k).stage
            BY <1>2, <1>6 DEF Listing
        <3> QED BY <3>1, <1>6, <1>7
    <2> QED BY <2>1, <1>1, <1>2, <1>4, <1>6 DEF Listing
<1>10. ASSUME NEW k \in DOMAIN receipts'
       PROVE  Justified(k)' /\ (trial.tamper = "none" => Genuine(k)')
    <2>1. receipts'[k].result = receipts[k].result
        BY <1>6
    <2>2. Justified(k)'
        BY <2>1, <1>2, <1>4, <1>6, <1>7, <1>8 DEF Justified
    <2>3. trial.tamper = "none" => Genuine(k)'
        BY <1>2, <1>6, <1>7 DEF Genuine, Claims
    <2> QED BY <2>2, <2>3
<1>11. Len(receipts') = Len(order') /\ Len(order') = Len(descriptors')
    BY <1>1, <1>4, <1>6 DEF RInv, IInv, Complete
<1> QED BY <1>1, <1>4, <1>9, <1>10, <1>11 DEF Accounts

(***************************************************************************)
(* The verification.                                                       *)
(***************************************************************************)
(* verify_receipt_set lets receipts through only if each passes by itself. *)
LEMMA NoReceiptRefused ==
    ASSUME NEW r, Len(r) \in Nat, DOMAIN r = 1 .. Len(r), verify_receipt_set(r) = "OK"
    PROVE  Len(r) = Len(order) /\ \A k \in DOMAIN r : ReceiptRefusal(r, k) = "OK"
<1> DEFINE refused == {k \in DOMAIN r : ReceiptRefusal(r, k) # "OK"}
<1>1. verify_receipt_set(r) = IF Len(r) # Len(order) THEN "RECEIPT_MISMATCH"
                              ELSE IF refused = {} THEN "OK"
                              ELSE ReceiptRefusal(r, First(refused))
    BY Zenon DEF verify_receipt_set
<1>2. refused # {} => First(refused) \in refused
    <2>1. refused \subseteq Nat
        OBVIOUS
    <2> HIDE DEF refused
    <2> QED BY <2>1, FirstIsLeast
<1>3. refused # {} => ReceiptRefusal(r, First(refused)) # "OK"
    BY <1>2
<1>4. Len(r) = Len(order) /\ refused = {}
    <2> HIDE DEF refused
    <2> QED BY <1>1, <1>3
<1> QED BY <1>4

(* What a descriptor declares for a result is a finite set. *)
LEMMA ClaimsFinite ==
    ASSUME IInv, NEW k \in DOMAIN order, NEW result
    PROVE  IsFiniteSet(Claims(Described(k), result))
<1>1. ASSUME NEW s, s \in Seq(Members(s)) PROVE IsFiniteSet(Members(s))
    <2>1. Len(s) \in Nat /\ DOMAIN s = 1 .. Len(s)
        BY <1>1
    <2>2. IsFiniteSet(1 .. Len(s))
        BY <2>1, FS_Interval
    <2>3. s \in Surjection(1 .. Len(s), Members(s))
        BY <1>1, <2>1 DEF Surjection, Members
    <2> QED BY <2>2, <2>3, FS_Surjection
<1>2. order[k] \in DOMAIN descriptors
    BY Places
<1>3. \A s \in {Described(k).provided, Described(k).skipped} : s \in Seq(Members(s))
    BY <1>2 DEF IInv, Shape, IsPlan, Described
<1>4. IsFiniteSet(Members(Described(k).provided)) /\ IsFiniteSet(Members(Described(k).skipped))
    BY <1>1, <1>3
<1>5. IsFiniteSet({})
    BY FS_EmptySet
<1> QED BY <1>4, <1>5 DEF Claims

(* Receipts the verification let through say what their results allow, a
   forged one too, and every mandatory stage ran. *)
LEMMA VerifiedReceipts ==
    ASSUME RInv, phase = "verify", verify_receipt_set(receipts) = "OK"
    PROVE  /\ DOMAIN receipts = DOMAIN order
           /\ \A k \in DOMAIN order :
                /\ receipts[k].stage = Described(k).stage
                /\ receipts[k].provided = Claims(Described(k), receipts[k].result)
                /\ Described(k).mandatory => receipts[k].result = "ran"
<1>1. Listing
    BY DEF RInv, Accounts
<1>2. Len(receipts) \in Nat /\ DOMAIN receipts = 1 .. Len(receipts)
    BY <1>1 DEF Listing
<1>3. Len(receipts) = Len(order) /\ (\A k \in DOMAIN receipts : ReceiptRefusal(receipts, k) = "OK")
    BY <1>2, NoReceiptRefused
<1>4. DOMAIN receipts = DOMAIN order
    BY <1>2, <1>3, Places DEF RInv
<1>5. ASSUME NEW k \in DOMAIN order
      PROVE  /\ receipts[k].stage = Described(k).stage
             /\ receipts[k].provided = Claims(Described(k), receipts[k].result)
             /\ Described(k).mandatory => receipts[k].result = "ran"
    <2> DEFINE declared == Claims(Described(k), receipts[k].result)
               granted == receipts[k].provided
    <2>1. ReceiptRefusal(receipts, k) = "OK"
        BY <1>3, <1>4
    <2>2. /\ ~(receipts[k].stage # Described(k).stage \/ receipts[k].sequence # k)
          /\ ~(Described(k).mandatory /\ receipts[k].result # "ran")
          /\ Cardinality(granted) = Cardinality(declared)
          /\ granted \subseteq declared
        <3> DEFINE before == UNION {receipts[l].provided : l \in 1 .. k - 1}
        <3>1. ReceiptRefusal(receipts, k) =
                CASE receipts[k].stage # Described(k).stage \/ receipts[k].sequence # k ->
                       "INSTALLED_PLAN_DIFFERS_VALIDATED_PLAN"
                  [] Described(k).mandatory /\ receipts[k].result # "ran" -> "RECEIPT_MISMATCH"
                  [] receipts[k].result # "skipped" /\ ~(Members(Described(k).required) \subseteq before) ->
                       "STAGE_EXECUTED_BEFORE_REQUIREMENTS"
                  [] Cardinality(granted) # Cardinality(declared) -> "RECEIPT_MISMATCH"
                  [] ~(granted \subseteq declared) -> "UNDECLARED_CAPABILITY_PROVIDED"
                  [] granted \cap before # {} -> "DUPLICATE_CAPABILITY_PROVIDER"
                  [] OTHER -> "OK"
            BY Zenon DEF ReceiptRefusal, Described
        <3> HIDE DEF before, declared, granted
        <3> QED BY <3>1, <2>1
    <2>3. IsFiniteSet(declared)
        BY ClaimsFinite DEF RInv
    <2>4. granted = declared
        <3> HIDE DEF granted, declared
        <3> QED BY <2>2, <2>3, FS_Subset
    <2> QED BY <2>2, <2>4
<1> QED BY <1>4, <1>5

(* What a descriptor gives when it runs or is skipped, it provides. *)
LEMMA ClaimsProvided ==
    ASSUME IInv, NEW i \in Indices
    PROVE  /\ Members(descriptors[i].provided) \subseteq Provides(i)
           /\ Members(descriptors[i].skipped) \subseteq Provides(i)
<1> DEFINE a == descriptors[i].provided
           b == descriptors[i].skipped
<1>1. a \in Seq(Members(a)) /\ b \in Seq(Members(b))
    BY DEF IInv, Shape, IsPlan, Indices
<1>2. /\ Len(a) \in Nat /\ Len(b) \in Nat /\ DOMAIN a = 1 .. Len(a) /\ DOMAIN b = 1 .. Len(b)
      /\ DOMAIN (a \o b) = 1 .. Len(a) + Len(b)
      /\ \A k \in 1 .. Len(a) : (a \o b)[k] = a[k]
      /\ \A k \in 1 .. Len(b) : (a \o b)[Len(a) + k] = b[k]
    <2>1. a \in Seq(Members(a) \cup Members(b)) /\ b \in Seq(Members(a) \cup Members(b))
        BY <1>1
    <2> HIDE DEF a, b
    <2> QED BY <1>1, <2>1
<1>3. Provides(i) = {(a \o b)[k] : k \in 1 .. Len(a) + Len(b)}
    BY <1>2 DEF Provides, Members
<1>4. Members(a) \subseteq Provides(i)
    <2> HIDE DEF a, b
    <2> QED BY <1>2, <1>3 DEF Members
<1>5. Members(b) \subseteq Provides(i)
    <2> HIDE DEF a, b
    <2>1. \A k \in 1 .. Len(b) : Len(a) + k \in 1 .. Len(a) + Len(b)
        BY <1>2
    <2> QED BY <1>2, <1>3, <2>1 DEF Members
<1> QED BY <1>4, <1>5

(* The stage that provides what another requires has its place before it. *)
LEMMA ProviderPlaced ==
    ASSUME IInv, phase \notin {"build", "panic"}, NEW k \in DOMAIN order,
           NEW c \in Requires(order[k]), NEW j \in Indices, c \in Provides(j)
    PROVE  \E l \in 1 .. k - 1 : l \in DOMAIN order /\ order[l] = j
<1>1. PICK l \in 1 .. k - 1 : c \in Provides(order[l])
    <2>1. c \in Offered(Placed(k))
        BY DEF IInv, Supplied
    <2> QED BY <2>1 DEF Offered, Placed
<1>2. l \in DOMAIN order
    BY <1>1, Places
<1>3. order[l] = j
    BY <1>1, <1>2, Places DEF IInv, Accepted
<1> QED BY <1>1, <1>2, <1>3

(* A capability a mandatory stage provides is granted before any stage that
   requires it. *)
LEMMA GuaranteeKept ==
    ASSUME RInv, phase = "verify", verify_receipt_set(receipts) = "OK",
           NEW p, PlanOf(p), NEW k \in DOMAIN order, NEW c \in Requires(order[k]),
           Guaranteed(p, c)
    PROVE  c \in Granted(k)
<1>1. PICK j \in Indices : c \in Members(descriptors[j].provided) /\ descriptors[j].mandatory
    BY DEF Guaranteed, PlanOf, Indices
<1>2. PICK l \in 1 .. k - 1 : l \in DOMAIN order /\ order[l] = j
    BY <1>1, ClaimsProvided, ProviderPlaced DEF RInv
<1>3. receipts[l].result = "ran"
    BY <1>1, <1>2, VerifiedReceipts DEF Described
<1>4. c \in Claims(Described(l), receipts[l].result)
    BY <1>1, <1>2, <1>3 DEF Claims, Described
<1> QED BY <1>2, <1>4 DEF Granted

(* A stage has one receipt. *)
LEMMA OneReceipt ==
    ASSUME RInv, phase = "verify", verify_receipt_set(receipts) = "OK",
           NEW l \in DOMAIN order, NEW result
    PROVE  With(receipts, Described(l).stage, result) <=> receipts[l].result = result
<1>1. DOMAIN receipts = DOMAIN order /\ \A k \in DOMAIN order : receipts[k].stage = Described(k).stage
    BY VerifiedReceipts
<1>2. ASSUME NEW k \in DOMAIN order, Described(k).stage = Described(l).stage PROVE k = l
    <2>1. order[k] = order[l]
        BY <1>2, Places DEF RInv, StagesApart, Described
    <2> QED BY <2>1 DEF RInv, IInv, Distinct
<1> QED BY <1>1, <1>2 DEF With

(* What was checked of a decided proof: its stage ran or was skipped. *)
LEMMA DecidedEnds ==
    ASSUME RInv, phase = "verify", verify_receipt_set(receipts) = "OK", ProofsDecided(receipts),
           NEW l \in DOMAIN order, Decides(Described(l).stage)
    PROVE  receipts[l].result \in {"ran", "skipped"}
<1>1. PICK d \in DecidedProofs : d[1] = Described(l).stage
    BY DEF Decides
<1> DEFINE complete == d[2] \in Established(receipts)
           absent == d[3] \in Established(receipts)
<1>2. PlannedStage(d[1])
    BY <1>1, Places DEF RInv, PlannedStage, Described
<1>3. /\ optional_outcome_valid(PlannedStage(d[1]), complete, absent)
      /\ complete => With(receipts, d[1], "ran")
      /\ absent => With(receipts, d[1], "skipped")
    BY Zenon DEF ProofsDecided
<1>4. complete \/ absent
    <2>1. complete # absent
        BY <1>2, <1>3 DEF optional_outcome_valid
    <2> QED BY <2>1
<1>5. With(receipts, d[1], "ran") \/ With(receipts, d[1], "skipped")
    BY <1>3, <1>4, Zenon
<1> QED BY <1>1, <1>5, OneReceipt

(* Of a stage that may report an absence the executor was asked: all it
   requires was granted, whatever failed. *)
LEMMA OutcomeFound ==
    ASSUME RInv, phase = "verify", verify_receipt_set(receipts) = "OK", ProofsDecided(receipts),
           NEW k \in DOMAIN order,
           Described(k).skipped # <<>> \/ Decides(Described(k).stage)
    PROVE  Described(k).stage \in asked
<1>1. PICK p \in Plans : PlanOf(p)
    BY DEF RInv, Planful
<1>2. order[k] \in Indices /\ Indices = DOMAIN p.stages /\ descriptors = p.stages
    BY <1>1, Places DEF RInv, PlanOf, Indices
<1>3. ASSUME NEW c \in Requires(order[k]) PROVE c \in Granted(k)
    <2>1. \/ Guaranteed(p, c)
          \/ \E j \in DOMAIN p.stages :
                /\ c \in Members(p.stages[j].provided)
                /\ \/ Decides(p.stages[j].stage) /\ c \in Members(p.stages[j].skipped)
                   \/ /\ CannotFail(p, j)
                      /\ \A b \in Members(p.stages[j].required) : Guaranteed(p, b)
        <3>1. OutcomesAssured(p)
            BY OutcomesAssumption
        <3> QED BY <3>1, <1>2, <1>3 DEF OutcomesAssured, Requires, Described
    <2>2. CASE Guaranteed(p, c)
        BY <2>2, <1>1, <1>3, GuaranteeKept
    <2>3. ASSUME NEW j \in Indices, c \in Members(descriptors[j].provided),
                 \/ Decides(descriptors[j].stage) /\ c \in Members(descriptors[j].skipped)
                 \/ CannotFail(p, j) /\ \A b \in Requires(j) : Guaranteed(p, b)
          PROVE  c \in Granted(k)
        <3>1. PICK l \in 1 .. k - 1 : l \in DOMAIN order /\ order[l] = j
            BY <2>3, <1>3, ClaimsProvided, ProviderPlaced DEF RInv
        <3>2. Described(l) = descriptors[j]
            BY <3>1 DEF Described
        <3>3. CASE Decides(descriptors[j].stage) /\ c \in Members(descriptors[j].skipped)
            <4>1. receipts[l].result \in {"ran", "skipped"}
                BY <3>1, <3>2, <3>3, DecidedEnds
            <4>2. c \in Claims(Described(l), receipts[l].result)
                BY <4>1, <3>2, <3>3, <2>3 DEF Claims
            <4> QED BY <4>2, <3>1 DEF Granted
        <3>4. CASE CannotFail(p, j) /\ \A b \in Requires(j) : Guaranteed(p, b)
            <4>1. Met(l)
                BY <1>1, <3>1, <3>4, GuaranteeKept DEF Met
            <4>2. Sure(order[l])
                BY <1>1, <1>2, <3>1, <3>4 DEF PlanOf, CannotFail, Sure
            <4>3. Justified(l)
                BY <3>1, VerifiedReceipts DEF RInv, Accounts
            <4>4. receipts[l].result = "ran"
                BY <4>1, <4>2, <4>3 DEF Justified
            <4>5. c \in Claims(Described(l), receipts[l].result)
                BY <4>4, <3>2, <2>3 DEF Claims
            <4> QED BY <4>5, <3>1 DEF Granted
        <3> QED BY <3>3, <3>4, <2>3
    <2> QED BY <2>1, <2>2, <2>3, <1>2 DEF Requires
<1>4. Justified(k)
    BY VerifiedReceipts DEF RInv, Accounts
<1> QED BY <1>3, <1>4 DEF Justified, Met

(* What is published after such a verification is honest. *)
LEMMA PublishedHonest ==
    ASSUME RInv, boot_ledger_verify_installed
    PROVE  PublishedIsHonest'
<1> SUFFICES ASSUME phase' = "published" PROVE PublishedIsHonest'
    BY DEF PublishedIsHonest
<1>1. /\ phase = "verify" /\ verify_receipt_set(receipts) = "OK"
      /\ ProofsDecided(receipts) /\ FramebufferProved(receipts, facts)
    BY DEF boot_ledger_verify_installed, Panic
<1>2. UNCHANGED <<descriptors, facts, asked, receipts>>
    BY DEF boot_ledger_verify_installed
<1>3. ASSUME NEW d \in DecidedProofs, PlannedStage(d[1])
      PROVE  /\ d[1] \in asked
             /\ With(receipts, d[1], "ran") # With(receipts, d[1], "skipped")
    <2>1. PICK i \in Indices : descriptors[i].stage = d[1]
        BY <1>3 DEF PlannedStage
    <2>2. PICK l \in DOMAIN order : order[l] = i
        <3>1. Len(order) = Len(descriptors)
            BY <1>1 DEF RInv, Accounts
        <3>2. Members(order) = Indices
            BY <3>1, EveryStagePlaced DEF RInv
        <3> QED BY <3>2 DEF Members
    <2>3. Described(l).stage = d[1] /\ Decides(Described(l).stage)
        BY <2>1, <2>2 DEF Described, Decides
    <2>4. d[1] \in asked
        BY <1>1, <2>3, OutcomeFound
    <2>5. receipts[l].result \in {"ran", "skipped"}
        BY <1>1, <2>3, DecidedEnds
    <2>6. /\ With(receipts, d[1], "ran") <=> receipts[l].result = "ran"
          /\ With(receipts, d[1], "skipped") <=> receipts[l].result = "skipped"
        BY <1>1, <2>3, OneReceipt
    <2>7. With(receipts, d[1], "ran") # With(receipts, d[1], "skipped")
        <3>1. With(receipts, d[1], "ran") \in BOOLEAN /\ With(receipts, d[1], "skipped") \in BOOLEAN
            BY DEF With
        <3> QED BY <2>5, <2>6, <3>1
    <2> QED BY <2>4, <2>7
<1>4. ASSUME NEW k \in DOMAIN receipts, receipts[k].result = "skipped", receipts[k].provided # {}
      PROVE  receipts[k].stage \in asked
    <2>1. /\ k \in DOMAIN order /\ receipts[k].stage = Described(k).stage
          /\ receipts[k].provided = Claims(Described(k), "skipped")
        BY <1>1, <1>4, VerifiedReceipts
    <2>2. Members(Described(k).skipped) # {}
        BY <1>4, <2>1 DEF Claims
    <2>3. Described(k).skipped # <<>>
        BY <2>2 DEF Members
    <2> QED BY <1>1, <2>1, <2>3, OutcomeFound
<1>5. FramebufferProved(receipts, facts)' = FramebufferProved(receipts, facts)
    BY <1>2 DEF FramebufferProved, Established
<1>6. \A s : PlannedStage(s)' <=> PlannedStage(s)
    BY <1>2 DEF PlannedStage, Indices
<1>7. \A s, result : With(receipts, s, result)' = With(receipts, s, result)
    BY <1>2 DEF With
<1>8. FramebufferProved(receipts, facts)'
    BY <1>1, <1>5
<1>9. \A d \in DecidedProofs : PlannedStage(d[1])' =>
         /\ d[1] \in asked'
         /\ With(receipts, d[1], "ran")' # With(receipts, d[1], "skipped")'
    BY <1>2, <1>3, <1>6, <1>7
<1>10. \A k \in DOMAIN receipts' :
          receipts'[k].result = "skipped" /\ receipts'[k].provided # {} =>
              receipts'[k].stage \in asked'
    BY <1>2, <1>4
<1> QED BY <1>8, <1>9, <1>10 DEF PublishedIsHonest, DecidedProofs

(***************************************************************************)
(* The theorems about receipts.                                            *)
(***************************************************************************)
(* What is said about descriptors only stays while they do. *)
LEMMA PlanStays ==
    ASSUME RInv, UNCHANGED <<trial, descriptors>>,
           phase' \in {"execute", "verify"} =>
               \/ machine' \in trial.machines
               \/ phase \in {"execute", "verify"} /\ UNCHANGED machine
    PROVE  Planful'
<1>1. PICK p \in Plans : PlanOf(p)
    BY DEF RInv, Planful
<1>2. PlanOf(p)'
    BY <1>1 DEF PlanOf
<1> QED BY <1>2 DEF Planful

(* Stages that are apart stay so. *)
LEMMA StagesStayApart ==
    ASSUME RInv, UNCHANGED descriptors, phase' \notin {"build", "panic"} => phase \notin {"build", "panic"}
    PROVE  StagesApart'
<1> QED BY DEF RInv, StagesApart, Indices

(* Every step keeps the account of the receipts. *)
LEMMA ReceiptsKeep == RInv /\ [Next]_vars => RInv'
<1> SUFFICES ASSUME RInv, [Next]_vars PROVE RInv'
    OBVIOUS
<1>1. IInv'
    BY NextKeeps DEF RInv
<1>2. CASE boot_ledger_validate
    <2>1. UNCHANGED <<trial, descriptors, receipts>> /\ phase = "build" /\ phase' \in {"plan", "panic"}
        BY <1>2 DEF boot_ledger_validate, Panic
    <2>2. phase' = "plan" => PlanRefusal = "OK"
        BY <1>2 DEF boot_ledger_validate, Panic
    <2>3. StagesApart'
        BY <2>1, <2>2, OneDescriptor DEF RInv, IInv, StagesApart, Indices
    <2>4. Planful' /\ NoneYet' /\ Accounts' /\ PublishedIsHonest'
        BY <2>1, PlanStays DEF RInv, NoneYet, Accounts, PublishedIsHonest
    <2> QED BY <1>1, <2>3, <2>4 DEF RInv
<1>3. CASE Select \/ Cycle
    <2>1. UNCHANGED <<trial, descriptors, receipts>> /\ phase = "plan" /\ phase' \in {"plan", "panic"}
        BY <1>3 DEF Select, Cycle, Panic
    <2>2. Planful' /\ StagesApart' /\ NoneYet' /\ Accounts' /\ PublishedIsHonest'
        BY <2>1, PlanStays, StagesStayApart DEF RInv, NoneYet, Accounts, PublishedIsHonest
    <2> QED BY <1>1, <2>2 DEF RInv
<1>4. CASE Planned
    <2>1. UNCHANGED <<trial, descriptors, receipts>> /\ phase = "plan" /\ phase' \in {"execute", "panic"}
        BY <1>4 DEF Planned, Panic
    <2>2. phase' = "execute" => machine' \in trial.machines
        BY <1>4 DEF Planned, Panic
    <2>3. Accounts'
        BY <1>1, <2>1, ExecutionBegins DEF Accounts
    <2>4. Planful' /\ StagesApart' /\ NoneYet' /\ PublishedIsHonest'
        BY <2>1, <2>2, PlanStays, StagesStayApart DEF NoneYet, PublishedIsHonest
    <2> QED BY <1>1, <2>3, <2>4 DEF RInv
<1>5. ASSUME UNCHANGED <<trial, descriptors, machine>>, phase = "execute",
             phase' \in {"execute", "panic"}, phase' = "execute" => Accounts'
      PROVE  RInv'
    <2>1. Accounts'
        BY <1>5 DEF Accounts
    <2>2. Planful' /\ StagesApart' /\ NoneYet' /\ PublishedIsHonest'
        BY <1>5, PlanStays, StagesStayApart DEF NoneYet, PublishedIsHonest
    <2> QED BY <1>1, <2>1, <2>2 DEF RInv
<1>6. CASE execute_stage_unready
    <2>1. UNCHANGED <<trial, descriptors, machine>> /\ phase = "execute" /\ phase' \in {"execute", "panic"}
        BY <1>6 DEF execute_stage_unready, Running, Panic
    <2> QED BY <2>1, <1>5, <1>6, UnreadyAccounts
<1>7. CASE execute_stage
    <2>1. UNCHANGED <<trial, descriptors, machine>> /\ phase = "execute"
        BY <1>7 DEF execute_stage, Running
    <2>2. phase' \in {phase, "panic"}
        BY <1>7, Zenon DEF execute_stage, Panic
    <2> QED BY <2>1, <2>2, <1>5, <1>7, ExecutedAccounts
<1>8. CASE boot_ledger_execute_ends
    <2>1. UNCHANGED <<trial, descriptors, machine>> /\ phase = "execute" /\ phase' = "verify"
        BY <1>8 DEF boot_ledger_execute_ends
    <2>2. Accounts'
        BY <1>8, EndAccounts
    <2>3. Planful' /\ StagesApart' /\ NoneYet' /\ PublishedIsHonest'
        BY <2>1, PlanStays, StagesStayApart DEF NoneYet, PublishedIsHonest
    <2> QED BY <1>1, <2>2, <2>3 DEF RInv
<1>9. CASE boot_ledger_verify_installed
    <2>1. UNCHANGED <<trial, descriptors, machine>> /\ phase = "verify" /\ phase' \in {"published", "panic"}
        BY <1>9 DEF boot_ledger_verify_installed, Panic
    <2>2. Planful' /\ StagesApart' /\ NoneYet' /\ Accounts'
        BY <2>1, PlanStays, StagesStayApart DEF NoneYet, Accounts
    <2> QED BY <1>1, <1>9, <2>2, PublishedHonest DEF RInv
<1>10. CASE UNCHANGED vars
    <2>1. UNCHANGED <<trial, descriptors, machine, facts, asked, phase, order, receipts>>
        BY <1>10 DEF vars
    <2>2. Planful' /\ StagesApart' /\ NoneYet'
        BY <2>1, PlanStays, StagesStayApart DEF RInv, NoneYet, Planful, PlanOf
    <2>3. Accounts'
        <3>1. \A k : /\ Described(k)' = Described(k) /\ Sure(order[k])' = Sure(order[k])
                    /\ Granted(k)' = Granted(k) /\ Requires(order[k])' = Requires(order[k])
            BY <2>1 DEF Described, Sure, Granted, Claims, Requires
        <3>2. \A k : Justified(k)' = Justified(k) /\ Genuine(k)' = Genuine(k)
            BY <2>1, <3>1 DEF Justified, Met, Genuine, Claims
        <3>3. Listing' = Listing
            BY <2>1, <3>1 DEF Listing
        <3> QED BY <2>1, <3>2, <3>3 DEF RInv, Accounts
    <2>4. PublishedIsHonest'
        BY <2>1 DEF RInv, PublishedIsHonest, PlannedStage, With, FramebufferProved, Established, Indices
    <2> QED BY <1>1, <2>2, <2>3, <2>4 DEF RInv
<1> QED BY <1>2, <1>3, <1>4, <1>6, <1>7, <1>8, <1>9, <1>10 DEF Next

(* During an execution every receipt is justified by what the receipts before
   it granted, in every reachable state of the ledger. *)
THEOREM ReceiptsInductive == Spec => []RInv
<1> QED BY InitReceipts, ReceiptsKeep, PTL DEF Spec

(* boot_ledger_verify_installed (boot_ledger.c): what it publishes was found
   out.  Whatever stages failed, were skipped or ended undecided, and whatever
   receipt was forged, no proof and no absence is published whose executor was
   not asked. *)
THEOREM PublishedHonestly == Spec => []PublishedIsHonest
<1> QED BY ReceiptsInductive, PTL DEF RInv

(* An execution nobody tampered with leaves receipts that pass. *)
ReceiptsPass == phase = "verify" /\ trial.tamper = "none" => verify_receipt_set(receipts) = "OK"

(* verify_receipt_set (boot_ledger.c) recomputes from the receipts what
   boot_ledger_execute enforced while it made them: of an execution nobody
   tampered with, and of any plan that was accepted, it refuses no receipt. *)
THEOREM ExecutionVerifies == Spec => []ReceiptsPass
<1>1. RInv => ReceiptsPass
    <2> SUFFICES ASSUME RInv, phase = "verify", trial.tamper = "none"
                 PROVE  verify_receipt_set(receipts) = "OK"
        BY DEF ReceiptsPass
    <2>1. /\ Listing /\ Len(receipts) = Len(order)
          /\ \A k \in DOMAIN receipts : Justified(k) /\ Genuine(k)
        BY DEF RInv, Accounts
    <2>2. DOMAIN receipts = DOMAIN order /\ DOMAIN order = 1 .. Len(order)
        BY <2>1, Places DEF RInv, Listing
    <2>3. ASSUME NEW k \in DOMAIN receipts PROVE ReceiptRefusal(receipts, k) = "OK"
        <3> DEFINE before == UNION {receipts[l].provided : l \in 1 .. k - 1}
                   declared == Claims(Described(k), receipts[k].result)
                   granted == receipts[k].provided
        <3>1. Justified(k) /\ Genuine(k) /\ receipts[k].stage = Described(k).stage
            BY <2>1 DEF Listing
        <3>2. before = Granted(k)
            <4>1. \A l \in 1 .. k - 1 : receipts[l].provided = Claims(Described(l), receipts[l].result)
                BY <2>1, <2>2, Places DEF RInv, Genuine
            <4> QED BY <4>1 DEF Granted
        <3>3. receipts[k].sequence = k /\ granted = declared
            BY <3>1 DEF Genuine
        <3>4. receipts[k].result # "skipped" => Members(Described(k).required) \subseteq before
            BY <3>1, <3>2 DEF Justified, Met, Requires, Described
        <3>5. granted \cap before = {}
            <4>1. ASSUME NEW l \in DOMAIN order, NEW result
                  PROVE  Claims(Described(l), result) \subseteq Provides(order[l])
                <5>1. order[l] \in Indices
                    BY Places DEF RInv
                <5> QED BY <5>1, ClaimsProvided DEF RInv, Claims, Described
            <4>2. ASSUME NEW l \in 1 .. k - 1, NEW c \in granted,
                         c \in Claims(Described(l), receipts[l].result)
                  PROVE  FALSE
                <5>1. l \in DOMAIN order /\ k \in DOMAIN order /\ l # k
                    BY <2>2, Places DEF RInv
                <5>2. c \in Provides(order[l]) /\ c \in Provides(order[k])
                    BY <4>1, <4>2, <5>1, <3>3
                <5>3. order[l] = order[k]
                    BY <5>1, <5>2, Places DEF RInv, IInv, Accepted
                <5> QED BY <5>1, <5>3 DEF RInv, IInv, Distinct
            <4> HIDE DEF granted, declared
            <4> QED BY <3>2, <4>2 DEF Granted
        <3>6. Described(k).mandatory => receipts[k].result = "ran"
            BY <3>1 DEF Justified
        <3>7. ReceiptRefusal(receipts, k) =
                CASE receipts[k].stage # Described(k).stage \/ receipts[k].sequence # k ->
                       "INSTALLED_PLAN_DIFFERS_VALIDATED_PLAN"
                  [] Described(k).mandatory /\ receipts[k].result # "ran" -> "RECEIPT_MISMATCH"
                  [] receipts[k].result # "skipped" /\ ~(Members(Described(k).required) \subseteq before) ->
                       "STAGE_EXECUTED_BEFORE_REQUIREMENTS"
                  [] Cardinality(granted) # Cardinality(declared) -> "RECEIPT_MISMATCH"
                  [] ~(granted \subseteq declared) -> "UNDECLARED_CAPABILITY_PROVIDED"
                  [] granted \cap before # {} -> "DUPLICATE_CAPABILITY_PROVIDER"
                  [] OTHER -> "OK"
            BY Zenon DEF ReceiptRefusal, Described
        <3> HIDE DEF before, declared, granted
        <3> QED BY <3>1, <3>3, <3>4, <3>5, <3>6, <3>7
    <2>4. {k \in DOMAIN receipts : ReceiptRefusal(receipts, k) # "OK"} = {}
        BY <2>3
    <2> QED BY <2>1, <2>4 DEF verify_receipt_set
<1> QED BY <1>1, ReceiptsInductive, PTL

===============================================================================
