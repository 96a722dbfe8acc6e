------------------------ MODULE KernelThreadsProofs ------------------------
(***************************************************************************)
(* Proofs about the kernel threads of KernelThreads.tla, for every number  *)
(* of slots, stack size, amount of memory and size of the timer table.     *)
(***************************************************************************)
EXTENDS KernelThreads, FiniteSetTheorems, WellFoundedInduction, TLAPS

State == {"UNUSED", "READY", "RUNNING", "EXITED"}
Tables == [Slot -> State]

(* Without a scheduler nothing is left of one. *)
OffIsEmpty ==
  mode = "off" => table = NoThreads /\ masked = {} /\ ~preemptive

(* A slot in use has its whole stack; the boot thread runs on its own. *)
StacksWhole ==
  /\ pages[Boot] = 0
  /\ \A s \in Slot \ {Boot} :
       pages[s] = IF table[s] = "UNUSED" THEN 0 ELSE StackPages

(* One thread runs, the current one, and the boot thread never leaves. *)
OneRuns ==
  mode # "off" => In("RUNNING") = {current} /\ table[Boot] \in {"READY", "RUNNING"}

(* The counters, and the frames that are neither free nor mapped: none. *)
Counted == books = recount(table, Mapped(Slot)) /\ FramesKept

(* Only a thread that can run has a critical section, and the interrupted  *)
(* thread has none.                                                        *)
Sections ==
  /\ SectionsKept
  /\ mode = "interrupt" => current \notin masked
  /\ \A s \in masked : table[s] \in {"READY", "RUNNING"}

(* The quantum has its entry of the timer table while preemption is on. *)
QuantumArmed ==
  /\ quantum = preemptive
  /\ others + (IF quantum THEN 1 ELSE 0) <= Deadlines
  /\ mode # "panic"

IInv ==
  /\ TypeOK /\ OffIsEmpty /\ StacksWhole /\ OneRuns /\ Counted
  /\ Sections /\ QuantumArmed

-----------------------------------------------------------------------------
(* next_ready_slot.                                                        *)

(* A nonempty set of naturals has a least element. *)
LEMMA LeastNatural ==
  ASSUME NEW S \in SUBSET Nat, S # {}
  PROVE  \E n \in S : \A m \in S : n <= m
<1>1. IsWellFoundedOn(OpToRel(<, Nat), Nat)
  BY NatLessThanWellFounded
<1>2. PICK n \in S : \A m \in S : ~ (<<m, n>> \in OpToRel(<, Nat))
  BY <1>1, WFMin
<1>3. ASSUME NEW m \in S, m < n PROVE FALSE
  <2>1. <<m, n>> \in Nat \X Nat /\ <<m, n>>[1] < <<m, n>>[2]
    BY <1>3
  <2>2. <<m, n>> \in OpToRel(<, Nat)
    BY <2>1 DEF OpToRel
  <2> QED BY <2>2, <1>2
<1> QED BY <1>3

LEMMA SlotsAre ==
  /\ Slot \subseteq Nat /\ Boot \in Slot /\ NoSlot \notin Slot
  /\ IsFiniteSet(Slot)
BY SizesAssumption, FS_Interval DEF Slot, Boot, NoSlot

LEMMA DistanceTyped ==
  ASSUME NEW from \in Slot, NEW s \in Slot
  PROVE  Distance(from, s) \in Nat
<1>1. ThreadMax \in Nat \ {0} /\ from \in 0..(ThreadMax - 1) /\ s \in 0..(ThreadMax - 1)
  BY SizesAssumption DEF Slot
<1>2. s - from + ThreadMax - 1 \in Nat
  BY <1>1
<1> QED BY <1>1, <1>2 DEF Distance

(* The slot it returns is ready, if any is, and no ready slot comes sooner *)
(* after the given one.                                                    *)
LEMMA NextReady ==
  ASSUME NEW t \in Tables, NEW from \in Slot
  PROVE  LET next == next_ready_slot(t, from)
             ready == {s \in Slot : t[s] = "READY"}
         IN /\ next \in Slot
            /\ ready = {} => next = from
            /\ ready # {} => /\ t[next] = "READY"
                             /\ \A r \in ready : Distance(from, next) <= Distance(from, r)
<1> DEFINE ready == {s \in Slot : t[s] = "READY"}
           D == {Distance(from, s) : s \in ready}
<1>1. CASE ready = {}
  BY <1>1 DEF next_ready_slot
<1>2. CASE ready # {}
  <2>1. D \in SUBSET Nat /\ D # {}
    BY <1>2, DistanceTyped
  <2>2. \E n \in D : \A m \in D : n <= m
    <3> HIDE DEF D
    <3> QED BY <2>1, LeastNatural
  <2>3. \E s \in ready : \A r \in ready : Distance(from, s) <= Distance(from, r)
    BY <2>2
  <2> DEFINE next == CHOOSE s \in ready :
                       \A r \in ready : Distance(from, s) <= Distance(from, r)
  <2>4. next \in ready /\ \A r \in ready : Distance(from, next) <= Distance(from, r)
    BY <2>3
  <2>5. next_ready_slot(t, from) = next
    BY <1>2 DEF next_ready_slot
  <2> QED BY <1>2, <2>4, <2>5
<1> QED BY <1>1, <1>2

LEMMA LowestIs ==
  ASSUME NEW S \in SUBSET Slot, S # {}
  PROVE  Lowest(S) \in S
<1>1. \E s \in S : \A r \in S : s <= r
  BY SlotsAre, LeastNatural
<1> QED BY <1>1 DEF Lowest

-----------------------------------------------------------------------------
(* The pages mapped for stacks.                                            *)

PagesOf(p, slots) == {page \in slots \X (1..StackPages) : page[2] <= p[page[1]]}

LEMMA DisjointSum ==
  ASSUME NEW A, NEW B, IsFiniteSet(A), IsFiniteSet(B), A \cap B = {}
  PROVE  Cardinality(A \cup B) = Cardinality(A) + Cardinality(B)
<1>1. Cardinality(A) \in Nat /\ Cardinality(B) \in Nat
  BY FS_CardinalityType
<1>2. Cardinality(A \cap B) = 0
  BY FS_EmptySet
<1>3. Cardinality(A \cup B) = Cardinality(A) + Cardinality(B) - Cardinality(A \cap B)
  BY FS_Union
<1> QED BY <1>1, <1>2, <1>3

LEMMA PagesFinite ==
  ASSUME NEW p, NEW S \in SUBSET Slot
  PROVE  IsFiniteSet(PagesOf(p, S)) /\ Cardinality(PagesOf(p, S)) \in Nat
<1>1. IsFiniteSet(S) /\ IsFiniteSet(1..StackPages)
  <2>1. IsFiniteSet(S)
    BY SlotsAre, FS_Subset
  <2>2. IsFiniteSet(1..StackPages)
    BY FS_Interval, SizesAssumption
  <2> QED BY <2>1, <2>2
<1>2. IsFiniteSet(S \X (1..StackPages))
  BY <1>1, FS_Product
<1>3. PagesOf(p, S) \in SUBSET (S \X (1..StackPages))
  BY DEF PagesOf
<1>4. IsFiniteSet(PagesOf(p, S))
  BY <1>2, <1>3, FS_Subset
<1> QED BY <1>4, FS_CardinalityType

(* map_stack maps THREAD_STACK_PAGES pages. *)
LEMMA OneMoreStack ==
  ASSUME NEW p \in [Slot -> 0..StackPages], NEW s \in Slot, p[s] = 0,
         NEW q, q = [p EXCEPT ![s] = StackPages]
  PROVE  Cardinality(PagesOf(q, Slot)) = Cardinality(PagesOf(p, Slot)) + StackPages
<1> DEFINE New == {s} \X (1..StackPages)
<1>1. PagesOf(q, Slot) = PagesOf(p, Slot) \cup New
  BY SizesAssumption DEF PagesOf
<1>2. PagesOf(p, Slot) \cap New = {}
  BY SizesAssumption DEF PagesOf
<1>3. IsFiniteSet(New) /\ Cardinality(New) = StackPages
  <2>1. IsFiniteSet({s}) /\ Cardinality({s}) = 1
    BY FS_Singleton
  <2>2. IsFiniteSet(1..StackPages) /\ Cardinality(1..StackPages) = StackPages
    BY FS_Interval, SizesAssumption
  <2>3. IsFiniteSet(New) /\ Cardinality(New) = Cardinality({s}) * Cardinality(1..StackPages)
    BY <2>1, <2>2, FS_Product
  <2> QED BY <2>1, <2>2, <2>3, SizesAssumption
<1>4. IsFiniteSet(PagesOf(p, Slot)) /\ Cardinality(PagesOf(p, Slot)) \in Nat
  BY PagesFinite
<1>5. Cardinality(PagesOf(p, Slot) \cup New) = Cardinality(PagesOf(p, Slot)) + Cardinality(New)
  BY <1>2, <1>3, <1>4, DisjointSum
<1> QED BY <1>1, <1>3, <1>5

(* unmap_stack on some slots leaves the pages of the others. *)
LEMMA FewerStacks ==
  ASSUME NEW p \in [Slot -> 0..StackPages], NEW S \in SUBSET Slot,
         NEW q, q = [s \in Slot |-> IF s \in S THEN 0 ELSE p[s]]
  PROVE  Cardinality(PagesOf(p, Slot))
           = Cardinality(PagesOf(p, S)) + Cardinality(PagesOf(q, Slot))
<1>1. PagesOf(p, Slot) = PagesOf(p, S) \cup PagesOf(q, Slot)
  BY SizesAssumption DEF PagesOf
<1>2. PagesOf(p, S) \cap PagesOf(q, Slot) = {}
  BY SizesAssumption DEF PagesOf
<1>3. /\ IsFiniteSet(PagesOf(p, S)) /\ Cardinality(PagesOf(p, S)) \in Nat
      /\ IsFiniteSet(PagesOf(q, Slot)) /\ Cardinality(PagesOf(q, Slot)) \in Nat
  BY PagesFinite
<1> QED BY <1>1, <1>2, <1>3, DisjointSum

LEMMA NoStacks ==
  ASSUME NEW p \in [Slot -> {0}]
  PROVE  Cardinality(PagesOf(p, Slot)) = 0
<1>1. PagesOf(p, Slot) = {}
  BY SizesAssumption DEF PagesOf
<1> QED BY <1>1, FS_EmptySet

-----------------------------------------------------------------------------
(* The steps.  Each lemma shows what one handler does to the invariant.    *)

(* The counters follow from a table, as long as no stack changes. *)
LEMMA RecountKeeps ==
  ASSUME Counted, books' = recount(table', books.stack_frames), UNCHANGED <<pages, memory>>
  PROVE  Counted'
<1>1. books.stack_frames = Mapped(Slot)
  BY DEF Counted, recount
<1>2. Mapped(Slot)' = Mapped(Slot)
  BY DEF Mapped
<1>3. FramesKept'
  BY <1>2 DEF Counted, FramesKept, memory
<1>4. books' = recount(table', Mapped(Slot)')
  BY <1>1, <1>2
<1> QED BY <1>3, <1>4 DEF Counted

LEMMA CountedTyped == Counted => DOMAIN books = {"live", "ready", "exited", "stack_frames"}
BY DEF Counted, recount

LEMMA CountedSame ==
  ASSUME Counted, UNCHANGED <<table, books, pages, memory>>
  PROVE  Counted'
BY DEF Counted, FramesKept, Mapped, recount, Count, memory

(* From the table at the time of the switch to the one after it: the next  *)
(* thread runs, and the one that leaves keeps the flag it will resume with.*)
LEMMA SwitchKeeps ==
  ASSUME IInv, mode \in {"thread", "interrupt"}, mode' = "thread",
         NEW t \in Tables, NEW next \in Slot, NEW restore \in BOOLEAN,
         next # current, t[next] = "READY", t[current] \in {"READY", "EXITED"},
         current = Boot => t[current] = "READY",
         \A s \in Slot \ {current} : t[s] = table[s],
         t[current] = "READY" => restore = (current \notin masked),
         masked' = IF t[current] = "EXITED" THEN masked \ {current} ELSE masked,
         Switch(t, next, restore),
         UNCHANGED <<pages, joining, memory, others, preemptive, quantum>>,
         pending' \in BOOLEAN
  PROVE  IInv'
<1>0. TypeOK /\ table \in Tables /\ current \in Slot
  BY DEF IInv, TypeOK, Tables, State
<1>1. /\ table' = [t EXCEPT ![next] = "RUNNING"]
      /\ saved' = [saved EXCEPT ![current] = restore]
      /\ current' = next
      /\ books' = recount(table', books.stack_frames)
      /\ intr' = saved'[next]
  BY DEF Switch
<1>2. /\ table' \in Tables /\ table'[next] = "RUNNING"
      /\ \A s \in Slot \ {next} : table'[s] = t[s]
  BY <1>1 DEF Tables, State
<1>3. /\ saved' \in [Slot -> BOOLEAN] /\ saved'[current] = restore
      /\ \A s \in Slot \ {current} : saved'[s] = saved[s]
  BY <1>0, <1>1 DEF TypeOK
<1>4. table[current] = "RUNNING" /\ \A s \in Slot \ {current} : table[s] # "RUNNING"
  <2>1. In("RUNNING") = {current}
    BY DEF IInv, OneRuns
  <2> QED BY <1>0, <2>1 DEF In
<1>5. table[next] = "READY"
  OBVIOUS
<1>6. Counted'
  BY <1>1, RecountKeeps DEF IInv
<1>7. TypeOK'
  <2>1. masked' \subseteq Slot
    BY <1>0 DEF TypeOK
  <2>2. intr' \in BOOLEAN
    BY <1>1, <1>3
  <2>3. DOMAIN books' = {"live", "ready", "exited", "stack_frames"}
    BY <1>1 DEF recount
  <2> QED BY <1>0, <1>1, <1>2, <1>3, <2>1, <2>2, <2>3 DEF TypeOK, Tables, State, memory
<1>8. OffIsEmpty'
  BY DEF OffIsEmpty
<1>9. StacksWhole'
  <2>1. \A s \in Slot : table'[s] = "UNUSED" <=> table[s] = "UNUSED"
    BY <1>2, <1>4, <1>5
  <2> QED BY <2>1 DEF IInv, StacksWhole
<1>10. OneRuns'
  <2>1. In("RUNNING")' = {next}
    BY <1>2, <1>4 DEF In
  <2>2. table'[Boot] \in {"READY", "RUNNING"}
    BY <1>2, SlotsAre DEF IInv, OneRuns
  <2> QED BY <1>1, <2>1, <2>2 DEF OneRuns
<1>11. Sections'
  <2>1. saved[next] = (next \notin masked)
    BY <1>5 DEF IInv, Sections, SectionsKept, In
  <2>2. next \in masked' <=> next \in masked
    OBVIOUS
  <2>3. intr' = (current' \notin masked')
    BY <1>1, <1>3, <2>1, <2>2
  <2>4. ASSUME NEW s \in Slot, table'[s] = "READY"
        PROVE  saved'[s] = (s \notin masked')
    <3>1. s # next /\ t[s] = "READY"
      BY <1>2, <2>4
    <3>2. CASE s = current
      BY <1>3, <3>1, <3>2
    <3>3. CASE s # current
      <4>1. s \in In("READY")
        BY <3>1, <3>3 DEF In
      <4>2. saved[s] = (s \notin masked)
        BY <4>1 DEF IInv, Sections, SectionsKept
      <4> QED BY <1>3, <3>3, <4>2
    <3> QED BY <3>2, <3>3
  <2>5. \A s \in masked' : table'[s] \in {"READY", "RUNNING"}
    <3>1. \A s \in masked' : s \in Slot /\ s \in masked
      BY <1>0 DEF TypeOK
    <3> QED BY <1>2, <3>1 DEF IInv, Sections
  <2> QED BY <2>3, <2>4, <2>5 DEF Sections, SectionsKept, In
<1>12. QuantumArmed'
  BY DEF IInv, QuantumArmed
<1> QED BY <1>6, <1>7, <1>8, <1>9, <1>10, <1>11, <1>12 DEF IInv

(* switch_to_next for a thread that stays ready. *)
LEMMA YieldKeeps ==
  ASSUME IInv, mode \in {"thread", "interrupt"}, mode' = "thread",
         NEW restore \in BOOLEAN, restore = (current \notin masked),
         switch_to_next(restore),
         UNCHANGED <<pages, joining, masked, memory, others, preemptive, quantum>>,
         pending' \in BOOLEAN
  PROVE  IInv'
<1>0. TypeOK /\ table \in Tables /\ current \in Slot
  BY DEF IInv, TypeOK, Tables, State
<1> DEFINE next == next_ready_slot(table, current)
<1>1. table[current] = "RUNNING" /\ next \in Slot
  <2>1. In("RUNNING") = {current}
    BY DEF IInv, OneRuns
  <2> QED BY <1>0, <2>1, NextReady DEF In
<1>2. CASE next = current
  <2>1. intr' = restore /\ UNCHANGED <<table, saved, current, books>>
    BY <1>2 DEF switch_to_next
  <2>2. TypeOK'
    BY <1>0, <2>1 DEF TypeOK, memory
  <2>3. Counted'
    BY <2>1, CountedSame DEF IInv
  <2>4. Sections'
    BY <2>1 DEF IInv, Sections, SectionsKept, In
  <2>5. OffIsEmpty' /\ StacksWhole' /\ OneRuns' /\ QuantumArmed'
    BY <2>1 DEF IInv, OffIsEmpty, StacksWhole, OneRuns, QuantumArmed, In
  <2> QED BY <2>2, <2>3, <2>4, <2>5 DEF IInv
<1>3. CASE next # current
  <2>1. Switch(Demoted(table), next, restore)
    BY <1>3 DEF switch_to_next
  <2>2. /\ Demoted(table) \in Tables
        /\ Demoted(table)[current] = "READY"
        /\ \A s \in Slot \ {current} : Demoted(table)[s] = table[s]
    BY <1>0, <1>1 DEF Demoted, Tables, State
  <2>3. table[next] = "READY"
    BY <1>0, <1>3, NextReady
  <2> HIDE DEF next
  <2> QED BY <1>1, <1>3, <2>1, <2>2, <2>3, SwitchKeeps
<1> QED BY <1>2, <1>3

LEMMA ThreadYields ==
  ASSUME IInv, thread_yield \/ join_yield
  PROVE  IInv'
<1>1. /\ mode = "thread" /\ mode' = "thread" /\ switch_to_next(intr)
      /\ UNCHANGED <<pages, joining, masked, memory, others, preemptive, quantum, pending>>
  BY DEF thread_yield, join_yield, Client
<1>2. intr \in BOOLEAN /\ intr = (current \notin masked) /\ pending \in BOOLEAN
  BY <1>1 DEF IInv, TypeOK, Sections, SectionsKept
<1> QED BY <1>1, <1>2, YieldKeeps

LEMMA InterruptReturns ==
  ASSUME IInv, thread_on_interrupt_return
  PROVE  IInv'
<1>1. /\ mode = "interrupt" /\ mode' = "thread" /\ pending' = FALSE
      /\ UNCHANGED <<pages, joining, masked, preemptive, quantum, others, memory>>
  BY DEF thread_on_interrupt_return
<1>2. current \notin masked
  BY <1>1 DEF IInv, Sections
<1>3. CASE pending
  <2>1. switch_to_next(TRUE)
    BY <1>3 DEF thread_on_interrupt_return
  <2> QED BY <1>1, <1>2, <2>1, YieldKeeps
<1>4. CASE ~pending
  <2>1. intr' = TRUE /\ UNCHANGED <<table, saved, current, books>>
    BY <1>4 DEF thread_on_interrupt_return
  <2>2. TypeOK'
    BY <1>1, <2>1 DEF IInv, TypeOK, memory
  <2>3. Counted'
    BY <1>1, <2>1, CountedSame DEF IInv
  <2>4. Sections'
    BY <1>1, <1>2, <2>1 DEF IInv, Sections, SectionsKept, In
  <2>5. OffIsEmpty' /\ StacksWhole' /\ OneRuns' /\ QuantumArmed'
    BY <1>1, <2>1 DEF IInv, OffIsEmpty, StacksWhole, OneRuns, QuantumArmed, In
  <2> QED BY <2>2, <2>3, <2>4, <2>5 DEF IInv
<1> QED BY <1>3, <1>4

(* thread_exit always finds a thread to go on with: the boot thread.       *)
LEMMA ThreadExits ==
  ASSUME IInv, thread_exit
  PROVE  IInv'
<1>0. /\ TypeOK /\ table \in Tables /\ current \in Slot /\ current # Boot /\ mode = "thread"
      /\ masked' = masked \ {current}
      /\ UNCHANGED <<pages, joining, preemptive, pending, quantum, others, memory>>
  BY DEF IInv, TypeOK, Tables, State, thread_exit, Client
<1>1. table[current] = "RUNNING" /\ table[Boot] = "READY"
  <2>1. In("RUNNING") = {current} /\ table[Boot] \in {"READY", "RUNNING"}
    BY <1>0 DEF IInv, OneRuns
  <2> QED BY <1>0, <2>1, SlotsAre DEF In
<1>2. /\ Exited(table) \in Tables
      /\ Exited(table)[current] = "EXITED"
      /\ \A s \in Slot \ {current} : Exited(table)[s] = table[s]
  BY <1>0 DEF Exited, Tables, State
<1> DEFINE next == next_ready_slot(Exited(table), current)
<1>3. next \in Slot /\ Exited(table)[next] = "READY"
  <2>1. Boot \in {s \in Slot : Exited(table)[s] = "READY"}
    BY <1>0, <1>1, <1>2, SlotsAre
  <2> QED BY <1>0, <1>2, <2>1, NextReady
<1>4. next # current
  BY <1>2, <1>3
<1>5. Switch(Exited(table), next, FALSE) /\ mode' = mode
  BY <1>4 DEF thread_exit
<1> HIDE DEF next
<1>6. pending' \in BOOLEAN
  BY <1>0 DEF TypeOK
<1> QED BY <1>0, <1>1, <1>2, <1>3, <1>4, <1>5, <1>6, SwitchKeeps

LEMMA ThreadsStart ==
  ASSUME IInv, thread_start
  PROVE  IInv'
<1>0. TypeOK /\ mode = "off" /\ ~intr /\ table = NoThreads /\ Boot \in Slot
  BY SlotsAre DEF IInv, OffIsEmpty, thread_start
<1>1. /\ table' = [NoThreads EXCEPT ![Boot] = "RUNNING"]
      /\ books' = recount(table', 0)
      /\ masked' = {Boot}
      /\ current' = Boot /\ preemptive' = FALSE /\ pending' = FALSE /\ quantum' = FALSE
      /\ mode' = "thread"
      /\ UNCHANGED <<saved, pages, joining, others, frames, free, intr>>
  BY DEF thread_start, memory
<1>2. /\ table' \in Tables /\ table'[Boot] = "RUNNING"
      /\ \A s \in Slot \ {Boot} : table'[s] = "UNUSED" /\ table[s] = "UNUSED"
  BY <1>0, <1>1 DEF NoThreads, Tables, State
<1>3. TypeOK'
  <2>1. DOMAIN books' = {"live", "ready", "exited", "stack_frames"}
    BY <1>1 DEF recount
  <2> QED BY <1>0, <1>1, <1>2, <2>1 DEF TypeOK, Tables, State
<1>4. StacksWhole'
  BY <1>1, <1>2 DEF IInv, StacksWhole
<1>5. OneRuns'
  BY <1>0, <1>1, <1>2 DEF OneRuns, In
<1>6. Counted'
  <2>1. pages \in [Slot -> {0}]
    BY <1>0, <1>2 DEF IInv, TypeOK, StacksWhole
  <2>2. Mapped(Slot) = 0
    BY <2>1, NoStacks DEF Mapped, PagesOf
  <2>3. Mapped(Slot)' = Mapped(Slot)
    BY <1>1 DEF Mapped
  <2> QED BY <1>1, <2>2, <2>3 DEF IInv, Counted, FramesKept
<1>7. Sections'
  <2>1. \A s \in Slot : table'[s] # "READY"
    BY <1>0, <1>2
  <2>2. intr' = FALSE
    BY <1>0, <1>1 DEF TypeOK
  <2> QED BY <1>1, <1>2, <2>1, <2>2 DEF Sections, SectionsKept, In
<1>8. QuantumArmed'
  <2>1. others \in 0..Deadlines
    BY <1>0 DEF TypeOK
  <2>2. others' + (IF quantum' THEN 1 ELSE 0) <= Deadlines
    <3>1. (IF quantum' THEN 1 ELSE 0) = 0 /\ Deadlines \in Nat /\ others' = others
      BY <1>1, SizesAssumption
    <3> QED BY <2>1, <3>1
  <2> QED BY <1>1, <2>2 DEF QuantumArmed
<1> QED BY <1>1, <1>3, <1>4, <1>5, <1>6, <1>7, <1>8 DEF IInv, OffIsEmpty

(* thread_create: a stack and a frame to resume from, or nothing at all. *)
LEMMA ThreadCreated ==
  ASSUME IInv, thread_create
  PROVE  IInv'
<1>0. TypeOK /\ mode = "thread" /\ SizesAssumption
  BY SizesAssumption DEF IInv, thread_create, Client
<1> DEFINE new == Lowest(In("UNUSED") \ {Boot})
<1>1. new \in Slot /\ table[new] = "UNUSED" /\ new # Boot
  <2>1. In("UNUSED") \ {Boot} \in SUBSET Slot /\ In("UNUSED") \ {Boot} # {}
    BY DEF In, thread_create
  <2>2. new \in In("UNUSED") \ {Boot}
    BY <2>1, LowestIs
  <2> QED BY <2>2 DEF In
<1>2. /\ map_stack(new)
      /\ IF free < StackPages
         THEN UNCHANGED <<saved, table, books>>
         ELSE /\ prepare_frame(new)
              /\ table' = [table EXCEPT ![new] = "READY"]
              /\ books' = recount(table', books.stack_frames + StackPages)
      /\ UNCHANGED <<joining, masked, current, preemptive, pending, quantum, others,
                     intr, mode>>
  BY DEF thread_create
<1> HIDE DEF new
<1>3. CASE free < StackPages
  <2>1. UNCHANGED <<pages, memory, saved, table, books>>
    BY <1>2, <1>3 DEF map_stack
  <2> QED BY <1>2, <2>1, CountedSame
          DEF IInv, TypeOK, OffIsEmpty, StacksWhole, OneRuns, Sections, SectionsKept,
              QuantumArmed, In, memory
<1>4. CASE ~(free < StackPages)
  <2>1. /\ free' = free - StackPages /\ frames' = frames
        /\ pages' = [pages EXCEPT ![new] = StackPages]
        /\ saved' = [saved EXCEPT ![new] = TRUE]
        /\ table' = [table EXCEPT ![new] = "READY"]
        /\ books' = recount(table', books.stack_frames + StackPages)
    BY <1>2, <1>4 DEF map_stack, prepare_frame
  <2>2. /\ table' \in Tables /\ table'[new] = "READY"
        /\ \A s \in Slot \ {new} : table'[s] = table[s]
    <3>1. table \in Tables
      BY <1>0 DEF TypeOK, Tables, State
    <3> QED BY <1>1, <2>1, <3>1 DEF Tables, State
  <2>3. /\ pages' \in [Slot -> 0..StackPages] /\ pages'[new] = StackPages
        /\ \A s \in Slot \ {new} : pages'[s] = pages[s]
    BY <1>0, <1>1, <2>1 DEF TypeOK, SizesAssumption
  <2>4. /\ saved' \in [Slot -> BOOLEAN] /\ saved'[new] = TRUE
        /\ \A s \in Slot \ {new} : saved'[s] = saved[s]
    BY <1>0, <1>1, <2>1 DEF TypeOK
  <2>5. free \in Nat /\ frames \in Nat /\ free <= frames /\ StackPages <= free
    <3>1. frames \in Nat /\ free \in 0..frames
      BY <1>0 DEF TypeOK, SizesAssumption
    <3> QED BY <3>1, <1>0, <1>4 DEF SizesAssumption
  <2>6. TypeOK'
    <3>1. DOMAIN books' = {"live", "ready", "exited", "stack_frames"}
      BY <2>1 DEF recount
    <3>2. free' \in 0..frames'
      BY <2>1, <2>5, <1>0 DEF SizesAssumption
    <3> QED BY <1>0, <1>2, <2>1, <2>2, <2>3, <2>4, <3>1, <3>2 DEF TypeOK, Tables, State
  <2>7. StacksWhole'
    BY <1>1, <2>2, <2>3, SlotsAre DEF IInv, StacksWhole
  <2>8. OneRuns'
    <3>1. In("RUNNING")' = In("RUNNING")
      BY <1>1, <2>2 DEF In
    <3> QED BY <1>1, <1>2, <2>2, <3>1, SlotsAre DEF IInv, OneRuns
  <2>9. Counted'
    <3>1. pages[new] = 0
      BY <1>1 DEF IInv, StacksWhole
    <3>2. Mapped(Slot)' = Mapped(Slot) + StackPages
      <4>1. pages \in [Slot -> 0..StackPages]
        BY <1>0 DEF TypeOK
      <4>2. Cardinality(PagesOf(pages', Slot)) = Cardinality(PagesOf(pages, Slot)) + StackPages
        BY <1>1, <2>1, <3>1, <4>1, OneMoreStack
      <4> QED BY <4>2 DEF Mapped, PagesOf
    <3>3. books.stack_frames = Mapped(Slot) /\ free + Mapped(Slot) = frames
      BY DEF IInv, Counted, FramesKept, recount
    <3>4. books' = recount(table', Mapped(Slot)')
      BY <2>1, <3>2, <3>3
    <3>5. Mapped(Slot) \in Nat
      BY PagesFinite DEF Mapped, PagesOf
    <3>6. free' + Mapped(Slot)' = frames'
      BY <1>0, <2>1, <2>5, <3>2, <3>3, <3>5 DEF SizesAssumption
    <3> QED BY <3>4, <3>6 DEF Counted, FramesKept
  <2>10. Sections'
    <3>1. new \notin masked
      BY <1>1 DEF IInv, Sections
    <3>2. ASSUME NEW s \in Slot, table'[s] = "READY" PROVE saved'[s] = (s \notin masked)
      <4>1. CASE s = new
        BY <2>4, <3>1, <4>1
      <4>2. CASE s # new
        <5>1. s \in In("READY")
          BY <2>2, <3>2, <4>2 DEF In
        <5> QED BY <2>4, <4>2, <5>1 DEF IInv, Sections, SectionsKept
      <4> QED BY <4>1, <4>2
    <3>3. \A s \in masked : table'[s] \in {"READY", "RUNNING"}
      BY <1>0, <2>2 DEF IInv, Sections, TypeOK
    <3> QED BY <1>2, <3>2, <3>3 DEF IInv, Sections, SectionsKept, In
  <2>11. OffIsEmpty' /\ QuantumArmed'
    BY <1>0, <1>2 DEF IInv, OffIsEmpty, QuantumArmed
  <2> QED BY <2>6, <2>7, <2>8, <2>9, <2>10, <2>11 DEF IInv
<1> QED BY <1>3, <1>4

(* thread_stop gives back every frame it had mapped. *)
LEMMA ThreadsStop ==
  ASSUME IInv, thread_stop
  PROVE  IInv'
<1>0. TypeOK /\ mode = "thread" /\ current = Boot /\ Boot \in Slot /\ ~intr
      /\ \A s \in Slot \ {Boot} : table[s] \in {"UNUSED", "EXITED"}
  <2>1. \A s \in Slot \ {Boot} : table[s] \notin {"READY", "RUNNING"}
    BY DEF thread_stop, Runnable
  <2> QED BY <2>1, SlotsAre DEF IInv, TypeOK, thread_stop, MayStop, Client
<1>1. /\ free' = free + Mapped(In("EXITED"))
      /\ pages' = [s \in Slot |-> IF table[s] = "EXITED" THEN 0 ELSE pages[s]]
      /\ table' = NoThreads /\ saved' = [s \in Slot |-> FALSE]
      /\ masked' = {} /\ current' = Boot
      /\ books' = recount(table', 0)
      /\ preemptive' = FALSE /\ pending' = FALSE /\ quantum' = FALSE
      /\ mode' = "off"
      /\ UNCHANGED <<joining, others, frames, intr>>
  BY DEF thread_stop
<1>2. pages' \in [Slot -> {0}]
  BY <1>0, <1>1 DEF IInv, StacksWhole
<1>3. \A s \in Slot : table'[s] = "UNUSED"
  BY <1>1 DEF NoThreads
<1>4. /\ Mapped(Slot) = Mapped(In("EXITED")) + Mapped(Slot)'
      /\ Mapped(Slot)' = 0
  <2>1. pages' = [s \in Slot |-> IF s \in In("EXITED") THEN 0 ELSE pages[s]]
    BY <1>1 DEF In
  <2>2. pages \in [Slot -> 0..StackPages] /\ In("EXITED") \in SUBSET Slot
    BY <1>0 DEF TypeOK, In
  <2>3. Cardinality(PagesOf(pages, Slot))
          = Cardinality(PagesOf(pages, In("EXITED"))) + Cardinality(PagesOf(pages', Slot))
    BY <2>1, <2>2, FewerStacks
  <2>4. Cardinality(PagesOf(pages', Slot)) = 0
    BY <1>2, NoStacks
  <2> QED BY <2>3, <2>4 DEF Mapped, PagesOf
<1>5. free + Mapped(Slot) = frames /\ Mapped(Slot) \in Nat /\ Mapped(In("EXITED")) \in Nat
      /\ free \in Nat /\ frames \in Nat
  <2>1. In("EXITED") \in SUBSET Slot
    BY DEF In
  <2>2. Mapped(Slot) \in Nat /\ Mapped(In("EXITED")) \in Nat
    BY <2>1, PagesFinite DEF Mapped, PagesOf
  <2>3. frames \in Nat /\ free \in 0..frames
    BY <1>0, SizesAssumption DEF TypeOK
  <2> QED BY <2>2, <2>3 DEF IInv, Counted, FramesKept
<1>6. free' = frames /\ free' \in Nat
  BY <1>1, <1>4, <1>5
<1>7. Counted'
  BY <1>1, <1>4, <1>5, <1>6 DEF Counted, FramesKept
<1>8. TypeOK'
  <2>1. DOMAIN books' = {"live", "ready", "exited", "stack_frames"}
    BY <1>1 DEF recount
  <2>2. free' \in 0..frames'
    BY <1>1, <1>5, <1>6
  <2>3. table' \in [Slot -> {"UNUSED", "READY", "RUNNING", "EXITED"}]
    BY <1>1 DEF NoThreads
  <2>4. pages' \in [Slot -> 0..StackPages]
    BY <1>2, SizesAssumption
  <2>5. saved' \in [Slot -> BOOLEAN]
    BY <1>1
  <2> QED BY <1>0, <1>1, <2>1, <2>2, <2>3, <2>4, <2>5 DEF TypeOK
<1>9. StacksWhole'
  BY <1>0, <1>2, <1>3 DEF StacksWhole
<1>10. Sections' /\ OneRuns' /\ OffIsEmpty'
  BY <1>1, <1>3 DEF Sections, SectionsKept, OneRuns, OffIsEmpty, In
<1>11. QuantumArmed'
  <2>1. others \in 0..Deadlines
    BY <1>0 DEF TypeOK
  <2>2. others' + (IF quantum' THEN 1 ELSE 0) <= Deadlines
    <3>1. (IF quantum' THEN 1 ELSE 0) = 0 /\ Deadlines \in Nat /\ others' = others
      BY <1>1, SizesAssumption
    <3> QED BY <2>1, <3>1
  <2> QED BY <1>1, <2>2 DEF QuantumArmed
<1> QED BY <1>7, <1>8, <1>9, <1>10, <1>11 DEF IInv

(* A thread's own critical section. *)
LEMMA SectionsMove ==
  ASSUME IInv, cpu_interrupt_disable \/ cpu_interrupt_enable
  PROVE  IInv'
<1>0. TypeOK /\ mode = "thread" /\ current \in Slot /\ table[current] = "RUNNING"
  <2>1. mode = "thread"
    BY DEF cpu_interrupt_disable, cpu_interrupt_enable, Client
  <2>2. In("RUNNING") = {current}
    BY <2>1 DEF IInv, OneRuns
  <2> QED BY <2>1, <2>2 DEF IInv, TypeOK, In
<1>1. /\ UNCHANGED <<table, saved, pages, joining, current, books, preemptive, pending,
                     quantum, others, frames, free, mode>>
      /\ \/ intr' = FALSE /\ masked' = masked \cup {current}
         \/ intr' = TRUE /\ masked' = masked \ {current}
  BY DEF cpu_interrupt_disable, cpu_interrupt_enable, memory
<1>2. TypeOK'
  BY <1>0, <1>1 DEF TypeOK
<1>3. Counted'
  BY <1>1, CountedSame DEF IInv, memory
<1>4. Sections'
  <2>1. intr' = (current \notin masked')
    BY <1>1
  <2>2. \A s \in Slot \ {current} : s \in masked' <=> s \in masked
    BY <1>1
  <2>3. \A s \in In("READY") : saved[s] = (s \notin masked)
    BY DEF IInv, Sections, SectionsKept
  <2>4. \A s \in In("READY") : s \in Slot \ {current}
    BY <1>0 DEF In
  <2>5. \A s \in In("READY") : saved[s] = (s \notin masked')
    BY <2>2, <2>3, <2>4
  <2>6. \A s \in masked' : table[s] \in {"READY", "RUNNING"}
    BY <1>0, <1>1 DEF IInv, Sections
  <2>7. In("READY")' = In("READY")
    BY <1>1 DEF In
  <2> QED BY <1>0, <1>1, <2>1, <2>5, <2>6, <2>7 DEF Sections, SectionsKept
<1>5. OffIsEmpty' /\ StacksWhole' /\ OneRuns' /\ QuantumArmed'
  BY <1>0, <1>1 DEF IInv, OffIsEmpty, StacksWhole, OneRuns, QuantumArmed, In
<1> QED BY <1>2, <1>3, <1>4, <1>5 DEF IInv

(* The steps that leave the table, the stacks and the flags alone. *)
LEMMA QuietKeeps ==
  ASSUME IInv,
         UNCHANGED <<table, saved, pages, masked, current, books, memory>>,
         joining' \in [Slot -> Slot \cup {NoSlot}],
         others' \in 0..Deadlines, pending' \in BOOLEAN, preemptive' \in BOOLEAN,
         quantum' \in BOOLEAN,
         QuantumArmed',
         \/ mode' = mode /\ intr' = intr
         \/ mode = "thread" /\ mode' = "interrupt" /\ intr = TRUE /\ intr' = FALSE,
         preemptive' => preemptive \/ mode = "thread"
  PROVE  IInv'
<1>1. TypeOK /\ mode \in {"off", "thread", "interrupt", "panic"}
  BY DEF IInv, TypeOK
<1>2. TypeOK'
  BY <1>1 DEF TypeOK, memory
<1>3. Counted'
  BY CountedSame DEF IInv
<1>4. Sections'
  BY DEF IInv, Sections, SectionsKept, In
<1>5. StacksWhole' /\ OneRuns'
  BY DEF IInv, StacksWhole, OneRuns, In
<1>6. OffIsEmpty'
  BY DEF IInv, OffIsEmpty
<1> QED BY <1>2, <1>3, <1>4, <1>5, <1>6 DEF IInv

LEMMA JoinSteps ==
  ASSUME IInv, (\E s \in Slot : thread_join(s)) \/ join_return
  PROVE  IInv'
<1>0. TypeOK /\ QuantumArmed
  BY DEF IInv
<1>1. /\ UNCHANGED <<table, saved, pages, masked, current, books, preemptive, pending,
                     quantum, others, memory, intr, mode>>
      /\ joining' \in [Slot -> Slot \cup {NoSlot}]
  BY <1>0 DEF thread_join, join_return, TypeOK
<1>2. QuantumArmed'
  BY <1>0, <1>1 DEF QuantumArmed
<1> QED BY <1>0, <1>1, <1>2, QuietKeeps DEF TypeOK

LEMMA PreemptionSwitches ==
  ASSUME IInv,
         thread_enable_preemption \/ thread_disable_preemption \/ thread_stop_refused
  PROVE  IInv'
<1>0. TypeOK /\ QuantumArmed /\ SizesAssumption
  BY SizesAssumption DEF IInv
<1>1. /\ UNCHANGED <<table, saved, pages, joining, masked, current, books, others,
                     memory, intr, mode>>
      /\ pending' \in BOOLEAN /\ preemptive' \in BOOLEAN /\ quantum' = preemptive'
      /\ mode = "thread"
  BY <1>0 DEF TypeOK, thread_enable_preemption, thread_disable_preemption,
              thread_stop_refused, MayStop, Client
<1>2. QuantumArmed'
  <2>1. CASE thread_enable_preemption
    <3>1. ~TableFull /\ quantum' = TRUE /\ ~quantum
      BY <1>0, <2>1 DEF thread_enable_preemption, QuantumArmed
    <3> QED BY <1>0, <1>1, <3>1 DEF TableFull, QuantumArmed, TypeOK, SizesAssumption
  <2>2. CASE thread_disable_preemption \/ thread_stop_refused
    <3>1. quantum' = FALSE
      BY <2>2 DEF thread_disable_preemption, thread_stop_refused
    <3> QED BY <1>0, <1>1, <3>1 DEF QuantumArmed, TypeOK, SizesAssumption
  <2> QED BY <2>1, <2>2
<1> QED BY <1>0, <1>1, <1>2, QuietKeeps DEF TypeOK

(* The timer's table never has more than its entries, so a quantum that    *)
(* expires finds room for its successor.                                   *)
LEMMA TimerSteps ==
  ASSUME IInv, timer_arm \/ interrupt_entry \/ expire_other \/ quantum_expired
  PROVE  IInv'
<1>0. TypeOK /\ QuantumArmed /\ SizesAssumption /\ others \in Nat /\ Deadlines \in Nat
      /\ quantum \in BOOLEAN /\ preemptive \in BOOLEAN
  BY SizesAssumption DEF IInv, TypeOK
<1>1. CASE timer_arm
  <2>1. /\ UNCHANGED <<table, saved, pages, joining, masked, current, books, preemptive,
                       pending, quantum, memory, intr, mode>>
        /\ others' = others + 1 /\ ~TableFull
    BY <1>1 DEF timer_arm
  <2>2. QuantumArmed' /\ others' \in 0..Deadlines
    BY <1>0, <2>1 DEF QuantumArmed, TableFull
  <2> QED BY <1>0, <2>1, <2>2, QuietKeeps DEF TypeOK
<1>2. CASE interrupt_entry
  <2>1. /\ UNCHANGED <<table, saved, pages, joining, masked, current, books, preemptive,
                       pending, quantum, others, memory>>
        /\ mode = "thread" /\ intr = TRUE /\ intr' = FALSE /\ mode' = "interrupt"
    BY <1>0, <1>2 DEF interrupt_entry, TypeOK
  <2>2. QuantumArmed'
    BY <1>0, <2>1 DEF QuantumArmed
  <2> QED BY <1>0, <2>1, <2>2, QuietKeeps DEF TypeOK
<1>3. CASE expire_other
  <2>1. /\ UNCHANGED <<table, saved, pages, joining, masked, current, books, preemptive,
                       pending, quantum, memory, intr, mode>>
        /\ others' = others - 1 /\ others > 0
    BY <1>3 DEF expire_other
  <2>2. QuantumArmed' /\ others' \in 0..Deadlines
    BY <1>0, <2>1 DEF QuantumArmed
  <2> QED BY <1>0, <2>1, <2>2, QuietKeeps DEF TypeOK
<1>4. CASE quantum_expired
  <2>1. others < Deadlines /\ preemptive
    BY <1>0, <1>4 DEF quantum_expired, QuantumArmed
  <2>2. /\ UNCHANGED <<table, saved, pages, joining, masked, current, books, preemptive,
                       others, memory, intr, mode>>
        /\ quantum' = TRUE /\ pending' \in BOOLEAN
    BY <1>0, <1>4, <2>1 DEF quantum_expired, Room
  <2>3. QuantumArmed'
    BY <1>0, <1>4, <2>1, <2>2 DEF quantum_expired, QuantumArmed
  <2> QED BY <1>0, <2>2, <2>3, QuietKeeps DEF TypeOK
<1> QED BY <1>1, <1>2, <1>3, <1>4

LEMMA SchedulerInit == Init => IInv
<1> SUFFICES ASSUME Init PROVE IInv
  OBVIOUS
<1>1. \A s \in Slot : table[s] = "UNUSED"
  BY DEF Init, NoThreads
<1>2. pages \in [Slot -> {0}]
  BY DEF Init
<1>3. Mapped(Slot) = 0
  BY <1>2, NoStacks DEF Mapped, PagesOf
<1>4. frames \in Nat
  BY SizesAssumption DEF Init
<1>5. Counted
  BY <1>3, <1>4 DEF Init, Counted, FramesKept
<1>6. TypeOK
  <2>1. table \in [Slot -> {"UNUSED", "READY", "RUNNING", "EXITED"}]
    BY DEF Init, NoThreads
  <2>2. pages \in [Slot -> 0..StackPages]
    BY <1>2, SizesAssumption
  <2>3. saved \in [Slot -> BOOLEAN] /\ joining \in [Slot -> Slot \cup {NoSlot}]
    BY DEF Init
  <2>4. current \in Slot /\ others \in 0..Deadlines /\ free \in 0..frames
    BY <1>4, SlotsAre, SizesAssumption DEF Init
  <2>5. DOMAIN books = {"live", "ready", "exited", "stack_frames"}
    BY DEF Init, recount
  <2> QED BY <2>1, <2>2, <2>3, <2>4, <2>5 DEF Init, TypeOK
<1>7. StacksWhole
  BY <1>1, <1>2, SlotsAre DEF StacksWhole
<1>8. Sections
  BY <1>1 DEF Init, Sections, SectionsKept, In
<1>9. OffIsEmpty /\ OneRuns
  BY DEF Init, OffIsEmpty, OneRuns
<1>10. QuantumArmed
  <2>1. quantum = FALSE /\ preemptive = FALSE /\ others = 0 /\ mode = "off"
    BY DEF Init
  <2>2. others + (IF quantum THEN 1 ELSE 0) <= Deadlines
    <3>1. (IF quantum THEN 1 ELSE 0) = 0 /\ Deadlines \in Nat
      BY <2>1, SizesAssumption
    <3> QED BY <2>1, <3>1
  <2> QED BY <2>1, <2>2 DEF QuantumArmed
<1> QED BY <1>5, <1>6, <1>7, <1>8, <1>9, <1>10 DEF IInv

LEMMA SchedulerNext == IInv /\ [Next]_vars => IInv'
<1> SUFFICES ASSUME IInv, [Next]_vars PROVE IInv'
  OBVIOUS
<1>1. CASE UNCHANGED vars
  <2>1. TypeOK' /\ QuantumArmed'
    BY <1>1 DEF vars, memory, IInv, TypeOK, QuantumArmed
  <2> QED BY <1>1, <2>1, QuietKeeps DEF vars, IInv, TypeOK
<1>2. CASE thread_start
  BY <1>2, ThreadsStart
<1>3. CASE thread_create
  BY <1>3, ThreadCreated
<1>4. CASE thread_yield \/ join_yield
  BY <1>4, ThreadYields
<1>5. CASE thread_exit
  BY <1>5, ThreadExits
<1>6. CASE (\E s \in Slot : thread_join(s)) \/ join_return
  BY <1>6, JoinSteps
<1>7. CASE thread_enable_preemption \/ thread_disable_preemption \/ thread_stop_refused
  BY <1>7, PreemptionSwitches
<1>8. CASE thread_stop
  BY <1>8, ThreadsStop
<1>9. CASE cpu_interrupt_disable \/ cpu_interrupt_enable
  BY <1>9, SectionsMove
<1>10. CASE timer_arm \/ interrupt_entry \/ expire_other \/ quantum_expired
  BY <1>10, TimerSteps
<1>11. CASE thread_on_interrupt_return
  BY <1>11, InterruptReturns
<1> QED BY <1>1, <1>2, <1>3, <1>4, <1>5, <1>6, <1>7, <1>8, <1>9, <1>10, <1>11
        DEF Next, Threads

(* What thread.c keeps between any two of its calls and interrupts. *)
THEOREM SchedulerInductive == Spec => []IInv
<1>1. Init => IInv
  BY SchedulerInit
<1>2. IInv /\ [Next]_vars => IInv'
  BY SchedulerNext
<1> QED BY <1>1, <1>2, PTL DEF Spec

(* thread_verify, the frames, "a thread must resume with the interrupt     *)
(* state it was suspended with", and a quantum that always finds room: the *)
(* scheduler's table, stacks, flags and quantum agree under every          *)
(* interleaving of threads and timer interrupts, and nothing panics.       *)
THEOREM SchedulerKept == Spec => []SchedulerExact
<1>1. IInv => SchedulerExact
  BY DEF IInv, StacksWhole, OneRuns, Counted, Sections, QuantumArmed, SchedulerExact,
         RunQueueExact, QuantumAlive
<1> QED BY <1>1, SchedulerInductive, PTL

=============================================================================
