--------------------------- MODULE KernelThreads ---------------------------
(***************************************************************************)
(* Kernel threads on one core (src/kernel/thread.c): the slot table,       *)
(* the round-robin switch, creation, exit, join and stop, and preemption   *)
(* by a quantum that is a deadline of the timer and re-arms itself from    *)
(* its own callback.                                                       *)
(*                                                                         *)
(* The run queue is changed only with interrupts disabled, so each of      *)
(* those stretches is one action; a thread can lose the processor wherever *)
(* its interrupts are enabled: between two of its calls, and in thread_join *)
(* between a look at the target and the next yield.                        *)
(***************************************************************************)
EXTENDS Integers, FiniteSets

CONSTANTS ThreadMax,     \* THREAD_MAX
          StackPages,    \* THREAD_STACK_PAGES
          Memory,        \* how many frames there may be for stacks
          Deadlines      \* entries of the timer table

ASSUME SizesAssumption ==
  /\ ThreadMax \in Nat \ {0} /\ StackPages \in Nat \ {0}
  /\ Memory \subseteq Nat /\ Deadlines \in Nat \ {0}

VARIABLES table,        \* slot -> THREAD_STATE_*
          saved,        \* slot -> the interrupt flag its stack restores
          pages,        \* slot -> mapped pages of its stack
          joining,      \* slot -> the slot it is joining, or NoSlot
          masked,       \* slots whose thread has disabled interrupts itself
          current,      \* current_slot
          books,        \* the counters of struct thread_system_state
          preemptive,   \* state.preemptive
          pending,      \* reschedule_pending
          quantum,      \* whether quantum_identifier names a pending entry
          others,       \* other entries of the timer table
          frames,       \* the frames there are
          free,         \* the free ones of them
          intr,         \* the processor's interrupt flag
          mode          \* "off", "thread", "interrupt" or "panic"

memory == <<frames, free>>
vars == <<table, saved, pages, joining, masked, current, books, preemptive,
          pending, quantum, others, memory, intr, mode>>

Slot == 0..(ThreadMax - 1)
NoSlot == ThreadMax
Boot == 0

In(state) == {s \in Slot : table[s] = state}

(* How many pages are mapped for the stacks of these slots: a stack is     *)
(* mapped from its first page up.                                          *)
Mapped(slots) ==
  Cardinality({page \in slots \X (1..StackPages) : page[2] <= pages[page[1]]})

-----------------------------------------------------------------------------
(***************************************************************************)
(* recount: live, ready and exited from the table as it now is; the number *)
(* of stack frames is kept by map_stack and unmap_stack.                   *)
(***************************************************************************)
Count(t, states) == Cardinality({s \in Slot : t[s] \in states})

recount(t, stack_frames) ==
  [live |-> Count(t, {"READY", "RUNNING"}), ready |-> Count(t, {"READY"}),
   exited |-> Count(t, {"EXITED"}), stack_frames |-> stack_frames]

(* next_ready_slot: the first ready slot after this one, wrapping; this    *)
(* one if there is none.                                                   *)
Distance(from, s) == (s - from + ThreadMax - 1) % ThreadMax

next_ready_slot(t, from) ==
  LET ready == {s \in Slot : t[s] = "READY"}
  IN IF ready = {} THEN from
     ELSE CHOOSE s \in ready :
            \A r \in ready : Distance(from, s) <= Distance(from, r)

-----------------------------------------------------------------------------
(***************************************************************************)
(* thread_start adopts the running context as slot 0; thread_stop gives    *)
(* everything back.                                                        *)
(***************************************************************************)
NoThreads == [s \in Slot |-> "UNUSED"]

Init ==
  /\ table = NoThreads
  /\ saved = [s \in Slot |-> FALSE]
  /\ joining = [s \in Slot |-> NoSlot]
  /\ pages = [s \in Slot |-> 0]
  /\ masked = {} /\ current = Boot
  /\ preemptive = FALSE /\ pending = FALSE
  /\ books = recount(table, 0)
  /\ quantum = FALSE /\ others = 0
  /\ frames \in Memory /\ free = frames
  /\ intr = FALSE /\ mode = "off"

thread_start ==
  /\ mode = "off" /\ ~intr
  /\ table' = [NoThreads EXCEPT ![Boot] = "RUNNING"]
  /\ books' = recount(table', 0)
  /\ masked' = {Boot}
  /\ current' = Boot /\ preemptive' = FALSE /\ pending' = FALSE /\ quantum' = FALSE
  /\ mode' = "thread"
  /\ UNCHANGED <<saved, pages, joining, others, memory, intr>>

(* The current thread is in its own code, not in a join. *)
Client == mode = "thread" /\ joining[current] = NoSlot

(***************************************************************************)
(* map_stack takes and maps one frame per page and unwinds all of them     *)
(* when one is missing.                                                    *)
(***************************************************************************)
Lowest(slots) == CHOOSE s \in slots : \A r \in slots : s <= r

map_stack(s) ==
  IF free < StackPages
  THEN UNCHANGED <<memory, pages>>
  ELSE /\ free' = free - StackPages /\ UNCHANGED frames
       /\ pages' = [pages EXCEPT ![s] = StackPages]

(* prepare_frame: INITIAL_RFLAGS has the interrupt flag set, because "a    *)
(* schedulable thread is an interruptible one".                            *)
prepare_frame_masked(s) == saved' = [saved EXCEPT ![s] = FALSE]

prepare_frame(s) == saved' = [saved EXCEPT ![s] = TRUE]

thread_create ==
  /\ Client /\ ~intr
  /\ In("UNUSED") \ {Boot} # {}
  /\ LET s == Lowest(In("UNUSED") \ {Boot})
     IN /\ map_stack(s)
        /\ IF free < StackPages
           THEN UNCHANGED <<saved, table, books>>
           ELSE /\ prepare_frame(s)
                /\ table' = [table EXCEPT ![s] = "READY"]
                /\ books' = recount(table', books.stack_frames + StackPages)
  /\ UNCHANGED <<joining, masked, current, preemptive, pending, quantum, others,
                 intr, mode>>

-----------------------------------------------------------------------------
(***************************************************************************)
(* switch_to_next, called with `restore' the interrupt state the outgoing  *)
(* thread will go on with: what it had, for a yield; enabled, for the      *)
(* return of an interrupt.  The incoming thread goes on with its own.      *)
(***************************************************************************)
Demoted(t) == [t EXCEPT ![current] = IF @ = "RUNNING" THEN "READY" ELSE @]

Switch(t, next, restore) ==
  /\ table' = [t EXCEPT ![next] = "RUNNING"]
  /\ saved' = [saved EXCEPT ![current] = restore]
  /\ current' = next
  /\ books' = recount(table', books.stack_frames)
  /\ intr' = saved'[next]

switch_to_next_as_resumer(restore) ==
  LET next == next_ready_slot(table, current)
  IN /\ table' = [Demoted(table) EXCEPT ![next] = "RUNNING"]
     /\ current' = next
     /\ books' = recount(table', books.stack_frames)
     /\ intr' = restore
     /\ UNCHANGED saved

switch_to_next(restore) ==
  LET next == next_ready_slot(table, current)
  IN IF next = current
     THEN intr' = restore /\ UNCHANGED <<table, saved, current, books>>
     ELSE Switch(Demoted(table), next, restore)

thread_yield ==
  /\ Client
  /\ switch_to_next(intr)
  /\ UNCHANGED <<pages, joining, masked, preemptive, pending, quantum, others,
                 memory, mode>>

(* The entry function returned.  The stack stays mapped until thread_stop. *)
Exited(t) == [t EXCEPT ![current] = "EXITED"]

thread_exit ==
  /\ Client /\ current # Boot
  /\ LET next == next_ready_slot(Exited(table), current)
     IN IF next = current
        THEN mode' = "panic" /\ UNCHANGED <<table, saved, current, books, intr>>
        ELSE Switch(Exited(table), next, FALSE) /\ UNCHANGED mode
  /\ masked' = masked \ {current}
  /\ UNCHANGED <<pages, joining, preemptive, pending, quantum, others, memory>>

(***************************************************************************)
(* thread_join looks at the target and yields until it has exited.         *)
(***************************************************************************)
thread_join(s) ==
  /\ Client /\ s # current /\ table[s] # "UNUSED"
  /\ joining' = [joining EXCEPT ![current] = s]
  /\ UNCHANGED <<table, saved, pages, masked, current, books, preemptive, pending,
                 quantum, others, memory, intr, mode>>

join_yield ==
  /\ mode = "thread" /\ joining[current] # NoSlot
  /\ table[joining[current]] # "EXITED"
  /\ switch_to_next(intr)
  /\ UNCHANGED <<pages, joining, masked, preemptive, pending, quantum, others,
                 memory, mode>>

join_return ==
  /\ mode = "thread" /\ joining[current] # NoSlot
  /\ table[joining[current]] = "EXITED"
  /\ joining' = [joining EXCEPT ![current] = NoSlot]
  /\ UNCHANGED <<table, saved, pages, masked, current, books, preemptive, pending,
                 quantum, others, memory, intr, mode>>

-----------------------------------------------------------------------------
(***************************************************************************)
(* thread_enable_preemption arms the first quantum; timer_arm refuses it   *)
(* while interrupts are enabled or when the table is full, and preemption  *)
(* stays off.  thread_disable_preemption withdraws it.                     *)
(***************************************************************************)
TableFull == others + (IF quantum THEN 1 ELSE 0) = Deadlines

thread_enable_preemption ==
  /\ Client /\ ~preemptive
  /\ ~intr /\ ~TableFull
  /\ preemptive' = TRUE /\ quantum' = TRUE
  /\ UNCHANGED <<table, saved, pages, joining, masked, current, books, pending,
                 others, memory, intr, mode>>

thread_disable_preemption ==
  /\ Client /\ preemptive
  /\ preemptive' = FALSE /\ quantum' = FALSE /\ pending' = FALSE
  /\ UNCHANGED <<table, saved, pages, joining, masked, current, books, others,
                 memory, intr, mode>>

(***************************************************************************)
(* thread_stop, by the boot thread with interrupts disabled: preemption is *)
(* off from here on, also when a thread that has not exited makes it       *)
(* refuse.                                                                 *)
(***************************************************************************)
MayStop == Client /\ current = Boot /\ ~intr

Runnable == {s \in Slot \ {Boot} : table[s] \in {"READY", "RUNNING"}}

thread_stop_refused ==
  /\ MayStop /\ Runnable # {} /\ preemptive
  /\ preemptive' = FALSE /\ quantum' = FALSE /\ pending' = FALSE
  /\ UNCHANGED <<table, saved, pages, joining, masked, current, books, others,
                 memory, intr, mode>>

(* unmap_stack gives every frame of every exited thread back. *)
thread_stop ==
  /\ MayStop /\ Runnable = {}
  /\ free' = free + Mapped(In("EXITED"))
  /\ pages' = [s \in Slot |-> IF table[s] = "EXITED" THEN 0 ELSE pages[s]]
  /\ table' = NoThreads
  /\ saved' = [s \in Slot |-> FALSE]
  /\ masked' = {} /\ current' = Boot
  /\ books' = recount(table', 0)
  /\ preemptive' = FALSE /\ pending' = FALSE /\ quantum' = FALSE
  /\ mode' = "off"
  /\ UNCHANGED <<joining, others, frames, intr>>

-----------------------------------------------------------------------------
(* A thread opens or closes a critical section of its own. *)
cpu_interrupt_disable ==
  /\ Client /\ intr
  /\ intr' = FALSE /\ masked' = masked \cup {current}
  /\ UNCHANGED <<table, saved, pages, joining, current, books, preemptive, pending,
                 quantum, others, memory, mode>>

cpu_interrupt_enable ==
  /\ Client /\ ~intr
  /\ intr' = TRUE /\ masked' = masked \ {current}
  /\ UNCHANGED <<table, saved, pages, joining, current, books, preemptive, pending,
                 quantum, others, memory, mode>>

(* Another deadline is armed, by a thread with interrupts disabled. *)
timer_arm ==
  /\ Client /\ ~intr /\ ~TableFull
  /\ others' = others + 1
  /\ UNCHANGED <<table, saved, pages, joining, masked, current, books, preemptive,
                 pending, quantum, memory, intr, mode>>

(***************************************************************************)
(* The timer interrupt: each due entry leaves the table before its         *)
(* callback runs, so quantum_expired finds room for its successor.         *)
(***************************************************************************)
interrupt_entry ==
  /\ mode = "thread" /\ intr
  /\ quantum \/ others > 0
  /\ intr' = FALSE /\ mode' = "interrupt"
  /\ UNCHANGED <<table, saved, pages, joining, masked, current, books, preemptive,
                 pending, quantum, others, memory>>

expire_other ==
  /\ mode = "interrupt" /\ others > 0
  /\ others' = others - 1
  /\ UNCHANGED <<table, saved, pages, joining, masked, current, books, preemptive,
                 pending, quantum, memory, intr, mode>>

(* quantum_expired: "unconditionally, so that a quantum which finds        *)
(* nothing to switch to still leaves a successor behind".                  *)
Room == others < Deadlines

quantum_expired ==
  /\ mode = "interrupt" /\ quantum /\ ~pending
  /\ quantum' = (preemptive /\ Room)
  /\ mode' = IF preemptive /\ ~Room THEN "panic" ELSE "interrupt"
  /\ pending' = (preemptive /\ Room /\ next_ready_slot(table, current) # current)
  /\ UNCHANGED <<table, saved, pages, joining, masked, current, books, preemptive,
                 others, memory, intr>>

(* thread_on_interrupt_return, after the end of interrupt was sent; the    *)
(* return from the interrupt enables interrupts again.                     *)
thread_on_interrupt_return ==
  /\ mode = "interrupt"
  /\ mode' = "thread" /\ pending' = FALSE
  /\ IF pending THEN switch_to_next(TRUE)
     ELSE intr' = TRUE /\ UNCHANGED <<table, saved, current, books>>
  /\ UNCHANGED <<pages, joining, masked, preemptive, quantum, others, memory>>

-----------------------------------------------------------------------------
Threads ==
  \/ thread_start \/ thread_create \/ thread_yield \/ thread_exit
  \/ \E s \in Slot : thread_join(s)
  \/ thread_enable_preemption \/ thread_disable_preemption
  \/ thread_stop_refused \/ thread_stop
  \/ cpu_interrupt_disable \/ timer_arm

Next ==
  \/ Threads \/ cpu_interrupt_enable \/ join_yield \/ join_return
  \/ interrupt_entry \/ expire_other \/ quantum_expired
  \/ thread_on_interrupt_return

(***************************************************************************)
(* A quantum is long: a thread that keeps getting the processor goes round  *)
(* the loop of its join, and ends the critical sections it opens.  An      *)
(* expiry stays latched while interrupts are disabled, so it is taken in   *)
(* one of the windows in which they are not; the handler serves a quantum  *)
(* that is due, and returns.                                               *)
(***************************************************************************)
Fairness ==
  /\ \A s \in Slot : SF_vars(current = s /\ (join_yield \/ join_return))
  /\ \A s \in Slot : SF_vars(current = s /\ s \in masked /\ cpu_interrupt_enable)
  /\ SF_vars(interrupt_entry)
  /\ SF_vars(quantum_expired)
  /\ WF_vars(thread_on_interrupt_return)

Spec == Init /\ [][Next]_vars
FairSpec == Spec /\ Fairness

-----------------------------------------------------------------------------
(* Every variable stays in its range. *)
TypeOK ==
  /\ table \in [Slot -> {"UNUSED", "READY", "RUNNING", "EXITED"}]
  /\ saved \in [Slot -> BOOLEAN] /\ pages \in [Slot -> 0..StackPages]
  /\ joining \in [Slot -> Slot \cup {NoSlot}] /\ masked \subseteq Slot
  /\ current \in Slot /\ others \in 0..Deadlines
  /\ frames \in Memory /\ free \in 0..frames
  /\ DOMAIN books = {"live", "ready", "exited", "stack_frames"}
  /\ preemptive \in BOOLEAN /\ pending \in BOOLEAN /\ quantum \in BOOLEAN
  /\ intr \in BOOLEAN /\ mode \in {"off", "thread", "interrupt", "panic"}

(* thread_verify, at every point where a thread or a handler runs: one     *)
(* thread runs and it is the current one, every other has its stack, and   *)
(* the counters tell the table as it is.                                   *)
RunQueueExact ==
  mode \in {"thread", "interrupt"} =>
    /\ In("RUNNING") = {current}
    /\ books = recount(table, Mapped(Slot))
    /\ \A s \in Slot \ {Boot} :
         pages[s] = IF table[s] = "UNUSED" THEN 0 ELSE StackPages

(* No frame is lost, whatever fails and however often threads are stopped. *)
FramesKept == free + Mapped(Slot) = frames

(* thread.S: "a thread must resume with the interrupt state it was         *)
(* suspended with, not with the state of whichever thread happened to run  *)
(* before it": a thread in a critical section of its own has interrupts    *)
(* disabled, running or resumed, and any other has them enabled.           *)
SectionsKept ==
  /\ mode = "thread" => intr = (current \notin masked)
  /\ \A s \in In("READY") : saved[s] = (s \notin masked)

(* quantum_expired never finds the timer table full, and a preemptive      *)
(* scheduler always has its next quantum.                                  *)
QuantumAlive == mode # "panic" /\ (preemptive => quantum)

(* The scheduler's table, stacks, interrupt flags and quantum agree under  *)
(* every interleaving of threads and timer interrupts.                     *)
SchedulerExact ==
  TypeOK /\ RunQueueExact /\ FramesKept /\ SectionsKept /\ QuantumAlive

(* prove_preemption: while preemption is on, a ready thread gets the       *)
(* processor although no thread ever yields, and a join of a thread that   *)
(* has exited returns.                                                     *)
EveryoneRuns ==
  \A s \in Slot :
    /\ preemptive /\ table[s] = "READY" ~> ~preemptive \/ table[s] = "RUNNING"
    /\ preemptive /\ table[s] # "UNUSED" /\ joining[s] # NoSlot
         /\ table[joining[s]] = "EXITED"
       ~> ~preemptive \/ joining[s] = NoSlot
=============================================================================
