---------------------------- MODULE DeadlineTimer ----------------------------
(***************************************************************************)
(* The deadline timers of src/kernel/timer.c on the one-shot local APIC    *)
(* timer of src/kernel/apic_timer.c, with the code that waits on them:     *)
(* timer_sleep_ns, the network's bounded wait and the animation wake-up.   *)
(*                                                                         *)
(* One processor, two contexts: kernel code ("main", described by pc) and  *)
(* the timer interrupt, which is entered only while interrupts are enabled *)
(* and runs to completion with them disabled.  Time is kept relative: an   *)
(* entry holds the ticks left until its deadline, zero or less once the    *)
(* deadline is reached, so the model needs no bound on how long the system *)
(* runs.  One tick is TIMER_MINIMUM_INTERVAL_NS.                           *)
(*                                                                         *)
(* Arming and disarming the hardware is refused while interrupts are       *)
(* enabled.  timer_arm and timer_cancel are called in that state too: by   *)
(* the scheduler's sleep until a user thread's deadline, which nothing     *)
(* bounds, and by the desktop.  The entry is then in the table for a while *)
(* with nothing scheduled for it, and is withdrawn by its slot.            *)
(***************************************************************************)
EXTENDS Integers, FiniteSets

CONSTANTS Capacity,   \* TIMER_MAX_PENDING
          Intervals,  \* intervals of the kernel's own callers, in ticks
          Asked,      \* intervals user deadlines ask the scheduler to sleep
          MaxCount,   \* longest interval the countdown register can hold
          Frame,      \* UI_ANIM_FRAME_NS in ticks
          Grace,      \* TIMER_SLEEP_GRACE_NS in ticks
          Late,       \* how far past a deadline the model tells apart
          Slow        \* ticks one run of the interrupt handler may take

ASSUME CapacityAssumption == Capacity \in Nat \ {0}
ASSUME IntervalAssumption == Intervals \subseteq Nat \ {0} /\ Frame \in Nat \ {0}
ASSUME AskedAssumption == Asked \subseteq Nat \ {0}
ASSUME HardwareAssumption == MaxCount \in Nat \ {0}
\* The kernel's own intervals are constants of at most a second or so, which
\* count_for_nanoseconds fits in 32 bits; nothing bounds the ones in Asked.
ASSUME FitAssumption == Frame <= MaxCount /\ \A n \in Intervals : n <= MaxCount
\* Late must be able to reach the point where a sleep is abandoned.
ASSUME LatenessAssumption ==
  /\ Slow \in Nat /\ Late \in Nat /\ Grace \in Nat
  /\ Slow < Late
  /\ \A n \in Intervals : n + Grace < Late

VARIABLES
  started,        \* timer.c: started, and with it the table and the vector
  entries,        \* timer.c: entries
  armed,          \* apic_timer.c: armed
  count,          \* the APIC countdown, Off when it is stopped
  irr,            \* the timer vector is pending in the local APIC
  intr,           \* the processor's interrupt flag
  ctx,            \* "main", or "expire" inside the timer interrupt
  reached,        \* now_ns of expire_reached, relative to the present
  pc,             \* where the main context is
  sleep_expired,  \* timer.c: sleep_expired
  sleep,          \* timer_sleep_ns: identifier, time left, time asked for
  net,            \* network_wait_for_interrupt: identifier, expired flag
  slot            \* timer_arm, timer_cancel: the slot to clear, none if empty

hardware == <<armed, count>>
waiters == <<sleep_expired, sleep, net>>
vars == <<started, entries, hardware, irr, intr, ctx, reached, pc, waiters, slot>>

Slot == 0..(Capacity - 1)
\* Identifiers are a 64-bit counter that never repeats; the model draws one
\* that no entry and no waiter still refers to.
Identifier == 1..(Capacity + 3)
Off == 0

Kind == {"once", "motion", "sleep", "net"}
Halted == {"sleep_halted", "net_halted", "idle_halted"}
(* Inside timer_arm with interrupts enabled, and about to clear a slot. *)
Arming == {"sleep_arming", "motion_arming"}
Withdrawing == {"sleep_withdraw", "withdraw"}
PC == Halted \cup Arming \cup Withdrawing \cup
      {"run", "sleep_loop", "sleep_late", "sleep_armed", "sleep_halt",
       "net_woken", "panic", "fatal"}

(* What the sleeper's record holds while nobody sleeps. *)
Awake == [id |-> 0, left |-> 0, asked |-> 0]

Free == [in_use |-> FALSE, left |-> 0, id |-> 0, kind |-> "none"]

Pending(e) == {s \in Slot : e[s].in_use}

(* slot_of: at most one slot; none for 0 or a stale identifier. *)
slot_of(e, id) == {s \in Pending(e) : e[s].id = id}

(* free_slot: the first unused entry; none when the table is full. *)
free_slot(e) == {s \in Slot \ Pending(e) : \A t \in Slot \ Pending(e) : s <= t}

Fresh == CHOOSE id \in Identifier :
           /\ \A s \in Pending(entries) : entries[s].id # id
           /\ id \notin {sleep.id, net.id}

Inserted(e, s, n, kind) ==
  [e EXCEPT ![s] = [in_use |-> TRUE, left |-> n, id |-> Fresh, kind |-> kind]]

Removed(e, id) == [s \in Slot |-> IF s \in slot_of(e, id) THEN Free ELSE e[s]]

(* earliest_deadline *)
Nearest(e) == CHOOSE n \in {e[s].left : s \in Pending(e)} :
                \A s \in Pending(e) : n <= e[s].left

(***************************************************************************)
(* reprogram, called with the interrupt flag at f: stop the hardware, then *)
(* start it for the nearest deadline.  A deadline already reached is armed *)
(* at the minimum interval.  Both halves are refused while interrupts are  *)
(* enabled, and apic_timer_arm_oneshot refuses, after the disarm, an       *)
(* interval that does not fit the countdown register.                      *)
(***************************************************************************)
Interval_of_reached_is_zero(e) == Nearest(e)

Interval(e) == IF Nearest(e) < 1 THEN 1 ELSE Nearest(e)

Disarmed == IF armed THEN Off ELSE count

reprogram(e, f) ==
  IF armed /\ f
  THEN [armed |-> armed, count |-> count, ok |-> FALSE]
  ELSE IF Pending(e) = {}
  THEN [armed |-> FALSE, count |-> Disarmed, ok |-> TRUE]
  ELSE IF f \/ Interval(e) \notin 1..MaxCount
  THEN [armed |-> FALSE, count |-> Disarmed, ok |-> FALSE]
  ELSE [armed |-> TRUE, count |-> Interval(e), ok |-> TRUE]

Program(h) == armed' = h.armed /\ count' = h.count

Init ==
  /\ started = FALSE
  /\ entries = [s \in Slot |-> Free]
  /\ armed = FALSE /\ count = Off /\ irr = FALSE
  /\ intr = FALSE
  /\ ctx = "main" /\ reached = 0
  /\ pc = "run"
  /\ sleep_expired = FALSE
  /\ sleep = Awake
  /\ net = [id |-> 0, expired |-> FALSE]
  /\ slot = {}

Main(at) == ctx = "main" /\ pc = at

(***************************************************************************)
(* timer_start and timer_stop.  The vector is registered and unregistered  *)
(* together with the table; a count already latched in the APIC stays      *)
(* latched.                                                                *)
(***************************************************************************)
timer_start ==
  /\ Main("run") /\ ~started /\ ~intr
  /\ started' = TRUE
  /\ UNCHANGED <<entries, hardware, irr, intr, ctx, reached, pc, waiters, slot>>

timer_stop ==
  /\ Main("run") /\ started /\ ~intr
  /\ started' = FALSE
  /\ entries' = [s \in Slot |-> Free]
  /\ armed' = FALSE /\ count' = Disarmed
  /\ UNCHANGED <<irr, intr, ctx, reached, pc, waiters, slot>>

(***************************************************************************)
(* timer_arm by code that runs with interrupts disabled: a plain callback, *)
(* or the animation wake-up of src/kernel/ui.c.  When the hardware refuses *)
(* the new entry is withdrawn, but the hardware stays as reprogram left it.*)
(***************************************************************************)
timer_arm(n, kind) ==
  /\ Main("run") /\ started /\ ~intr
  /\ \E s \in free_slot(entries) :
       LET e == Inserted(entries, s, n, kind)
           h == reprogram(e, FALSE)
       IN /\ entries' = IF h.ok THEN e ELSE entries
          /\ Program(h)
  /\ UNCHANGED <<started, irr, intr, ctx, reached, pc, waiters, slot>>

(***************************************************************************)
(* timer_arm with interrupts enabled, for the desktop's next frame or for  *)
(* the scheduler's sleep until a user deadline.  The entry is in the table *)
(* when reprogram is refused, and an interrupt may serve it first.         *)
(***************************************************************************)
timer_arm_enabled(n, kind) ==
  /\ Main("run") /\ started /\ intr
  /\ \E s \in free_slot(entries) :
       /\ entries' = Inserted(entries, s, n, kind)
       /\ slot' = {s}
  /\ IF kind = "sleep"
     THEN /\ sleep_expired' = FALSE
          /\ sleep' = [id |-> Fresh, left |-> n, asked |-> n]
          /\ pc' = "sleep_arming"
     ELSE pc' = "motion_arming" /\ UNCHANGED <<sleep_expired, sleep>>
  /\ UNCHANGED <<started, hardware, irr, intr, ctx, reached, net>>

(* reprogram finds nothing to do when the interrupt has emptied the table; *)
(* timer_arm then succeeds, with the identifier of a free slot.            *)
arm_refused ==
  /\ ctx = "main" /\ pc \in Arming
  /\ LET h == reprogram(entries, TRUE)
     IN /\ Program(h)
        /\ \/ h.ok /\ slot' = {}
              /\ pc' = IF pc = "sleep_arming" THEN "sleep_loop" ELSE "run"
           \/ ~h.ok /\ UNCHANGED slot
              /\ pc' = IF pc = "sleep_arming" THEN "sleep_withdraw" ELSE "withdraw"
  /\ UNCHANGED <<started, entries, irr, intr, ctx, reached, waiters>>

(* timer_cancel finds the slot of the identifier, here and in GiveUp. *)
timer_cancel(id) ==
  /\ Main("run") /\ started
  /\ slot_of(entries, id) # {}
  /\ slot' = slot_of(entries, id) /\ pc' = "withdraw"
  /\ UNCHANGED <<started, entries, hardware, irr, intr, ctx, reached, waiters>>

(* The slot is cleared, whoever has it now.  timer_cancel reprograms after *)
(* that; timer_arm's rollback has interrupts enabled, when reprogram would *)
(* change nothing.                                                         *)
withdraw ==
  /\ ctx = "main" /\ pc \in Withdrawing
  /\ entries' = [s \in Slot |-> IF s \in slot THEN Free ELSE entries[s]]
  /\ Program(reprogram(entries', intr))
  /\ slot' = {} /\ sleep' = Awake /\ pc' = "run"
  /\ UNCHANGED <<started, irr, intr, ctx, reached, sleep_expired, net>>

(***************************************************************************)
(* timer_sleep_ns, entered with interrupts disabled.  cpu_enable_and_halt  *)
(* is sti; hlt; ret: it leaves interrupts enabled, so from the second      *)
(* round on the loop runs with the timer interrupt able to intervene       *)
(* between any two of its checks.                                          *)
(***************************************************************************)
timer_sleep_ns(n) ==
  /\ Main("run") /\ started /\ ~intr
  /\ sleep_expired' = FALSE
  /\ \E s \in free_slot(entries) :
       LET e == Inserted(entries, s, n, "sleep")
           h == reprogram(e, FALSE)
       IN /\ entries' = IF h.ok THEN e ELSE entries
          /\ Program(h)
          /\ pc' = IF h.ok THEN "sleep_loop" ELSE "run"
          /\ sleep' = IF h.ok THEN [id |-> e[s].id, left |-> n, asked |-> n]
                              ELSE sleep
  /\ UNCHANGED <<started, irr, intr, ctx, reached, net, slot>>

(* The while condition; on expiry interrupts are disabled before returning. *)
sleep_loop ==
  /\ Main("sleep_loop")
  /\ IF sleep_expired
     THEN intr' = FALSE /\ pc' = "run" /\ sleep' = Awake
     ELSE pc' = "sleep_late" /\ UNCHANGED <<intr, sleep>>
  /\ UNCHANGED <<started, entries, hardware, irr, ctx, reached, sleep_expired, net, slot>>

(* Leaving early: timer_cancel, with whatever interrupt flag there is and  *)
(* its status ignored.                                                     *)
GiveUp ==
  IF slot_of(entries, sleep.id) # {}
  THEN slot' = slot_of(entries, sleep.id) /\ pc' = "sleep_withdraw" /\ UNCHANGED sleep
  ELSE sleep' = Awake /\ pc' = "run" /\ UNCHANGED slot

(* The abandon time is the deadline plus the interval plus the grace. *)
sleep_late ==
  /\ Main("sleep_late")
  /\ \/ sleep.left + sleep.asked + Grace < 0 /\ GiveUp
     \/ /\ sleep.left + sleep.asked + Grace >= 0
        /\ pc' = "sleep_armed"
        /\ UNCHANGED <<sleep, slot>>
  /\ UNCHANGED <<started, entries, hardware, irr, intr, ctx, reached, sleep_expired, net>>

(* Refuse to halt when nothing is armed. *)
sleep_armed ==
  /\ Main("sleep_armed")
  /\ \/ ~armed /\ GiveUp
     \/ armed /\ pc' = "sleep_halt" /\ UNCHANGED <<sleep, slot>>
  /\ UNCHANGED <<started, entries, hardware, irr, intr, ctx, reached, sleep_expired, net>>

(* cpu_enable_and_halt: no interrupt is taken between sti and hlt. *)
sleep_halt ==
  /\ Main("sleep_halt")
  /\ intr' = TRUE /\ pc' = "sleep_halted"
  /\ UNCHANGED <<started, entries, hardware, irr, ctx, reached, waiters, slot>>

(***************************************************************************)
(* network_wait_for_interrupt: disable interrupts, arm, enable and halt.   *)
(* Once woken, disable again, cancel if the deadline has not fired, and    *)
(* enable.  The callback writes to a flag in the waiter's stack frame.  A  *)
(* cancel that fails is a kernel panic.                                    *)
(***************************************************************************)
network_wait_for_interrupt(n) ==
  /\ Main("run") /\ started /\ intr
  /\ \E s \in free_slot(entries) :
       LET e == Inserted(entries, s, n, "net")
           h == reprogram(e, FALSE)
       IN /\ entries' = IF h.ok THEN e ELSE entries
          /\ Program(h)
          /\ pc' = IF h.ok THEN "net_halted" ELSE "run"
          /\ net' = IF h.ok THEN [id |-> e[s].id, expired |-> FALSE] ELSE net
  /\ UNCHANGED <<started, irr, intr, ctx, reached, sleep_expired, sleep, slot>>

net_woken ==
  /\ Main("net_woken")
  /\ net' = [id |-> 0, expired |-> FALSE]
  /\ \/ net.expired /\ pc' = "run" /\ UNCHANGED <<entries, hardware>>
     \/ /\ ~net.expired
        /\ entries' = Removed(entries, net.id)
        /\ LET h == reprogram(entries', FALSE)
           IN /\ Program(h)
              /\ pc' = IF h.ok /\ slot_of(entries, net.id) # {}
                       THEN "run" ELSE "panic"
  /\ UNCHANGED <<started, irr, intr, ctx, reached, sleep_expired, sleep, slot>>

(* Kernel code outside the timers: it enables or disables interrupts, and  *)
(* its idle loops enable and halt.                                         *)
cpu_interrupt_flag ==
  /\ Main("run")
  /\ intr' = ~intr
  /\ UNCHANGED <<started, entries, hardware, irr, ctx, reached, pc, waiters, slot>>

idle ==
  /\ Main("run")
  /\ intr' = TRUE /\ pc' = "idle_halted"
  /\ UNCHANGED <<started, entries, hardware, irr, ctx, reached, waiters, slot>>

(***************************************************************************)
(* Interrupts.  Any interrupt ends a halt.                                 *)
(***************************************************************************)
Woken == CASE pc = "sleep_halted" -> "sleep_loop"
           [] pc = "net_halted" -> "net_woken"
           [] pc = "idle_halted" -> "run"
           [] OTHER -> pc

(* A device other than the timer. *)
other_interrupt ==
  /\ ctx = "main" /\ intr /\ pc \in Halted
  /\ pc' = Woken
  /\ UNCHANGED <<started, entries, hardware, irr, intr, ctx, reached, waiters, slot>>

(***************************************************************************)
(* apic_timer_handler.  A vector without a handler is fatal; a latched     *)
(* interrupt with nothing armed only counts a tick.  Otherwise the flag    *)
(* follows the hardware and on_expiry reads the clock.                     *)
(***************************************************************************)
apic_timer_handler ==
  /\ ctx = "main" /\ intr /\ irr /\ pc # "fatal"
  /\ irr' = FALSE
  /\ IF ~started
     THEN pc' = "fatal" /\ UNCHANGED <<intr, armed, ctx, reached>>
     ELSE /\ pc' = Woken
          /\ IF armed
             THEN /\ armed' = FALSE /\ intr' = FALSE
                  /\ ctx' = "expire" /\ reached' = 0
             ELSE UNCHANGED <<intr, armed, ctx, reached>>
  /\ UNCHANGED <<started, entries, count, waiters, slot>>

Due(e) == {s \in Pending(e) : e[s].left <= reached}

Chosen_by_slot(e, s) == s \in Due(e) /\ \A t \in Due(e) : s <= t

Chosen(e, s) ==
  /\ s \in Due(e)
  /\ \A t \in Due(e) : \/ e[s].left < e[t].left
                       \/ e[s].left = e[t].left /\ s <= t

(***************************************************************************)
(* One round of expire_reached: the entry is released, then its callback   *)
(* runs.  motion_timer_wake may arm the next frame from inside the         *)
(* interrupt, when the animation is still running.                         *)
(***************************************************************************)
expire_reached ==
  /\ ctx = "expire"
  /\ \E s \in Slot :
       LET freed == [entries EXCEPT ![s] = Free]
           kind == entries[s].kind
       IN /\ Chosen(entries, s)
          /\ sleep_expired' = (sleep_expired \/ kind = "sleep")
          /\ net' = IF kind = "net" THEN [net EXCEPT !.expired = TRUE] ELSE net
          /\ \/ entries' = freed /\ UNCHANGED hardware
             \/ /\ kind = "motion"
                /\ \E t \in free_slot(freed) :
                     LET e == Inserted(freed, t, Frame, "motion")
                         h == reprogram(e, FALSE)
                     IN /\ entries' = IF h.ok THEN e ELSE freed
                        /\ Program(h)
  /\ UNCHANGED <<started, irr, intr, ctx, reached, pc, sleep, slot>>

(* No deadline is left that the instant has reached: on_expiry reprograms, *)
(* ignoring the status, and the interrupt returns.                         *)
on_expiry_done_without_reprogram ==
  /\ ctx = "expire" /\ Due(entries) = {}
  /\ ctx' = "main" /\ intr' = TRUE /\ reached' = 0
  /\ UNCHANGED <<started, entries, hardware, irr, pc, waiters, slot>>

on_expiry_done ==
  /\ ctx = "expire" /\ Due(entries) = {}
  /\ Program(reprogram(entries, FALSE))
  /\ ctx' = "main" /\ intr' = TRUE /\ reached' = 0
  /\ UNCHANGED <<started, entries, irr, pc, waiters, slot>>

(***************************************************************************)
(* Time passes: every deadline comes nearer, and the countdown latches the *)
(* timer vector when it runs out.                                          *)
(***************************************************************************)
Sooner(n) == IF n > -Late THEN n - 1 ELSE n

tick ==
  /\ ctx = "expire" => reached > -Slow
  /\ entries' = [s \in Slot |->
       IF entries[s].in_use THEN [entries[s] EXCEPT !.left = Sooner(@)]
                            ELSE entries[s]]
  /\ sleep' = IF sleep.id # 0 THEN [sleep EXCEPT !.left = Sooner(@)] ELSE sleep
  /\ reached' = IF ctx = "expire" THEN reached - 1 ELSE reached
  /\ count' = IF count = Off THEN Off ELSE count - 1
  /\ irr' = (irr \/ count = 1)
  /\ UNCHANGED <<started, armed, intr, ctx, pc, sleep_expired, net, slot>>

Interrupt == apic_timer_handler \/ expire_reached \/ on_expiry_done
MainSteps == \/ arm_refused \/ withdraw \/ net_woken
             \/ sleep_loop \/ sleep_late \/ sleep_armed \/ sleep_halt

Next ==
  \/ timer_start
  \/ timer_stop
  \/ \E n \in Intervals, kind \in {"once", "motion"} : timer_arm(n, kind)
  \/ timer_arm_enabled(Frame, "motion")
  \/ \E n \in Asked : timer_arm_enabled(n, "sleep")
  \/ \E id \in Identifier : timer_cancel(id)
  \/ \E n \in Intervals : timer_sleep_ns(n)
  \/ \E n \in Intervals : network_wait_for_interrupt(n)
  \/ MainSteps
  \/ cpu_interrupt_flag
  \/ idle
  \/ other_interrupt
  \/ Interrupt
  \/ tick

(***************************************************************************)
(* Fairness: time passes; the processor takes a pending interrupt when it  *)
(* may and finishes the handler; a wait loop keeps executing; kernel code  *)
(* comes back to an idle halt (every main loop of this kernel does).       *)
(* Nothing is assumed about other devices.                                 *)
(***************************************************************************)
Fairness ==
  /\ WF_vars(tick)
  /\ SF_vars(apic_timer_handler)
  /\ WF_vars(expire_reached)
  /\ WF_vars(on_expiry_done)
  /\ WF_vars(MainSteps)
  /\ SF_vars(idle)

Spec == Init /\ [][Next]_vars
FairSpec == Spec /\ Fairness

-----------------------------------------------------------------------------
(* Every variable stays in its range; reached entries stop at Late. *)
TypeOK ==
  /\ started \in BOOLEAN
  /\ entries \in [Slot -> {Free} \cup [in_use : {TRUE}, left : Int,
                                       id : Identifier, kind : Kind]]
  /\ armed \in BOOLEAN /\ count \in 0..MaxCount /\ irr \in BOOLEAN
  /\ intr \in BOOLEAN /\ ctx \in {"main", "expire"} /\ reached \in (-Slow)..0
  /\ pc \in PC
  /\ sleep_expired \in BOOLEAN
  /\ sleep \in [id : Identifier \cup {0}, left : Int, asked : Intervals \cup Asked \cup {0}]
  /\ net \in [id : Identifier \cup {0}, expired : BOOLEAN]
  /\ slot \in SUBSET Slot

(* reprogram, timer.c: "refusing here would leave an entry pending with    *)
(* nothing scheduled to fire it".  Outside the interrupt, a pending entry  *)
(* implies an armed timer whose countdown runs or whose interrupt is       *)
(* already latched.  Only the entry timer_arm or timer_cancel is about to  *)
(* clear is excepted: a refused one, maybe further ahead than the hardware *)
(* can count.                                                              *)
PendingIsScheduled ==
  ctx = "main" /\ Pending(entries) \ slot # {} => armed /\ (count # Off \/ irr)

(* timer_sleep_ns and network_wait_for_interrupt leave nothing behind: an  *)
(* entry whose callback reports to a waiter is pending only while that     *)
(* waiter is still waiting (the network callback writes into its frame).   *)
NoOrphanEntry ==
  \A s \in Pending(entries) :
    /\ entries[s].kind = "net" =>
         pc \in {"net_halted", "net_woken"} /\ entries[s].id = net.id
    /\ entries[s].kind = "sleep" => entries[s].id = sleep.id /\ sleep.id # 0

(* Deadlines are served when they are reached and earliest first.  A       *)
(* completed sleep lasted at least as long as it was asked to, although it *)
(* is a flag shared with the interrupt that ends it; and no entry leaves   *)
(* the table in the interrupt while one with an earlier deadline stays.    *)
ServedOnTime ==
  [][/\ pc = "sleep_loop" /\ sleep_expired /\ pc' = "run" => sleep.left <= 0
     /\ ctx = "expire" =>
          \A s, t \in Pending(entries) :
            entries[s].left < entries[t].left /\ entries'[t].id # entries[t].id
              => entries'[s].id # entries[s].id]_vars

(* network_wait_for_interrupt's cancel never panics. *)
NeverPanics == pc # "panic"

(* The table, the hardware and the waiters agree at every point where an   *)
(* interrupt may come: reprogram leaves no pending entry unscheduled, no   *)
(* waiter leaves an entry behind, and no cancel panics.                    *)
ScheduleExact == TypeOK /\ PendingIsScheduled /\ NoOrphanEntry /\ NeverPanics

(* The network wait always returns, whatever other devices do. *)
NetWaitReturns == pc = "net_halted" ~> pc # "net_halted"

(* Every deadline that timer_arm accepted fires or is cancelled. *)
DeadlineServed ==
  \A id \in Identifier : slot_of(entries, id) # {} ~> slot_of(entries, id) = {}

(* Nobody waits for ever on the timer: a halted network wait returns, and  *)
(* on_expiry and reprogram together serve every accepted deadline.         *)
WaitsEnd == NetWaitReturns /\ DeadlineServed

(* timer_sleep_ns: "Refusing to halt with no deadline armed is what turns  *)
(* that into a status."  A sleep that is halted has an interrupt coming.   *)
NeverHaltsUnarmed ==
  ctx = "main" /\ pc = "sleep_halted" => armed \/ irr
=============================================================================
