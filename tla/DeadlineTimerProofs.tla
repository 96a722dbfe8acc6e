------------------------ MODULE DeadlineTimerProofs ------------------------
(***************************************************************************)
(* Proofs about the deadline timers of DeadlineTimer.tla, for every table  *)
(* size, every set of intervals, every handler time and every grace.       *)
(*                                                                         *)
(* Books says that the table, the two waiters and the slot about to be     *)
(* cleared agree.  Scheduled says that every pending deadline outside that *)
(* slot is within the hardware's reach and has its interrupt coming: a     *)
(* user deadline too far ahead is in the table only until timer_arm has    *)
(* taken it back.                                                          *)
(***************************************************************************)
EXTENDS DeadlineTimer, FiniteSetTheorems, WellFoundedInduction, TLAPS

(* What a slot in use holds, and the table of them. *)
Entry == [in_use : {TRUE}, left : Int, id : Identifier, kind : Kind]
Table == [Slot -> {Free} \cup Entry]

Sleeping == {"sleep_loop", "sleep_late", "sleep_armed", "sleep_halt", "sleep_halted",
             "sleep_arming", "sleep_withdraw"}
Waiting == {"net_halted", "net_woken"}

(* Where the main context has a slot to clear. *)
Clearing == Arming \cup Withdrawing

(* Identifiers name at most one entry. *)
OneSlotEach ==
  \A s, t \in Pending(entries) : entries[s].id = entries[t].id => s = t

(* Before timer_start and after timer_stop nothing is pending or armed and *)
(* nobody waits on the timer.                                              *)
StoppedIsEmpty ==
  ~started => /\ Pending(entries) = {} /\ ~armed
              /\ pc \in {"run", "idle_halted", "fatal"}

(* The network wait has an entry exactly until its callback has run. *)
NetWaiter ==
  /\ pc \in Waiting <=> net.id # 0
  /\ pc \in Waiting /\ ~net.expired =>
       \E s \in Pending(entries) : entries[s].id = net.id /\ entries[s].kind = "net"
  /\ net.expired => \A s \in Pending(entries) : entries[s].kind # "net"

(* The sleeper's entry runs out with the sleep, and the flag says so. *)
Sleeper ==
  /\ pc \in Sleeping <=> sleep.id # 0
  /\ \A s \in Pending(entries) :
       entries[s].kind = "sleep" => entries[s].left = sleep.left
  /\ sleep_expired => \A s \in Pending(entries) : entries[s].kind # "sleep"
  /\ sleep_expired /\ sleep.id # 0 => sleep.left <= 0

(* A sleep that is refused or given up clears the slot of its own entry.   *)
HeldSlot ==
  /\ pc \notin Clearing => slot = {}
  /\ pc \in {"sleep_arming", "sleep_withdraw"} =>
       \A s \in Pending(entries) : entries[s].kind = "sleep" => s \in slot

Books == /\ TypeOK /\ OneSlotEach /\ StoppedIsEmpty /\ NetWaiter /\ Sleeper
         /\ NoOrphanEntry /\ HeldSlot

(* Every deadline of table e outside slots X is one the hardware can count *)
(* to.                                                                     *)
InReach(e, X) ==
  \A s \in Pending(e) : /\ -Late <= e[s].left
                        /\ s \notin X => e[s].left <= MaxCount

(* The countdown runs while the timer is armed, and every deadline fits it.*)
Scheduled ==
  /\ armed => count # Off \/ irr
  /\ ctx = "main" /\ Pending(entries) \ slot # {} => armed
  /\ InReach(entries, slot)
  /\ NeverPanics

-----------------------------------------------------------------------------
(* Facts about the helpers of timer.c.                                     *)

(* A slot in use holds an entry; a slot outside the pending ones is Free. *)
LEMMA PendingHolds ==
  ASSUME NEW e \in Table, NEW s \in Slot
  PROVE  IF s \in Pending(e) THEN e[s] \in Entry ELSE e[s] = Free
<1>1. CASE e[s] = Free
  <2>1. e[s].in_use = FALSE
    BY <1>1 DEF Free
  <2> QED BY <1>1, <2>1 DEF Pending
<1>2. CASE e[s] \in Entry
  <2>1. e[s].in_use = TRUE
    BY <1>2 DEF Entry
  <2> QED BY <1>2, <2>1 DEF Pending
<1> QED BY <1>1, <1>2 DEF Table

(* A nonempty set of integers bounded below has a least element. *)
LEMMA LeastElement ==
  ASSUME NEW S \in SUBSET Int, S # {}, NEW b \in Int, \A n \in S : b <= n
  PROVE  \E n \in S : \A m \in S : n <= m
<1> DEFINE T == {k \in Nat : k + b \in S}
<1>1. PICK a \in S : TRUE
  OBVIOUS
<1>2. a - b \in T
  BY <1>1
<1>3. IsWellFoundedOn(OpToRel(<, Nat), Nat)
  BY NatLessThanWellFounded
<1>4. PICK k \in T : \A j \in T : ~ (<<j, k>> \in OpToRel(<, Nat))
  <2>1. T \subseteq Nat /\ T # {}
    BY <1>2
  <2> HIDE DEF T
  <2> QED BY <2>1, <1>3, WFMin
<1>5. \A j \in T : k <= j
  <2>1. T \subseteq Nat
    OBVIOUS
  <2> HIDE DEF T
  <2>2. ASSUME NEW j \in T, j < k PROVE FALSE
    <3>1. <<j, k>> \in Nat \X Nat /\ <<j, k>>[1] < <<j, k>>[2]
      BY <2>1, <2>2
    <3>2. <<j, k>> \in OpToRel(<, Nat)
      BY <3>1 DEF OpToRel
    <3> QED BY <3>2, <1>4
  <2> QED BY <2>1, <2>2
<1>6. k + b \in S /\ \A m \in S : k + b <= m
  <2>1. k \in Nat /\ k + b \in S
    OBVIOUS
  <2>2. ASSUME NEW m \in S PROVE k + b <= m
    <3>1. m - b \in T
      BY <2>2
    <3>2. k <= m - b
      BY <3>1, <1>5
    <3> QED BY <3>2, <2>1
  <2> QED BY <2>1, <2>2
<1> QED BY <1>6

(* earliest_deadline is one of the deadlines and none is earlier. *)
LEMMA NearestIs ==
  ASSUME NEW e \in Table, NEW X, InReach(e, X), Pending(e) \ X # {}
  PROVE  Nearest(e) \in (-Late)..MaxCount
<1> DEFINE L == {e[s].left : s \in Pending(e)}
<1>0. \A s \in Pending(e) : e[s].left \in Int
  BY PendingHolds DEF Entry, Pending
<1>1. L \subseteq Int /\ L # {} /\ \A n \in L : -Late <= n
  BY <1>0 DEF InReach
<1>2. -Late \in Int
  BY LatenessAssumption
<1>3. \E n \in L : \A m \in L : n <= m
  <2> HIDE DEF L
  <2> QED BY <1>1, <1>2, LeastElement
<1>4. \E n \in L : \A s \in Pending(e) : n <= e[s].left
  BY <1>3
<1>5. Nearest(e) \in L /\ \A s \in Pending(e) : Nearest(e) <= e[s].left
  BY <1>4 DEF Nearest
<1>6. PICK s \in Pending(e) : e[s].left <= MaxCount
  BY DEF InReach
<1>7. /\ Nearest(e) \in Int /\ -Late <= Nearest(e) /\ Nearest(e) <= e[s].left
      /\ e[s].left \in Int
  BY <1>0, <1>1, <1>5
<1> QED BY <1>6, <1>7, LatenessAssumption, HardwareAssumption

(* Whatever the hardware answers, an armed timer counts down. *)
LEMMA ReprogramIs ==
  ASSUME armed \in BOOLEAN, count \in 0..MaxCount, NEW e, NEW f \in BOOLEAN
  PROVE  /\ reprogram(e, f).armed \in BOOLEAN
         /\ reprogram(e, f).count \in 0..MaxCount
         /\ reprogram(e, f).ok \in BOOLEAN
         /\ ~f /\ reprogram(e, f).armed => reprogram(e, f).count # Off
         /\ f /\ reprogram(e, f).armed =>
              armed /\ reprogram(e, f).count = count
         /\ ~f /\ reprogram(e, f).ok /\ Pending(e) # {} => reprogram(e, f).armed
         /\ Pending(e) = {} /\ ~f => reprogram(e, f).ok
         /\ ~f /\ Pending(e) # {} /\ Interval(e) \in 1..MaxCount
              => reprogram(e, f).ok
         /\ f => reprogram(e, f).armed = armed /\ reprogram(e, f).count = count
         /\ ~armed /\ Pending(e) = {} => ~reprogram(e, f).armed
         /\ f /\ reprogram(e, f).ok => Pending(e) = {}
<1> DEFINE h == reprogram(e, f)
<1>a. Disarmed \in 0..MaxCount /\ (~armed => Disarmed = count)
  BY HardwareAssumption DEF Disarmed, Off
<1>0. CASE armed /\ f
  <2>1. h = [armed |-> armed, count |-> count, ok |-> FALSE]
    BY <1>0 DEF reprogram
  <2>2. armed = TRUE /\ f = TRUE
    BY <1>0
  <2> HIDE DEF h
  <2>3. /\ h.armed = TRUE /\ h.count = count /\ h.ok = FALSE
    BY <2>1, <2>2
  <2> QED BY <1>0, <2>2, <2>3 DEF Off, h
<1>1. CASE ~(armed /\ f) /\ Pending(e) = {}
  <2>1. h = [armed |-> FALSE, count |-> Disarmed, ok |-> TRUE]
    BY <1>1 DEF reprogram
  <2> HIDE DEF h
  <2>2. h.armed = FALSE /\ h.count = Disarmed /\ h.ok = TRUE
    BY <2>1
  <2> QED BY <1>a, <1>1, <2>2 DEF h
<1>2. CASE ~(armed /\ f) /\ Pending(e) # {} /\ (f \/ Interval(e) \notin 1..MaxCount)
  <2>1. h = [armed |-> FALSE, count |-> Disarmed, ok |-> FALSE]
    BY <1>2 DEF reprogram
  <2> HIDE DEF h
  <2>2. h.armed = FALSE /\ h.count = Disarmed /\ h.ok = FALSE
    BY <2>1
  <2> QED BY <1>a, <1>2, <2>2 DEF h
<1>3. CASE ~(armed /\ f) /\ Pending(e) # {} /\ ~(f \/ Interval(e) \notin 1..MaxCount)
  <2>1. h = [armed |-> TRUE, count |-> Interval(e), ok |-> TRUE]
    BY <1>3 DEF reprogram
  <2> HIDE DEF h
  <2>2. h.armed = TRUE /\ h.count = Interval(e) /\ h.ok = TRUE
    BY <2>1
  <2>3. Interval(e) \in 1..MaxCount /\ ~f
    BY <1>3
  <2>4. Interval(e) \in 0..MaxCount /\ Interval(e) # Off
    BY <2>3, HardwareAssumption DEF Off
  <2> QED BY <1>3, <2>2, <2>3, <2>4 DEF h
<1> QED BY <1>0, <1>1, <1>2, <1>3

(* An insertion changes one unused slot. *)
LEMMA InsertedIs ==
  ASSUME NEW e \in Table, NEW s \in Slot \ Pending(e), NEW n \in Int,
         NEW kind \in Kind, Fresh \in Identifier
  PROVE  /\ Inserted(e, s, n, kind) \in Table
         /\ Pending(Inserted(e, s, n, kind)) = Pending(e) \cup {s}
         /\ Inserted(e, s, n, kind)[s] =
              [in_use |-> TRUE, left |-> n, id |-> Fresh, kind |-> kind]
         /\ \A t \in Slot \ {s} : Inserted(e, s, n, kind)[t] = e[t]
BY DEF Inserted, Table, Entry, Pending

(* A cancellation empties the slot of one identifier and no other. *)
LEMMA RemovedIs ==
  ASSUME NEW e \in Table, NEW id
  PROVE  /\ Removed(e, id) \in Table
         /\ Pending(Removed(e, id)) = {s \in Pending(e) : e[s].id # id}
         /\ \A s \in Pending(Removed(e, id)) : Removed(e, id)[s] = e[s]
BY PendingHolds DEF Removed, Table, Entry, Pending, slot_of, Free

(* Releasing an entry empties its slot and no other. *)
LEMMA FreedIs ==
  ASSUME NEW e \in Table, NEW s \in Slot
  PROVE  /\ [e EXCEPT ![s] = Free] \in Table
         /\ Pending([e EXCEPT ![s] = Free]) = Pending(e) \ {s}
         /\ \A t \in Slot \ {s} : [e EXCEPT ![s] = Free][t] = e[t]
BY DEF Table, Entry, Pending, Free

(* There are more identifiers than a full table and two waiters can hold. *)
LEMMA FreshIs ==
  ASSUME TypeOK
  PROVE  /\ Fresh \in Identifier
         /\ \A s \in Pending(entries) : entries[s].id # Fresh
         /\ Fresh # sleep.id /\ Fresh # net.id
<1> DEFINE Held == {entries[s].id : s \in Slot}
           Used == Held \cup {sleep.id, net.id}
<1>1. IsFiniteSet(Slot) /\ Cardinality(Slot) = Capacity
  BY FS_Interval, CapacityAssumption DEF Slot
<1>2. IsFiniteSet(Held) /\ Cardinality(Held) <= Capacity
  <2> DEFINE f == [s \in Slot |-> entries[s].id]
  <2>1. f \in Surjection(Slot, Held)
    BY DEF Surjection
  <2> HIDE DEF Held, f
  <2> QED BY <1>1, <2>1, FS_Surjection
<1>3. IsFiniteSet(Used) /\ Cardinality(Used) <= Capacity + 2
  <2> HIDE DEF Held
  <2>1. Cardinality(Held) \in Nat
    BY <1>2, FS_CardinalityType
  <2>2. /\ IsFiniteSet(Held \cup {sleep.id})
        /\ Cardinality(Held \cup {sleep.id}) <= Capacity + 1
        /\ Cardinality(Held \cup {sleep.id}) \in Nat
    BY <1>2, <2>1, FS_AddElement, FS_CardinalityType, CapacityAssumption
  <2>3. /\ IsFiniteSet((Held \cup {sleep.id}) \cup {net.id})
        /\ Cardinality((Held \cup {sleep.id}) \cup {net.id}) <= Capacity + 2
    BY <2>2, FS_AddElement, CapacityAssumption
  <2>4. Used = (Held \cup {sleep.id}) \cup {net.id}
    OBVIOUS
  <2> QED BY <2>3, <2>4
<1>4. Cardinality(Identifier) = Capacity + 3
  BY FS_Interval, CapacityAssumption DEF Identifier
<1>5. ~(Identifier \subseteq Used)
  <2> HIDE DEF Used
  <2> SUFFICES ASSUME Identifier \subseteq Used PROVE FALSE
    OBVIOUS
  <2>1. Cardinality(Identifier) <= Cardinality(Used)
    BY <1>3, FS_Subset
  <2>2. Cardinality(Used) \in Nat
    BY <1>3, FS_CardinalityType
  <2> QED BY <2>1, <2>2, <1>3, <1>4, CapacityAssumption
<1>6. \E id \in Identifier : /\ \A s \in Pending(entries) : entries[s].id # id
                             /\ id \notin {sleep.id, net.id}
  BY <1>5 DEF Pending
<1>7. /\ Fresh \in Identifier
      /\ \A s \in Pending(entries) : entries[s].id # Fresh
      /\ Fresh \notin {sleep.id, net.id}
  BY <1>6 DEF Fresh
<1> QED BY <1>7

-----------------------------------------------------------------------------
(* The steps that keep the books, one lemma for each kind of step.         *)

(* A step that touches neither the table nor the waiters, and leaves the   *)
(* main context inside the same wait, keeps the books.                     *)
LEMMA BooksKept ==
  ASSUME Books, TypeOK', UNCHANGED <<entries, sleep_expired, sleep, net>>,
         pc' \in Waiting <=> pc \in Waiting,
         pc' \in Sleeping <=> pc \in Sleeping,
         StoppedIsEmpty', HeldSlot'
  PROVE  Books'
BY DEF Books, OneSlotEach, NetWaiter, Sleeper, NoOrphanEntry, Waiting

(* A new entry of a kind no waiter looks for keeps the books. *)
LEMMA BooksGrow ==
  ASSUME Books, TypeOK', StoppedIsEmpty', HeldSlot', pc \notin Waiting, pc \notin Sleeping,
         NEW s \in Slot \ Pending(entries), NEW n \in Int, NEW kind \in {"once", "motion"},
         entries' = Inserted(entries, s, n, kind),
         pc' \notin Waiting, pc' \notin Sleeping,
         UNCHANGED <<sleep_expired, sleep, net>>
  PROVE  Books'
<1>1. entries \in Table
  BY DEF Books, TypeOK, Table, Entry
<1>2. /\ Fresh \in Identifier
      /\ \A t \in Pending(entries) : entries[t].id # Fresh
  BY FreshIs DEF Books
<1>3. kind \in Kind
  BY DEF Kind
<1>4. /\ Pending(entries') = Pending(entries) \cup {s}
      /\ entries'[s] = [in_use |-> TRUE, left |-> n, id |-> Fresh, kind |-> kind]
      /\ \A t \in Slot \ {s} : entries'[t] = entries[t]
  BY <1>1, <1>2, <1>3, InsertedIs
<1>5. \A t \in Pending(entries) : t \in Slot /\ t # s
  BY DEF Pending
<1>6. entries'[s].id = Fresh /\ entries'[s].kind = kind /\ kind # "net" /\ kind # "sleep"
  BY <1>4
<1>7. OneSlotEach'
  BY <1>2, <1>4, <1>5, <1>6 DEF Books, OneSlotEach
<1>8. NetWaiter'
  BY <1>4, <1>5, <1>6 DEF Books, NetWaiter, Waiting
<1>9. Sleeper'
  BY <1>4, <1>5, <1>6 DEF Books, Sleeper
<1>10. NoOrphanEntry'
  BY <1>4, <1>5, <1>6 DEF Books, NoOrphanEntry, Waiting
<1> QED BY <1>7, <1>8, <1>9, <1>10 DEF Books

(* Outside Clearing there is no slot to clear. *)
LEMMA HeldKept ==
  ASSUME HeldSlot, UNCHANGED slot, pc \notin Clearing, pc' \notin Clearing
  PROVE  HeldSlot'
<1>1. pc' \notin {"sleep_arming", "sleep_withdraw"}
  BY DEF Clearing, Arming, Withdrawing
<1> QED BY <1>1 DEF HeldSlot

(* The type invariant bounds the table. *)
LEMMA TableTyped == TypeOK => entries \in Table
BY DEF TypeOK, Table, Entry

(* What programming the hardware leaves behind. *)
LEMMA ProgramTyped ==
  ASSUME TypeOK, NEW e, NEW f \in BOOLEAN, Program(reprogram(e, f))
  PROVE  armed' \in BOOLEAN /\ count' \in 0..MaxCount
<1>1. armed \in BOOLEAN /\ count \in 0..MaxCount
  BY DEF TypeOK
<1> QED BY <1>1, ReprogramIs DEF Program

(* The steps of the main context and of time that leave the table alone.   *)
LEMMA BooksQuiet ==
  ASSUME Books,
         \/ timer_start \/ cpu_interrupt_flag \/ idle \/ sleep_halt
         \/ other_interrupt \/ apic_timer_handler \/ on_expiry_done
  PROVE  Books'
<1> USE DEF waiters, hardware
<1>0. TypeOK /\ StoppedIsEmpty /\ HeldSlot
  BY DEF Books
<1>8a. UNCHANGED slot
  BY DEF timer_start, cpu_interrupt_flag, idle, sleep_halt, other_interrupt,
         apic_timer_handler, on_expiry_done
<1>9. 0 \in (-Slow)..0
  BY LatenessAssumption
<1>1. CASE timer_start
  <2>1. TypeOK' /\ StoppedIsEmpty'
    BY <1>0, <1>1 DEF timer_start, TypeOK, StoppedIsEmpty
  <2>2. HeldSlot'
    BY <1>0, <1>8a, <1>1 DEF timer_start, HeldSlot, Main
  <2> QED BY <2>1, <2>2, <1>1, BooksKept DEF timer_start
<1>2. CASE cpu_interrupt_flag
  <2>1. TypeOK' /\ StoppedIsEmpty'
    BY <1>0, <1>2 DEF cpu_interrupt_flag, TypeOK, StoppedIsEmpty
  <2>2. HeldSlot'
    BY <1>0, <1>8a, <1>2 DEF cpu_interrupt_flag, HeldSlot, Main
  <2> QED BY <2>1, <2>2, <1>2, BooksKept DEF cpu_interrupt_flag
<1>3. CASE idle
  <2>1. TypeOK' /\ StoppedIsEmpty'
    BY <1>0, <1>3 DEF idle, Main, TypeOK, StoppedIsEmpty, PC, Halted
  <2>2. HeldSlot'
    BY <1>0, <1>8a, <1>3, HeldKept DEF idle, Main, Clearing, Arming, Withdrawing
  <2> QED BY <2>1, <2>2, <1>3, BooksKept DEF idle, Main, Waiting, Sleeping
<1>4. CASE sleep_halt
  <2>1. TypeOK' /\ StoppedIsEmpty'
    BY <1>0, <1>4 DEF sleep_halt, Main, TypeOK, StoppedIsEmpty, PC, Halted
  <2>2. HeldSlot'
    BY <1>0, <1>8a, <1>4, HeldKept DEF sleep_halt, Main, Clearing, Arming, Withdrawing
  <2> QED BY <2>1, <2>2, <1>4, BooksKept DEF sleep_halt, Main, Waiting, Sleeping
<1>5. /\ pc \in PC => Woken \in PC
      /\ Woken \in Waiting <=> pc \in Waiting
      /\ Woken \in Sleeping <=> pc \in Sleeping
      /\ pc \in {"run", "idle_halted", "fatal"} <=> Woken \in {"run", "fatal"}
      /\ Woken = "panic" => pc = "panic"
      /\ pc \in Clearing \/ Woken \in Clearing => Woken = pc
  <2>1. CASE pc = "sleep_halted"
    BY <2>1 DEF Woken, PC, Waiting, Sleeping, Clearing, Arming, Withdrawing
  <2>2. CASE pc = "net_halted"
    BY <2>2 DEF Woken, PC, Waiting, Sleeping, Clearing, Arming, Withdrawing
  <2>3. CASE pc = "idle_halted"
    BY <2>3 DEF Woken, PC, Waiting, Sleeping, Clearing, Arming, Withdrawing
  <2>4. CASE pc \notin {"sleep_halted", "net_halted", "idle_halted"}
    <3>1. Woken = pc
      BY <2>4, Zenon DEF Woken
    <3> QED BY <3>1, <2>4
  <2> QED BY <2>1, <2>2, <2>3, <2>4
<1>5a. ASSUME pc' = Woken, UNCHANGED entries PROVE HeldSlot'
  <2>1. CASE pc \in Clearing \/ Woken \in Clearing
    BY <1>0, <1>5, <1>5a, <1>8a, <2>1 DEF HeldSlot
  <2>2. CASE pc \notin Clearing /\ Woken \notin Clearing
    BY <1>0, <1>5a, <1>8a, <2>2, HeldKept
  <2> QED BY <2>1, <2>2
<1>6. CASE other_interrupt
  <2>1. TypeOK' /\ StoppedIsEmpty'
    BY <1>0, <1>5, <1>6 DEF other_interrupt, TypeOK, StoppedIsEmpty
  <2>2. HeldSlot'
    BY <1>5a, <1>6 DEF other_interrupt
  <2> QED BY <2>1, <2>2, <1>5, <1>6, BooksKept DEF other_interrupt
<1>7. CASE apic_timer_handler
  <2>1. CASE ~started
    <3>1. TypeOK' /\ StoppedIsEmpty'
      BY <1>0, <1>7, <2>1 DEF apic_timer_handler, TypeOK, StoppedIsEmpty, PC
    <3>2. pc' \notin Waiting /\ pc \notin Waiting /\ pc' \notin Sleeping /\ pc \notin Sleeping
      BY <1>0, <1>7, <2>1 DEF apic_timer_handler, StoppedIsEmpty, Waiting, Sleeping
    <3>3. HeldSlot'
      BY <1>0, <1>7, <1>8a, <2>1, HeldKept
         DEF apic_timer_handler, StoppedIsEmpty, Clearing, Arming, Withdrawing
    <3> QED BY <3>1, <3>2, <3>3, <1>7, BooksKept DEF apic_timer_handler
  <2>2. CASE started
    <3>0. pc' = Woken /\ UNCHANGED <<started, entries, count, waiters>> /\ irr' = FALSE
      BY <1>7, <2>2 DEF apic_timer_handler
    <3>1. armed' \in BOOLEAN /\ intr' \in BOOLEAN /\ ctx' \in {"main", "expire"}
          /\ reached' \in (-Slow)..0
      <4>1. /\ armed \in BOOLEAN /\ intr \in BOOLEAN
            /\ ctx \in {"main", "expire"} /\ reached \in (-Slow)..0
        BY <1>0 DEF TypeOK
      <4>2. CASE armed
        BY <1>7, <2>2, <4>2, <1>9 DEF apic_timer_handler
      <4>3. CASE ~armed
        BY <1>7, <2>2, <4>1, <4>3 DEF apic_timer_handler
      <4> QED BY <4>2, <4>3
    <3>2. TypeOK' /\ StoppedIsEmpty'
      BY <1>0, <1>5, <1>8a, <2>2, <3>0, <3>1 DEF TypeOK, StoppedIsEmpty
    <3>3. HeldSlot'
      BY <3>0, <1>5a
    <3> QED BY <3>0, <3>2, <3>3, <1>5, BooksKept
  <2> QED BY <2>1, <2>2
<1>8. CASE on_expiry_done
  <2>1. armed' \in BOOLEAN /\ count' \in 0..MaxCount
    BY <1>0, <1>8, ProgramTyped DEF on_expiry_done
  <2>2. TypeOK'
    BY <1>0, <1>8, <1>9, <2>1 DEF on_expiry_done, TypeOK
  <2>3. StoppedIsEmpty'
    <3>1. CASE started
      BY <3>1, <1>8 DEF on_expiry_done, StoppedIsEmpty
    <3>2. CASE ~started
      <4>1. ~armed /\ Pending(entries) = {} /\ armed \in BOOLEAN /\ count \in 0..MaxCount
        BY <3>2, <1>0 DEF StoppedIsEmpty, TypeOK
      <4>2. ~reprogram(entries, FALSE).armed
        BY <4>1, ReprogramIs
      <4> QED BY <4>1, <4>2, <3>2, <1>0, <1>8 DEF on_expiry_done, StoppedIsEmpty, Program
    <3> QED BY <3>1, <3>2, <1>0 DEF TypeOK
  <2>4. HeldSlot'
    BY <1>0, <1>8 DEF on_expiry_done, HeldSlot
  <2> QED BY <2>2, <2>3, <2>4, <1>8, BooksKept DEF on_expiry_done
<1> QED BY <1>1, <1>2, <1>3, <1>4, <1>6, <1>7, <1>8

(* A caller's interval is a number of ticks, and waiters hold it as such.  *)
LEMMA IntervalTyped == \A n \in Intervals : n \in Int /\ n > 0
BY IntervalAssumption

(* timer_arm: the entry goes in when the hardware took it. *)
LEMMA BooksArm ==
  ASSUME Books, NEW n \in Int, NEW kind \in {"once", "motion"}, timer_arm(n, kind)
  PROVE  Books'
<1> USE DEF waiters, hardware
<1>0. TypeOK /\ StoppedIsEmpty /\ entries \in Table
  BY TableTyped DEF Books
<1>1. PICK s \in free_slot(entries) :
        LET e == Inserted(entries, s, n, kind)
            h == reprogram(e, FALSE)
        IN /\ entries' = IF h.ok THEN e ELSE entries
           /\ Program(h)
  BY DEF timer_arm
<1>2. s \in Slot \ Pending(entries)
  BY DEF free_slot
<1>3. armed' \in BOOLEAN /\ count' \in 0..MaxCount
  BY <1>0, <1>1, ProgramTyped
<1>4. Inserted(entries, s, n, kind) \in Table
  BY <1>0, <1>2, FreshIs, InsertedIs DEF Kind
<1>5. entries' \in Table
  BY <1>0, <1>1, <1>4
<1>6. TypeOK'
  BY <1>0, <1>3, <1>5 DEF timer_arm, TypeOK, Table, Entry
<1>7. StoppedIsEmpty' /\ HeldSlot' /\ pc \notin Waiting /\ pc \notin Sleeping
  BY DEF timer_arm, Main, Books, StoppedIsEmpty, HeldSlot, Clearing, Arming, Withdrawing,
         Waiting, Sleeping
<1>8. CASE reprogram(Inserted(entries, s, n, kind), FALSE).ok
  <2>1. entries' = Inserted(entries, s, n, kind)
    BY <1>1, <1>8
  <2> QED BY <2>1, <1>2, <1>6, <1>7, BooksGrow DEF timer_arm
<1>9. CASE ~reprogram(Inserted(entries, s, n, kind), FALSE).ok
  <2>1. entries' = entries
    BY <1>1, <1>9
  <2> QED BY <2>1, <1>6, <1>7, BooksKept DEF timer_arm
<1> QED BY <1>8, <1>9

(* While nobody waits, emptying slots of the table keeps the books. *)
LEMMA BooksShrink ==
  ASSUME Books, TypeOK', StoppedIsEmpty', HeldSlot',
         Pending(entries') \subseteq Pending(entries),
         \A s \in Pending(entries') : entries'[s] = entries[s],
         pc \notin Waiting, UNCHANGED <<sleep_expired, net, pc>>,
         UNCHANGED sleep
  PROVE  Books'
<1>1. OneSlotEach'
  BY DEF Books, OneSlotEach
<1>2. NetWaiter'
  BY DEF Books, NetWaiter
<1>3. Sleeper'
  BY DEF Books, Sleeper
<1>4. NoOrphanEntry'
  BY DEF Books, NoOrphanEntry
<1> QED BY <1>1, <1>2, <1>3, <1>4 DEF Books

(* timer_arm of the next frame with interrupts enabled. *)
LEMMA BooksArmEnabled ==
  ASSUME Books, timer_arm_enabled(Frame, "motion")
  PROVE  Books'
<1> USE DEF waiters, hardware
<1>0. TypeOK /\ entries \in Table /\ Frame \in Int
  BY TableTyped, IntervalAssumption DEF Books
<1>1. PICK s \in free_slot(entries) :
        entries' = Inserted(entries, s, Frame, "motion") /\ slot' = {s}
  BY DEF timer_arm_enabled
<1>2. s \in Slot \ Pending(entries)
  BY <1>1 DEF free_slot
<1>3. /\ pc = "run" /\ pc' = "motion_arming" /\ started
      /\ UNCHANGED <<started, armed, count, irr, intr, ctx, reached, net,
                     sleep_expired, sleep>>
  BY DEF timer_arm_enabled, Main
<1>4. entries' \in Table
  BY <1>0, <1>1, <1>2, FreshIs, InsertedIs DEF Kind
<1>5. TypeOK'
  BY <1>0, <1>1, <1>2, <1>3, <1>4 DEF TypeOK, Table, Entry, PC, Arming
<1>6. StoppedIsEmpty' /\ HeldSlot'
  BY <1>3 DEF StoppedIsEmpty, HeldSlot, Clearing, Arming
<1>7. /\ pc \notin Waiting /\ pc \notin Sleeping
      /\ pc' \notin Waiting /\ pc' \notin Sleeping
  BY <1>3 DEF Waiting, Sleeping
<1> QED BY <1>0, <1>1, <1>2, <1>3, <1>5, <1>6, <1>7, BooksGrow

(* timer_sleep_ns with interrupts enabled: the entry goes in, of whatever  *)
(* length, before reprogram is asked.                                      *)
LEMMA BooksSleepEnabled ==
  ASSUME Books, NEW n \in Asked, timer_arm_enabled(n, "sleep")
  PROVE  Books'
<1> USE DEF waiters, hardware
<1>0. TypeOK /\ entries \in Table /\ n \in Int
  BY TableTyped, AskedAssumption DEF Books
<1>1. PICK s \in free_slot(entries) :
        entries' = Inserted(entries, s, n, "sleep") /\ slot' = {s}
  BY DEF timer_arm_enabled
<1>2. s \in Slot \ Pending(entries)
  BY <1>1 DEF free_slot
<1>3. /\ pc = "run" /\ pc' = "sleep_arming" /\ started /\ sleep_expired' = FALSE
      /\ sleep' = [id |-> Fresh, left |-> n, asked |-> n]
      /\ UNCHANGED <<started, armed, count, irr, intr, ctx, reached, net>>
  BY DEF timer_arm_enabled, Main
<1>4. /\ Fresh \in Identifier /\ Fresh # 0
      /\ \A t \in Pending(entries) : entries[t].id # Fresh
  BY <1>0, FreshIs, CapacityAssumption DEF Identifier
<1>5. /\ entries' \in Table
      /\ Pending(entries') = Pending(entries) \cup {s}
      /\ entries'[s] = [in_use |-> TRUE, left |-> n, id |-> Fresh, kind |-> "sleep"]
      /\ \A t \in Slot \ {s} : entries'[t] = entries[t]
  <2>1. "sleep" \in Kind
    BY DEF Kind
  <2> DEFINE e == Inserted(entries, s, n, "sleep")
  <2>2. /\ e \in Table
        /\ Pending(e) = Pending(entries) \cup {s}
        /\ e[s] = [in_use |-> TRUE, left |-> n, id |-> Fresh, kind |-> "sleep"]
        /\ \A t \in Slot \ {s} : e[t] = entries[t]
    BY <1>0, <1>2, <1>4, <2>1, InsertedIs
  <2>3. entries' = e
    BY <1>1
  <2> HIDE DEF e
  <2> QED BY <2>2, <2>3
<1>6. entries'[s].id = Fresh /\ entries'[s].kind = "sleep" /\ entries'[s].left = n
  BY <1>5
<1>7. \A t \in Pending(entries) : t \in Slot /\ t # s
  BY <1>2 DEF Pending
<1>8. \A t \in Pending(entries) : entries[t].kind # "net" /\ entries[t].kind # "sleep"
  <2>1. sleep.id = 0
    BY <1>3 DEF Books, Sleeper, Sleeping
  <2> QED BY <1>3, <2>1 DEF Books, NoOrphanEntry
<1>9. TypeOK'
  <2>1. sleep' \in [id : Identifier \cup {0}, left : Int, asked : Intervals \cup Asked \cup {0}]
    BY <1>0, <1>3, <1>4
  <2> QED BY <1>0, <1>1, <1>2, <1>3, <1>5, <2>1 DEF TypeOK, Table, Entry, PC, Arming
<1>10. StoppedIsEmpty'
  BY <1>3 DEF StoppedIsEmpty
<1>11. HeldSlot'
  BY <1>1, <1>3, <1>5, <1>7, <1>8 DEF HeldSlot, Clearing, Arming
<1>12. OneSlotEach'
  BY <1>4, <1>5, <1>6, <1>7 DEF Books, OneSlotEach
<1>13. NetWaiter'
  BY <1>3, <1>5, <1>6, <1>7, <1>8 DEF Books, NetWaiter, Waiting
<1>14. Sleeper'
  BY <1>3, <1>4, <1>5, <1>6, <1>7, <1>8 DEF Sleeper, Sleeping
<1>15. NoOrphanEntry'
  BY <1>3, <1>4, <1>5, <1>6, <1>7, <1>8 DEF NoOrphanEntry
<1> QED BY <1>9, <1>10, <1>11, <1>12, <1>13, <1>14, <1>15 DEF Books

(* reprogram is refused while interrupts are enabled, or has nothing to do *)
(* because the interrupt has served everything.                            *)
LEMMA BooksRefused ==
  ASSUME Books, arm_refused
  PROVE  Books'
<1> USE DEF waiters, hardware
<1>0. /\ TypeOK /\ pc \in Arming /\ started
      /\ UNCHANGED <<started, entries, irr, intr, ctx, reached, sleep_expired, sleep, net>>
      /\ Program(reprogram(entries, TRUE))
  BY DEF Books, StoppedIsEmpty, Arming, arm_refused
<1>1. armed' \in BOOLEAN /\ count' \in 0..MaxCount
  BY <1>0, ProgramTyped
<1>2. \/ /\ slot' = {} /\ Pending(entries) = {}
         /\ pc' = IF pc = "sleep_arming" THEN "sleep_loop" ELSE "run"
      \/ /\ slot' = slot
         /\ pc' = IF pc = "sleep_arming" THEN "sleep_withdraw" ELSE "withdraw"
  <2>1. armed \in BOOLEAN /\ count \in 0..MaxCount
    BY <1>0 DEF TypeOK
  <2>2. reprogram(entries, TRUE).ok => Pending(entries) = {}
    BY <2>1, ReprogramIs
  <2> QED BY <2>2 DEF arm_refused
<1>3. TypeOK'
  BY <1>0, <1>1, <1>2 DEF TypeOK, PC, Arming, Withdrawing
<1>4. StoppedIsEmpty'
  BY <1>0 DEF StoppedIsEmpty
<1>5. HeldSlot'
  BY <1>0, <1>2 DEF Books, HeldSlot, Clearing, Arming, Withdrawing
<1>6. /\ pc' \in Waiting <=> pc \in Waiting
      /\ pc' \in Sleeping <=> pc \in Sleeping
  BY <1>0, <1>2 DEF Arming, Waiting, Sleeping
<1> QED BY <1>0, <1>3, <1>4, <1>5, <1>6, BooksKept

(* timer_cancel only looks for the slot; withdraw clears it. *)
LEMMA BooksCancel ==
  ASSUME Books, NEW id \in Identifier, timer_cancel(id)
  PROVE  Books'
<1> USE DEF waiters, hardware
<1>0. /\ TypeOK /\ pc = "run" /\ pc' = "withdraw" /\ started
      /\ slot' = slot_of(entries, id)
      /\ UNCHANGED <<started, entries, armed, count, irr, intr, ctx, reached,
                     sleep_expired, sleep, net>>
  BY DEF Books, timer_cancel, Main
<1>1. TypeOK'
  BY <1>0 DEF TypeOK, PC, Withdrawing, slot_of, Pending
<1>2. StoppedIsEmpty' /\ HeldSlot'
  BY <1>0 DEF StoppedIsEmpty, HeldSlot, Clearing, Withdrawing
<1> QED BY <1>0, <1>1, <1>2, BooksKept DEF Waiting, Sleeping

(* Clearing slots leaves the others as they are. *)
LEMMA ClearedIs ==
  ASSUME NEW e \in Table, NEW X
  PROVE  LET d == [s \in Slot |-> IF s \in X THEN Free ELSE e[s]]
         IN /\ d \in Table
            /\ Pending(d) = Pending(e) \ X
            /\ \A s \in Pending(d) : d[s] = e[s]
BY PendingHolds DEF Table, Entry, Pending, Free

(* Whoever has the slot by then: a sleep has no entry anywhere else.       *)
LEMMA BooksWithdraw ==
  ASSUME Books, withdraw
  PROVE  Books'
<1> USE DEF waiters, hardware
<1>0. /\ TypeOK /\ entries \in Table /\ pc \in Withdrawing /\ started
      /\ slot' = {} /\ sleep' = Awake /\ pc' = "run"
      /\ entries' = [s \in Slot |-> IF s \in slot THEN Free ELSE entries[s]]
      /\ UNCHANGED <<started, irr, intr, ctx, reached, sleep_expired, net>>
  BY TableTyped DEF Books, StoppedIsEmpty, Withdrawing, withdraw
<1>1. armed' \in BOOLEAN /\ count' \in 0..MaxCount
  BY <1>0, ProgramTyped DEF withdraw, TypeOK
<1>2. /\ entries' \in Table
      /\ Pending(entries') = Pending(entries) \ slot
      /\ \A s \in Pending(entries') : entries'[s] = entries[s]
  BY <1>0, ClearedIs
<1>3. TypeOK'
  <2>1. sleep' \in [id : Identifier \cup {0}, left : Int, asked : Intervals \cup Asked \cup {0}]
    BY <1>0 DEF Awake
  <2> QED BY <1>0, <1>1, <1>2, <2>1 DEF TypeOK, Table, Entry, PC
<1>4. StoppedIsEmpty' /\ HeldSlot'
  BY <1>0 DEF StoppedIsEmpty, HeldSlot
<1>5. pc \notin Waiting /\ pc' \notin Waiting /\ pc' \notin Sleeping
  BY <1>0 DEF Withdrawing, Waiting, Sleeping
<1>6. \A s \in Pending(entries') : entries'[s].kind # "sleep"
  <2>1. CASE pc = "sleep_withdraw"
    BY <1>2, <2>1 DEF Books, HeldSlot
  <2>2. CASE pc = "withdraw"
    <3>1. sleep.id = 0
      BY <2>2 DEF Books, Sleeper, Sleeping
    <3> QED BY <1>2, <3>1 DEF Books, NoOrphanEntry
  <2> QED BY <1>0, <2>1, <2>2 DEF Withdrawing
<1>7. OneSlotEach'
  BY <1>2 DEF Books, OneSlotEach
<1>8. NetWaiter'
  BY <1>0, <1>2, <1>5 DEF Books, NetWaiter
<1>9. Sleeper'
  BY <1>0, <1>5, <1>6 DEF Sleeper, Awake
<1>10. NoOrphanEntry'
  <2>1. \A s \in Pending(entries') : entries'[s].kind # "net"
    BY <1>2, <1>5 DEF Books, NoOrphanEntry, Waiting
  <2> QED BY <1>6, <2>1 DEF NoOrphanEntry
<1> QED BY <1>3, <1>4, <1>7, <1>8, <1>9, <1>10 DEF Books

LEMMA BooksStop ==
  ASSUME Books, timer_stop
  PROVE  Books'
<1> USE DEF waiters, hardware
<1>0. TypeOK
  BY DEF Books
<1>1. Pending(entries') = {} /\ entries' \in Table
  BY DEF timer_stop, Pending, Free, Table
<1>2. TypeOK'
  <2>1. /\ started' = FALSE /\ armed' = FALSE /\ count' \in 0..MaxCount
        /\ UNCHANGED <<irr, intr, ctx, reached, pc, sleep_expired, sleep, net, slot>>
    BY <1>0, HardwareAssumption DEF timer_stop, Off, Disarmed, TypeOK
  <2>2. entries' \in [Slot -> {Free} \cup Entry]
    BY <1>1 DEF Table
  <2> QED BY <1>0, <2>1, <2>2 DEF TypeOK, Entry
<1>3. StoppedIsEmpty' /\ HeldSlot' /\ pc \notin Waiting
  BY <1>1 DEF timer_stop, Books, StoppedIsEmpty, HeldSlot, Clearing, Arming, Withdrawing,
              Main, Waiting
<1> QED BY <1>1, <1>2, <1>3, BooksShrink DEF timer_stop

(* timer_sleep_ns: the flag is cleared first, then the entry goes in.      *)
LEMMA BooksSleep ==
  ASSUME Books, NEW n \in Intervals, timer_sleep_ns(n)
  PROVE  Books'
<1> USE DEF waiters, hardware
<1>0. TypeOK /\ StoppedIsEmpty /\ entries \in Table /\ n \in Int
  BY TableTyped, IntervalTyped DEF Books
<1>1. PICK s \in free_slot(entries) :
        LET e == Inserted(entries, s, n, "sleep")
            h == reprogram(e, FALSE)
        IN /\ entries' = IF h.ok THEN e ELSE entries
           /\ Program(h)
           /\ pc' = IF h.ok THEN "sleep_loop" ELSE "run"
           /\ sleep' = IF h.ok THEN [id |-> e[s].id, left |-> n, asked |-> n]
                               ELSE sleep
  BY DEF timer_sleep_ns
<1>2. s \in Slot \ Pending(entries)
  BY DEF free_slot
<1>3. armed' \in BOOLEAN /\ count' \in 0..MaxCount
  BY <1>0, <1>1, ProgramTyped
<1>4. /\ Fresh \in Identifier
      /\ \A t \in Pending(entries) : entries[t].id # Fresh
  BY <1>0, FreshIs
<1> DEFINE e == Inserted(entries, s, n, "sleep")
<1>5. /\ e \in Table
      /\ Pending(e) = Pending(entries) \cup {s}
      /\ e[s] = [in_use |-> TRUE, left |-> n, id |-> Fresh, kind |-> "sleep"]
      /\ \A t \in Slot \ {s} : e[t] = entries[t]
  BY <1>0, <1>2, <1>4, InsertedIs DEF Kind
<1>6. pc = "run" /\ started /\ UNCHANGED <<started, irr, intr, ctx, reached, net, slot>>
      /\ sleep_expired' = FALSE
  BY DEF timer_sleep_ns, Main
<1>9. HeldSlot'
  <2>1. pc \notin Clearing /\ pc' \notin Clearing
    BY <1>1, <1>6 DEF Clearing, Arming, Withdrawing
  <2> QED BY <1>6, <2>1, HeldKept DEF Books
<1>7. CASE ~reprogram(e, FALSE).ok
  <2>1. entries' = entries /\ pc' = "run" /\ sleep' = sleep
    BY <1>1, <1>7
  <2>2. TypeOK'
    BY <1>0, <1>3, <1>6, <2>1 DEF TypeOK
  <2>3. StoppedIsEmpty'
    BY <1>6 DEF StoppedIsEmpty
  <2>4. OneSlotEach' /\ NetWaiter' /\ Sleeper' /\ NoOrphanEntry'
    BY <1>6, <2>1 DEF Books, OneSlotEach, NetWaiter, Sleeper, NoOrphanEntry
  <2> QED BY <1>9, <2>2, <2>3, <2>4 DEF Books
<1>8. CASE reprogram(e, FALSE).ok
  <2>1. entries' = e /\ pc' = "sleep_loop"
        /\ sleep' = [id |-> e[s].id, left |-> n, asked |-> n]
    BY <1>1, <1>8
  <2> HIDE DEF e
  <2>2. e[s].id = Fresh /\ e[s].kind = "sleep" /\ e[s].left = n
    BY <1>5
  <2>3. \A t \in Pending(entries) : t \in Slot /\ t # s
    BY <1>2 DEF Pending
  <2>4. Fresh # 0
    BY <1>4, CapacityAssumption DEF Identifier
  <2>5. TypeOK'
    BY <1>0, <1>3, <1>4, <1>5, <1>6, <2>1, <2>2 DEF TypeOK, PC, Table, Entry
  <2>6. StoppedIsEmpty'
    BY <1>6 DEF StoppedIsEmpty
  <2>7. OneSlotEach'
    BY <1>4, <1>5, <2>1, <2>2, <2>3 DEF Books, OneSlotEach
  <2>8. \A t \in Pending(entries) : entries[t].kind # "net" /\ entries[t].kind # "sleep"
    <3>1. sleep.id = 0
      BY <1>6 DEF Books, Sleeper, Sleeping
    <3> QED BY <1>6, <3>1 DEF Books, NoOrphanEntry
  <2>9. NetWaiter'
    BY <1>5, <1>6, <2>1, <2>2, <2>3, <2>8 DEF Books, NetWaiter, Waiting
  <2>10. Sleeper'
    BY <1>5, <1>6, <2>1, <2>2, <2>3, <2>4, <2>8 DEF Sleeper, Sleeping
  <2>11. NoOrphanEntry'
    BY <1>5, <1>6, <2>1, <2>2, <2>3, <2>4, <2>8 DEF NoOrphanEntry
  <2> QED BY <1>9, <2>5, <2>6, <2>7, <2>9, <2>10, <2>11 DEF Books
<1> QED BY <1>7, <1>8

(* The end of a sleep: its entry has gone with the flag. *)
LEMMA BooksSleepLoop ==
  ASSUME Books, sleep_loop
  PROVE  Books'
<1> USE DEF waiters, hardware
<1>0. TypeOK /\ pc = "sleep_loop" /\ started
      /\ UNCHANGED <<started, entries, hardware, irr, ctx, reached, sleep_expired, net, slot>>
  BY DEF Books, sleep_loop, Main, StoppedIsEmpty
<1>1. StoppedIsEmpty'
  BY <1>0 DEF StoppedIsEmpty
<1>4. HeldSlot'
  <2>1. pc \notin Clearing /\ pc' \notin Clearing
    BY <1>0 DEF sleep_loop, Clearing, Arming, Withdrawing
  <2> QED BY <1>0, <2>1, HeldKept DEF Books
<1>2. CASE sleep_expired
  <2>1. /\ intr' = FALSE /\ pc' = "run"
        /\ sleep' = Awake
    BY <1>2 DEF sleep_loop
  <2>2. TypeOK'
    <3>1. sleep' \in [id : Identifier \cup {0}, left : Int, asked : Intervals \cup Asked \cup {0}]
      BY <2>1 DEF Awake
    <3>2. pc' \in PC /\ intr' \in BOOLEAN
      BY <2>1 DEF PC
    <3> QED BY <1>0, <3>1, <3>2 DEF TypeOK
  <2>3. OneSlotEach'
    BY <1>0 DEF Books, OneSlotEach
  <2>4. NetWaiter'
    BY <1>0, <2>1 DEF Books, NetWaiter, Waiting
  <2>5. \A s \in Pending(entries) : entries[s].kind # "sleep"
    BY <1>2 DEF Books, Sleeper
  <2>6. Sleeper'
    BY <1>0, <2>1, <2>5 DEF Sleeper, Sleeping, Awake
  <2>7. NoOrphanEntry'
    BY <1>0, <2>1, <2>5 DEF Books, NoOrphanEntry
  <2> QED BY <1>1, <1>4, <2>2, <2>3, <2>4, <2>6, <2>7 DEF Books
<1>3. CASE ~sleep_expired
  <2>1. pc' = "sleep_late" /\ UNCHANGED <<intr, sleep>>
    BY <1>3 DEF sleep_loop
  <2>2. TypeOK'
    BY <1>0, <2>1 DEF TypeOK, PC
  <2> QED BY <1>0, <1>1, <1>4, <2>1, <2>2, BooksKept DEF Waiting, Sleeping
<1> QED BY <1>2, <1>3

(* Leaving a sleep early: its entry has gone, or its slot is held. *)
LEMMA BooksGiveUp ==
  ASSUME Books, pc \in {"sleep_late", "sleep_armed"}, GiveUp,
         UNCHANGED <<started, entries, armed, count, irr, intr, ctx, reached,
                     sleep_expired, net>>
  PROVE  Books'
<1>0. TypeOK /\ entries \in Table /\ started
  BY TableTyped DEF Books, StoppedIsEmpty
<1>1. CASE slot_of(entries, sleep.id) # {}
  <2>1. slot' = slot_of(entries, sleep.id) /\ pc' = "sleep_withdraw" /\ sleep' = sleep
    BY <1>1 DEF GiveUp
  <2>2. TypeOK'
    BY <1>0, <2>1 DEF TypeOK, PC, Withdrawing, slot_of, Pending
  <2>3. StoppedIsEmpty'
    BY <1>0 DEF StoppedIsEmpty
  <2>4. HeldSlot'
    BY <2>1 DEF Books, NoOrphanEntry, HeldSlot, Clearing, Withdrawing, slot_of
  <2> QED BY <2>1, <2>2, <2>3, <2>4, BooksKept DEF Waiting, Sleeping
<1>2. CASE slot_of(entries, sleep.id) = {}
  <2>1. sleep' = Awake /\ pc' = "run" /\ slot' = slot
    BY <1>2 DEF GiveUp
  <2>2. TypeOK'
    <3>1. sleep' \in [id : Identifier \cup {0}, left : Int,
                      asked : Intervals \cup Asked \cup {0}]
      BY <2>1 DEF Awake
    <3> QED BY <1>0, <2>1, <3>1 DEF TypeOK, PC
  <2>3. StoppedIsEmpty' /\ OneSlotEach'
    BY <1>0 DEF Books, StoppedIsEmpty, OneSlotEach
  <2>4. HeldSlot'
    BY <2>1, HeldKept DEF Books, Clearing, Arming, Withdrawing
  <2>5. NetWaiter'
    BY <2>1 DEF Books, NetWaiter, Waiting
  <2>6. \A s \in Pending(entries) : entries[s].kind # "sleep"
    BY <1>2 DEF Books, NoOrphanEntry, slot_of
  <2>7. Sleeper'
    BY <2>1, <2>6 DEF Sleeper, Sleeping, Awake
  <2>8. NoOrphanEntry'
    BY <2>1, <2>6 DEF Books, NoOrphanEntry
  <2> QED BY <2>2, <2>3, <2>4, <2>5, <2>7, <2>8 DEF Books
<1> QED BY <1>1, <1>2

(* The two checks before a sleep halts. *)
LEMMA BooksSleepChecks ==
  ASSUME Books, sleep_late \/ sleep_armed
  PROVE  Books'
<1> USE DEF waiters, hardware
<1>0. /\ TypeOK /\ StoppedIsEmpty /\ pc \in {"sleep_late", "sleep_armed"}
      /\ UNCHANGED <<started, entries, armed, count, irr, intr, ctx, reached,
                     sleep_expired, net>>
  BY DEF Books, sleep_late, sleep_armed, Main
<1>1. CASE GiveUp
  BY <1>0, <1>1, BooksGiveUp
<1>2. CASE ~GiveUp
  <2>1. /\ pc' \in {"sleep_armed", "sleep_halt"}
        /\ UNCHANGED <<sleep, slot>>
    BY <1>2 DEF sleep_late, sleep_armed
  <2>2. TypeOK' /\ StoppedIsEmpty'
    BY <1>0, <2>1 DEF TypeOK, StoppedIsEmpty, PC, Halted
  <2>3. HeldSlot'
    BY <1>0, <2>1, HeldKept DEF Books, Clearing, Arming, Withdrawing
  <2> QED BY <1>0, <2>1, <2>2, <2>3, BooksKept DEF Waiting, Sleeping
<1> QED BY <1>1, <1>2

(* network_wait_for_interrupt: the entry is the waiter's, and it halts. *)
LEMMA BooksNetWait ==
  ASSUME Books, NEW n \in Intervals, network_wait_for_interrupt(n)
  PROVE  Books'
<1> USE DEF waiters, hardware
<1>0. TypeOK /\ StoppedIsEmpty /\ entries \in Table /\ n \in Int
  BY TableTyped, IntervalTyped DEF Books
<1>1. PICK s \in free_slot(entries) :
        LET e == Inserted(entries, s, n, "net")
            h == reprogram(e, FALSE)
        IN /\ entries' = IF h.ok THEN e ELSE entries
           /\ Program(h)
           /\ pc' = IF h.ok THEN "net_halted" ELSE "run"
           /\ net' = IF h.ok THEN [id |-> e[s].id, expired |-> FALSE] ELSE net
  BY DEF network_wait_for_interrupt
<1>2. s \in Slot \ Pending(entries)
  BY DEF free_slot
<1>3. armed' \in BOOLEAN /\ count' \in 0..MaxCount
  BY <1>0, <1>1, ProgramTyped
<1>4. /\ Fresh \in Identifier
      /\ \A t \in Pending(entries) : entries[t].id # Fresh
  BY <1>0, FreshIs
<1> DEFINE e == Inserted(entries, s, n, "net")
<1>5. /\ e \in Table
      /\ Pending(e) = Pending(entries) \cup {s}
      /\ e[s] = [in_use |-> TRUE, left |-> n, id |-> Fresh, kind |-> "net"]
      /\ \A t \in Slot \ {s} : e[t] = entries[t]
  BY <1>0, <1>2, <1>4, InsertedIs DEF Kind
<1>6. /\ pc = "run" /\ started
      /\ UNCHANGED <<started, irr, intr, ctx, reached, sleep_expired, sleep, slot>>
  BY DEF network_wait_for_interrupt, Main
<1>9. HeldSlot'
  <2>1. pc \notin Clearing /\ pc' \notin Clearing
    BY <1>1, <1>6 DEF Clearing, Arming, Withdrawing
  <2> QED BY <1>6, <2>1, HeldKept DEF Books
<1>7. CASE ~reprogram(e, FALSE).ok
  <2>1. entries' = entries /\ pc' = "run" /\ net' = net
    BY <1>1, <1>7
  <2>2. TypeOK' /\ StoppedIsEmpty'
    BY <1>0, <1>3, <1>6, <2>1 DEF TypeOK, StoppedIsEmpty
  <2> QED BY <1>6, <1>9, <2>1, <2>2, BooksKept
<1>8. CASE reprogram(e, FALSE).ok
  <2>1. entries' = e /\ pc' = "net_halted" /\ net' = [id |-> e[s].id, expired |-> FALSE]
    BY <1>1, <1>8
  <2> HIDE DEF e
  <2>2. e[s].id = Fresh /\ e[s].kind = "net"
    BY <1>5
  <2>3. \A t \in Pending(entries) : t \in Slot /\ t # s
    BY <1>2 DEF Pending
  <2>4. Fresh # 0
    BY <1>4, CapacityAssumption DEF Identifier
  <2>5. TypeOK'
    BY <1>0, <1>3, <1>4, <1>5, <1>6, <2>1, <2>2 DEF TypeOK, PC, Halted, Table, Entry
  <2>6. StoppedIsEmpty'
    BY <1>6 DEF StoppedIsEmpty
  <2>7. OneSlotEach'
    BY <1>4, <1>5, <2>1, <2>2, <2>3 DEF Books, OneSlotEach
  <2>8. \A t \in Pending(entries) : entries[t].kind # "net" /\ entries[t].kind # "sleep"
    <3>1. sleep.id = 0
      BY <1>6 DEF Books, Sleeper, Sleeping
    <3> QED BY <1>6, <3>1 DEF Books, NoOrphanEntry
  <2>9. NetWaiter'
    BY <1>5, <2>1, <2>2, <2>4 DEF NetWaiter, Waiting
  <2>10. sleep.id = 0
    BY <1>6 DEF Books, Sleeper, Sleeping
  <2>11. Sleeper'
    BY <1>5, <1>6, <2>1, <2>2, <2>3, <2>8, <2>10 DEF Sleeper, Sleeping
  <2>12. NoOrphanEntry'
    BY <1>5, <1>6, <2>1, <2>2, <2>3, <2>8 DEF NoOrphanEntry
  <2> QED BY <1>9, <2>5, <2>6, <2>7, <2>9, <2>11, <2>12 DEF Books
<1> QED BY <1>7, <1>8

(* Once woken, the wait takes its entry out unless the callback has run.   *)
LEMMA BooksNetWoken ==
  ASSUME Books, net_woken
  PROVE  Books'
<1> USE DEF waiters, hardware
<1>0. /\ TypeOK /\ entries \in Table /\ started /\ pc = "net_woken"
      /\ net' = [id |-> 0, expired |-> FALSE]
      /\ UNCHANGED <<started, irr, intr, ctx, reached, sleep_expired, sleep, slot>>
  BY TableTyped DEF Books, net_woken, Main, StoppedIsEmpty
<1>1. /\ armed' \in BOOLEAN /\ count' \in 0..MaxCount /\ pc' \in {"run", "panic"}
      /\ entries' \in Table
      /\ Pending(entries') \subseteq Pending(entries)
      /\ \A s \in Pending(entries') : entries'[s] = entries[s]
      /\ \A s \in Pending(entries') : entries'[s].kind # "net"
  <2>1. CASE net.expired
    BY <1>0, <2>1 DEF net_woken, Books, TypeOK, NetWaiter
  <2>2. CASE ~net.expired
    <3>1. entries' = Removed(entries, net.id) /\ Program(reprogram(entries', FALSE))
          /\ pc' \in {"run", "panic"}
      BY <2>2 DEF net_woken
    <3>2. /\ entries' \in Table
          /\ Pending(entries') = {s \in Pending(entries) : entries[s].id # net.id}
          /\ \A s \in Pending(entries') : entries'[s] = entries[s]
      BY <1>0, <3>1, RemovedIs
    <3>3. armed' \in BOOLEAN /\ count' \in 0..MaxCount
      BY <1>0, <3>1, ProgramTyped
    <3> QED BY <3>1, <3>2, <3>3 DEF Books, NoOrphanEntry
  <2> QED BY <2>1, <2>2
<1>2. TypeOK'
  BY <1>0, <1>1 DEF TypeOK, PC, Table, Entry
<1>3. StoppedIsEmpty'
  BY <1>0 DEF StoppedIsEmpty
<1>4. OneSlotEach'
  BY <1>1 DEF Books, OneSlotEach
<1>5. NetWaiter'
  BY <1>0, <1>1 DEF NetWaiter, Waiting
<1>6. Sleeper'
  BY <1>0, <1>1 DEF Books, Sleeper, Sleeping
<1>7. NoOrphanEntry'
  BY <1>0, <1>1 DEF Books, NoOrphanEntry
<1>8. HeldSlot'
  <2>1. pc \notin Clearing /\ pc' \notin Clearing
    BY <1>0, <1>1 DEF Clearing, Arming, Withdrawing
  <2> QED BY <1>0, <2>1, HeldKept DEF Books
<1> QED BY <1>2, <1>3, <1>4, <1>5, <1>6, <1>7, <1>8 DEF Books

(* One round of expire_reached: what stays in the table, and what a motion *)
(* callback may have put there.                                            *)
LEMMA ExpiredTable ==
  ASSUME TypeOK, expire_reached
  PROVE  \E s \in Pending(entries) :
           /\ Chosen(entries, s)
           /\ entries' \in Table
           /\ armed' \in BOOLEAN /\ count' \in 0..MaxCount
           /\ UNCHANGED hardware \/ (armed' => count' # Off)
           /\ sleep_expired' = (sleep_expired \/ entries[s].kind = "sleep")
           /\ net' = IF entries[s].kind = "net" THEN [net EXCEPT !.expired = TRUE]
                                                ELSE net
           /\ \E t \in Slot :
                /\ Pending(entries') \subseteq (Pending(entries) \ {s}) \cup {t}
                /\ Pending(entries) \ {s} \subseteq Pending(entries')
                /\ t \notin Pending(entries) \ {s}
                /\ \A u \in Pending(entries) \ {s} : entries'[u] = entries[u]
                /\ t \in Pending(entries') =>
                     entries'[t] = [in_use |-> TRUE, left |-> Frame, id |-> Fresh,
                                    kind |-> "motion"]
<1> USE DEF hardware
<1>0. entries \in Table /\ armed \in BOOLEAN /\ count \in 0..MaxCount
  BY TableTyped DEF TypeOK
<1>1. PICK s \in Slot :
       LET freed == [entries EXCEPT ![s] = Free]
           kind == entries[s].kind
       IN /\ Chosen(entries, s)
          /\ sleep_expired' = (sleep_expired \/ kind = "sleep")
          /\ net' = IF kind = "net" THEN [net EXCEPT !.expired = TRUE] ELSE net
          /\ \/ entries' = freed /\ UNCHANGED hardware
             \/ /\ kind = "motion"
                /\ \E t \in free_slot(freed) :
                     LET e == Inserted(freed, t, Frame, "motion")
                         h == reprogram(e, FALSE)
                     IN /\ entries' = IF h.ok THEN e ELSE freed
                        /\ Program(h)
  BY DEF expire_reached
<1>2. s \in Pending(entries)
  BY <1>1 DEF Chosen, Due
<1> DEFINE freed == [entries EXCEPT ![s] = Free]
<1>3. /\ freed \in Table
      /\ Pending(freed) = Pending(entries) \ {s}
      /\ \A u \in Slot \ {s} : freed[u] = entries[u]
  BY <1>0, FreedIs
<1>4. \A u \in Pending(entries) : u \in Slot
  BY DEF Pending
<1> DEFINE Rest(v) ==
        /\ entries' \in Table /\ armed' \in BOOLEAN /\ count' \in 0..MaxCount
        /\ UNCHANGED hardware \/ (armed' => count' # Off)
        /\ Pending(entries') \subseteq Pending(freed) \cup {v}
        /\ Pending(freed) \subseteq Pending(entries')
        /\ v \notin Pending(freed)
        /\ \A u \in Pending(freed) : entries'[u] = freed[u]
        /\ v \in Pending(entries') =>
             entries'[v] = [in_use |-> TRUE, left |-> Frame, id |-> Fresh,
                            kind |-> "motion"]
<1>5. \E v \in Slot : Rest(v)
  <2>1. CASE entries' = freed /\ UNCHANGED hardware
    <3> HIDE DEF freed
    <3>1. s \notin Pending(freed)
      BY <1>3
    <3> QED BY <1>0, <1>3, <2>1, <3>1
  <2>2. ASSUME NEW t \in free_slot(freed),
               LET e == Inserted(freed, t, Frame, "motion")
                   h == reprogram(e, FALSE)
               IN /\ entries' = IF h.ok THEN e ELSE freed
                  /\ Program(h)
        PROVE  \E v \in Slot : Rest(v)
    <3> HIDE DEF freed
    <3>1. t \in Slot \ Pending(freed)
      BY <2>2 DEF free_slot
    <3> DEFINE e == Inserted(freed, t, Frame, "motion")
    <3>2. /\ e \in Table
          /\ Pending(e) = Pending(freed) \cup {t}
          /\ e[t] = [in_use |-> TRUE, left |-> Frame, id |-> Fresh, kind |-> "motion"]
          /\ \A u \in Slot \ {t} : e[u] = freed[u]
      <4>1. Frame \in Int /\ "motion" \in Kind /\ Fresh \in Identifier
        BY IntervalAssumption, FreshIs DEF Kind
      <4> QED BY <1>3, <3>1, <4>1, InsertedIs
    <3>3. armed' \in BOOLEAN /\ count' \in 0..MaxCount
          /\ (armed' => count' # Off)
      BY <1>0, <2>2, ProgramTyped, ReprogramIs DEF Program
    <3>4. entries' = IF reprogram(e, FALSE).ok THEN e ELSE freed
      BY <2>2
    <3>5. \A u \in Pending(freed) : u \in Slot
      BY DEF Pending
    <3> HIDE DEF e
    <3>6. CASE entries' = e
      BY <1>3, <3>1, <3>2, <3>3, <3>5, <3>6
    <3>7. CASE entries' = freed
      BY <1>3, <3>1, <3>3, <3>7
    <3> QED BY <3>4, <3>6, <3>7
  <2> QED BY <1>1, <2>1, <2>2
<1> HIDE DEF freed
<1>6. PICK t \in Slot : Rest(t)
  BY <1>5
<1>7. \A u \in Pending(entries) \ {s} : entries'[u] = entries[u]
  BY <1>3, <1>4, <1>6
<1> QED BY <1>1, <1>2, <1>3, <1>6, <1>7

(* The callback of a sleeping or waiting caller sets its flag as its entry *)
(* goes.                                                                   *)
LEMMA BooksExpire ==
  ASSUME Books, expire_reached
  PROVE  Books'
<1>0. TypeOK
  BY DEF Books
<1>1. UNCHANGED <<started, irr, intr, ctx, reached, pc, sleep, slot>> /\ reached \in (-Slow)..0
  BY <1>0 DEF expire_reached, TypeOK
<1>2. PICK s \in Pending(entries) :
           /\ Chosen(entries, s)
           /\ entries' \in Table
           /\ armed' \in BOOLEAN /\ count' \in 0..MaxCount
           /\ UNCHANGED hardware \/ (armed' => count' # Off)
           /\ sleep_expired' = (sleep_expired \/ entries[s].kind = "sleep")
           /\ net' = IF entries[s].kind = "net" THEN [net EXCEPT !.expired = TRUE]
                                                ELSE net
           /\ \E t \in Slot :
                /\ Pending(entries') \subseteq (Pending(entries) \ {s}) \cup {t}
                /\ Pending(entries) \ {s} \subseteq Pending(entries')
                /\ t \notin Pending(entries) \ {s}
                /\ \A u \in Pending(entries) \ {s} : entries'[u] = entries[u]
                /\ t \in Pending(entries') =>
                     entries'[t] = [in_use |-> TRUE, left |-> Frame, id |-> Fresh,
                                    kind |-> "motion"]
  BY <1>0, <1>1, ExpiredTable
<1>3. PICK t \in Slot :
                /\ Pending(entries') \subseteq (Pending(entries) \ {s}) \cup {t}
                /\ Pending(entries) \ {s} \subseteq Pending(entries')
                /\ t \notin Pending(entries) \ {s}
                /\ \A u \in Pending(entries) \ {s} : entries'[u] = entries[u]
                /\ t \in Pending(entries') =>
                     entries'[t] = [in_use |-> TRUE, left |-> Frame, id |-> Fresh,
                                    kind |-> "motion"]
  BY <1>2
<1>4. t \in Pending(entries') => entries'[t].id = Fresh /\ entries'[t].kind = "motion"
  BY <1>3
<1>5. \A u \in Pending(entries) : entries[u].id # Fresh
  BY <1>0, FreshIs
<1>6. started
  BY DEF Books, StoppedIsEmpty
<1>7. TypeOK'
  <2>1. net' \in [id : Identifier \cup {0}, expired : BOOLEAN]
    BY <1>0, <1>2 DEF TypeOK
  <2>2. sleep_expired' \in BOOLEAN
    BY <1>2
  <2> QED BY <1>0, <1>1, <1>2, <2>1, <2>2 DEF TypeOK, Table, Entry
<1>8. StoppedIsEmpty'
  BY <1>1, <1>6 DEF StoppedIsEmpty
<1>9. OneSlotEach'
  BY <1>3, <1>4, <1>5 DEF Books, OneSlotEach
<1>10. NoOrphanEntry'
  <2>1. net'.id = net.id
    BY <1>0, <1>2 DEF TypeOK
  <2> QED BY <1>1, <1>3, <1>4, <2>1 DEF Books, NoOrphanEntry
<1>11. NetWaiter'
  <2>1. CASE entries[s].kind = "net"
    <3>1. net' = [net EXCEPT !.expired = TRUE]
      BY <1>2, <2>1
    <3>2. net'.expired = TRUE /\ net'.id = net.id
      BY <3>1, <1>0 DEF TypeOK
    <3>3. \A u \in Pending(entries) \ {s} : entries[u].kind # "net"
      BY <2>1 DEF Books, OneSlotEach, NoOrphanEntry
    <3>4. \A u \in Pending(entries') : entries'[u].kind # "net"
      BY <1>3, <1>4, <3>3
    <3> QED BY <1>1, <3>2, <3>4 DEF Books, NetWaiter
  <2>2. CASE entries[s].kind # "net"
    <3>1. net' = net
      BY <1>2, <2>2
    <3>2. \A u \in Pending(entries) : entries[u].id = net.id /\ pc \in Waiting /\ ~net.expired
                                        => u # s
      <4> SUFFICES ASSUME pc \in Waiting, ~net.expired, entries[s].id = net.id
                   PROVE  FALSE
        OBVIOUS
      <4> QED BY <2>2 DEF Books, NetWaiter, OneSlotEach
    <3> QED BY <1>1, <1>3, <1>4, <3>1, <3>2 DEF Books, NetWaiter
  <2> QED BY <2>1, <2>2
<1>12. Sleeper'
  <2>1. sleep_expired' => \A u \in Pending(entries') : entries'[u].kind # "sleep"
    <3>1. entries[s].kind = "sleep" =>
            \A u \in Pending(entries) \ {s} : entries[u].kind # "sleep"
      BY DEF Books, OneSlotEach, NoOrphanEntry
    <3> QED BY <1>2, <1>3, <1>4, <3>1 DEF Books, Sleeper
  <2>2. entries[s].kind = "sleep" => sleep.left <= 0
    <3>1. entries[s].left <= reached
      BY <1>2 DEF Chosen, Due
    <3>2. entries[s].kind = "sleep" => entries[s].left = sleep.left
      BY DEF Books, Sleeper
    <3>3. sleep.left \in Int /\ reached \in Int /\ reached <= 0
      BY <1>0, <1>1, LatenessAssumption DEF TypeOK
    <3> QED BY <3>1, <3>2, <3>3
  <2>3. \A u \in Pending(entries') :
          entries'[u].kind = "sleep" => entries'[u].left = sleep.left
    BY <1>3, <1>4 DEF Books, Sleeper
  <2> QED BY <1>1, <1>2, <2>1, <2>2, <2>3 DEF Books, Sleeper
<1>13. HeldSlot'
  BY <1>1, <1>3, <1>4 DEF Books, HeldSlot
<1> QED BY <1>7, <1>8, <1>9, <1>10, <1>11, <1>12, <1>13 DEF Books

(* Time alone moves every deadline, and the sleeper's with its entry's. *)
LEMMA TickedTable ==
  ASSUME TypeOK, tick
  PROVE  /\ entries' \in Table
         /\ Pending(entries') = Pending(entries)
         /\ \A s \in Pending(entries) :
              /\ entries'[s].id = entries[s].id
              /\ entries'[s].kind = entries[s].kind
              /\ entries'[s].left = Sooner(entries[s].left)
<1>0. entries \in Table
  BY TableTyped
<1>1. \A n \in Int : Sooner(n) \in Int
  BY LatenessAssumption DEF Sooner
<1>2. \A s \in Slot :
        IF s \in Pending(entries)
        THEN /\ entries'[s] = [entries[s] EXCEPT !.left = Sooner(@)]
             /\ entries[s] \in Entry
        ELSE entries'[s] = Free /\ entries'[s] = entries[s]
  BY <1>0, PendingHolds DEF tick, Pending
<1>3. \A s \in Pending(entries) :
        /\ entries'[s] \in Entry
        /\ entries'[s].id = entries[s].id
        /\ entries'[s].kind = entries[s].kind
        /\ entries'[s].left = Sooner(entries[s].left)
        /\ entries'[s].in_use
  BY <1>1, <1>2 DEF Entry, Pending
<1>4. entries' \in Table
  <2>1. entries' = [s \in Slot |-> entries'[s]]
    BY DEF tick
  <2>2. \A s \in Slot : entries'[s] \in {Free} \cup Entry
    BY <1>2, <1>3
  <2> QED BY <2>1, <2>2 DEF Table
<1>5. Pending(entries') = Pending(entries)
  <2>1. \A s \in Slot : s \notin Pending(entries) => entries'[s] = Free
    BY <1>2
  <2>2. Free.in_use = FALSE
    BY DEF Free
  <2>3. \A s \in Slot : s \notin Pending(entries) => ~entries'[s].in_use
    BY <2>1, <2>2
  <2> QED BY <2>3, <1>3 DEF Pending
<1> QED BY <1>3, <1>4, <1>5

LEMMA BooksTick ==
  ASSUME Books, tick
  PROVE  Books'
<1>0. TypeOK
  BY DEF Books
<1>1. /\ entries' \in Table
      /\ Pending(entries') = Pending(entries)
      /\ \A s \in Pending(entries) :
           /\ entries'[s].id = entries[s].id
           /\ entries'[s].kind = entries[s].kind
           /\ entries'[s].left = Sooner(entries[s].left)
  BY <1>0, TickedTable
<1>2. UNCHANGED <<started, armed, intr, ctx, pc, sleep_expired, net, slot>>
  BY DEF tick
<1>3. /\ sleep'.id = sleep.id
      /\ sleep.id # 0 => sleep'.left = Sooner(sleep.left)
      /\ sleep' \in [id : Identifier \cup {0}, left : Int, asked : Intervals \cup Asked \cup {0}]
  <2>1. Sooner(sleep.left) \in Int
    BY <1>0, LatenessAssumption DEF Sooner, TypeOK
  <2>2. CASE sleep.id = 0
    BY <1>0, <2>2 DEF tick, TypeOK
  <2>3. CASE sleep.id # 0
    <3>1. sleep' = [sleep EXCEPT !.left = Sooner(sleep.left)]
      BY <2>3 DEF tick
    <3> QED BY <1>0, <2>1, <3>1 DEF TypeOK
  <2> QED BY <2>2, <2>3
<1>4. count' \in 0..MaxCount /\ irr' \in BOOLEAN /\ reached' \in (-Slow)..0
  <2>1. count' \in 0..MaxCount
    BY <1>0, HardwareAssumption DEF tick, TypeOK, Off
  <2>2. irr' \in BOOLEAN
    BY DEF tick
  <2>3. reached' \in (-Slow)..0
    BY <1>0, LatenessAssumption DEF tick, TypeOK
  <2> QED BY <2>1, <2>2, <2>3
<1>5. TypeOK'
  BY <1>0, <1>1, <1>2, <1>3, <1>4 DEF TypeOK, Table, Entry
<1>6. StoppedIsEmpty'
  BY <1>1, <1>2 DEF Books, StoppedIsEmpty
<1>7. OneSlotEach'
  BY <1>1 DEF Books, OneSlotEach
<1>8. NetWaiter'
  BY <1>1, <1>2 DEF Books, NetWaiter
<1>9. NoOrphanEntry'
  BY <1>1, <1>2, <1>3 DEF Books, NoOrphanEntry
<1>10. Sleeper'
  <2>1. \A s \in Pending(entries') :
          entries'[s].kind = "sleep" => entries'[s].left = sleep'.left
    BY <1>1, <1>3 DEF Books, Sleeper, NoOrphanEntry
  <2>2. sleep.left <= 0 => Sooner(sleep.left) <= 0
    BY <1>0 , LatenessAssumption DEF Sooner, TypeOK
  <2> QED BY <1>1, <1>2, <1>3, <2>1, <2>2 DEF Books, Sleeper
<1>11. HeldSlot'
  BY <1>1, <1>2 DEF Books, HeldSlot
<1> QED BY <1>5, <1>6, <1>7, <1>8, <1>9, <1>10, <1>11 DEF Books

LEMMA BooksInit == Init => Books
<1> SUFFICES ASSUME Init PROVE Books
  OBVIOUS
<1>1. entries \in Table /\ Pending(entries) = {}
  BY DEF Init, Table, Pending, Free
<1>2. 0 \in (-Slow)..0 /\ 0 \in 0..MaxCount
  BY LatenessAssumption, HardwareAssumption
<1>3. sleep \in [id : Identifier \cup {0}, left : Int, asked : Intervals \cup Asked \cup {0}]
  BY DEF Init, Awake
<1>4. TypeOK
  BY <1>1, <1>2, <1>3 DEF Init, TypeOK, Table, Entry, PC, Off
<1>5. NetWaiter /\ Sleeper
  BY <1>1 DEF Init, NetWaiter, Sleeper, Waiting, Sleeping, Awake
<1> QED BY <1>1, <1>4, <1>5 DEF Books, HeldSlot, Init, OneSlotEach, StoppedIsEmpty, NoOrphanEntry

LEMMA BooksNext == Books /\ [Next]_vars => Books'
<1> SUFFICES ASSUME Books, [Next]_vars PROVE Books'
  OBVIOUS
<1>1. CASE UNCHANGED vars
  <2>1. TypeOK' /\ StoppedIsEmpty' /\ HeldSlot'
    <3>1. UNCHANGED <<started, entries, armed, count, irr, intr, ctx, reached, pc,
                      sleep_expired, sleep, net, slot>>
      BY <1>1 DEF vars, hardware, waiters
    <3>2. TypeOK'
      BY <3>1 DEF Books, TypeOK
    <3>3. StoppedIsEmpty' /\ HeldSlot'
      BY <3>1 DEF Books, StoppedIsEmpty, HeldSlot
    <3> QED BY <3>2, <3>3
  <2> QED BY <1>1, <2>1, BooksKept DEF vars, waiters
<1>2. CASE timer_start \/ cpu_interrupt_flag \/ idle \/ other_interrupt
           \/ apic_timer_handler \/ on_expiry_done \/ sleep_halt
  BY <1>2, BooksQuiet
<1>3. CASE timer_stop
  BY <1>3, BooksStop
<1>4. ASSUME NEW n \in Intervals, NEW kind \in {"once", "motion"}, timer_arm(n, kind)
      PROVE  Books'
  BY <1>4, IntervalTyped, BooksArm
<1>5. ASSUME NEW id \in Identifier, timer_cancel(id)
      PROVE  Books'
  BY <1>5, BooksCancel
<1>6. ASSUME NEW n \in Intervals, timer_sleep_ns(n)
      PROVE  Books'
  BY <1>6, BooksSleep
<1>7. ASSUME NEW n \in Intervals, network_wait_for_interrupt(n)
      PROVE  Books'
  BY <1>7, BooksNetWait
<1>8. CASE sleep_loop
  BY <1>8, BooksSleepLoop
<1>9. CASE sleep_late \/ sleep_armed
  BY <1>9, BooksSleepChecks
<1>10. CASE net_woken
  BY <1>10, BooksNetWoken
<1>11. CASE expire_reached
  BY <1>11, BooksExpire
<1>12. CASE tick
  BY <1>12, BooksTick
<1>13. CASE timer_arm_enabled(Frame, "motion")
  BY <1>13, BooksArmEnabled
<1>14. ASSUME NEW n \in Asked, timer_arm_enabled(n, "sleep")
       PROVE  Books'
  BY <1>14, BooksSleepEnabled
<1>15. CASE arm_refused
  BY <1>15, BooksRefused
<1>16. CASE withdraw
  BY <1>16, BooksWithdraw
<1> QED BY <1>1, <1>2, <1>3, <1>4, <1>5, <1>6, <1>7, <1>8, <1>9, <1>10, <1>11, <1>12,
           <1>13, <1>14, <1>15, <1>16
        DEF Next, MainSteps, Interrupt

(* The table and its two waiters agree in every reachable state: a slot is *)
(* named once, a waiter's entry is pending until its callback has set the  *)
(* waiter's flag, and none outlives its waiter (timer.c and network.c).    *)
THEOREM TimerBooks == Spec => []Books
<1>1. Init => Books
  BY BooksInit
<1>2. Books /\ [Next]_vars => Books'
  BY BooksNext
<1> QED BY <1>1, <1>2, PTL DEF Spec

(* timer_sleep_ns and network_wait_for_interrupt leave no entry behind: a  *)
(* callback that writes a waiter's flag is pending only while it waits.    *)
THEOREM NoOrphans == Spec => [](TypeOK /\ NoOrphanEntry)
<1>1. Books => TypeOK /\ NoOrphanEntry
  BY DEF Books
<1> QED BY <1>1, TimerBooks, PTL

-----------------------------------------------------------------------------
(* expire_reached releases the earliest deadline first. *)
LEMMA EarliestFirst ==
  ASSUME Books, expire_reached, NEW s \in Pending(entries), NEW t \in Pending(entries),
         entries[s].left < entries[t].left, entries'[t].id # entries[t].id
  PROVE  entries'[s].id # entries[s].id
<1>1. TypeOK
  BY DEF Books
<1>2. PICK c \in Pending(entries) :
        /\ Chosen(entries, c)
        /\ \E v \in Slot :
             \A u \in Pending(entries) \ {c} : entries'[u] = entries[u]
  BY <1>1, ExpiredTable
<1>3. t = c
  BY <1>2
<1>4. entries[s].left \in Int /\ entries[t].left \in Int /\ reached \in Int
  <2>1. entries \in Table /\ s \in Slot /\ t \in Slot
    BY <1>1, TableTyped DEF Pending
  <2>2. entries[s] \in Entry /\ entries[t] \in Entry
    BY <2>1, PendingHolds
  <2>3. entries[s].left \in Int /\ entries[t].left \in Int
    BY <2>2 DEF Entry
  <2>4. reached \in Int
    BY <1>1, LatenessAssumption DEF TypeOK
  <2> QED BY <2>3, <2>4
<1>5. s \in Due(entries)
  BY <1>2, <1>3, <1>4 DEF Chosen, Due
<1> QED BY <1>2, <1>3, <1>4, <1>5 DEF Chosen

(* Deadlines are served when they are reached, and earliest first.  A      *)
(* sleep that returns normally has lasted its interval (timer_sleep_ns),   *)
(* and expire_reached releases no entry while one with an earlier deadline *)
(* stays.                                                                  *)
THEOREM Served == Spec => ServedOnTime
<1> DEFINE Sound ==
      /\ pc = "sleep_loop" /\ sleep_expired /\ pc' = "run" => sleep.left <= 0
      /\ ctx = "expire" =>
           \A s, t \in Pending(entries) :
             entries[s].left < entries[t].left /\ entries'[t].id # entries[t].id
               => entries'[s].id # entries[s].id
<1>1. Books /\ [Next]_vars => [Sound]_vars
  <2> SUFFICES ASSUME Books, Next PROVE Sound
    OBVIOUS
  <2>1. pc = "sleep_loop" /\ sleep_expired => sleep.left <= 0
    BY DEF Books, Sleeper, Sleeping
  <2>2. ASSUME ctx = "expire", NEW s \in Pending(entries), NEW t \in Pending(entries),
               entries[s].left < entries[t].left, entries'[t].id # entries[t].id
        PROVE  entries'[s].id # entries[s].id
    <3>1. expire_reached \/ on_expiry_done \/ tick
      BY <2>2 DEF Next, MainSteps, Interrupt, timer_start, timer_stop, timer_arm,
           timer_cancel, timer_sleep_ns, network_wait_for_interrupt, sleep_loop,
           sleep_late, sleep_armed, sleep_halt, net_woken, cpu_interrupt_flag, idle,
           other_interrupt, apic_timer_handler, Main, timer_arm_enabled, arm_refused,
           withdraw
    <3>2. CASE expire_reached
      BY <2>2, <3>2, EarliestFirst
    <3>3. CASE on_expiry_done
      BY <2>2, <3>3 DEF on_expiry_done
    <3>4. CASE tick
      BY <2>2, <3>4, TickedTable DEF Books
    <3> QED BY <3>1, <3>2, <3>3, <3>4
  <2> QED BY <2>1, <2>2
<1>2. Spec => [][Sound]_vars
  BY <1>1, TimerBooks, PTL DEF Spec
<1> QED BY <1>2 DEF ServedOnTime

-----------------------------------------------------------------------------
(* Nothing pending goes unscheduled.                                       *)

(* With one deadline in reach reprogram cannot fail, and leaves a running  *)
(* countdown.                                                              *)
LEMMA ProgramFits ==
  ASSUME Books, NEW e \in Table, NEW X, InReach(e, X), Program(reprogram(e, FALSE))
  PROVE  /\ Pending(e) \ X # {} \/ Pending(e) = {} => reprogram(e, FALSE).ok
         /\ armed' => count' # Off
         /\ Pending(e) \ X # {} => armed'
<1>0. armed \in BOOLEAN /\ count \in 0..MaxCount
  BY DEF Books, TypeOK
<1>1. Pending(e) \ X # {} => Interval(e) \in 1..MaxCount
  <2> SUFFICES ASSUME Pending(e) \ X # {} PROVE Interval(e) \in 1..MaxCount
    OBVIOUS
  <2>1. Nearest(e) \in (-Late)..MaxCount
    BY NearestIs
  <2> QED BY <2>1, LatenessAssumption, HardwareAssumption DEF Interval
<1>2. Pending(e) \ X # {} \/ Pending(e) = {} => reprogram(e, FALSE).ok
  BY <1>0, <1>1, ReprogramIs
<1> QED BY <1>0, <1>2, ReprogramIs DEF Program

(* The range holds again once an entry is added that fits, or is excepted. *)
LEMMA InsertedFits ==
  ASSUME Books, Scheduled, slot = {}, NEW s \in free_slot(entries), NEW n \in Nat,
         NEW kind \in Kind, NEW X, s \in X \/ n <= MaxCount
  PROVE  /\ Inserted(entries, s, n, kind) \in Table
         /\ InReach(Inserted(entries, s, n, kind), X)
         /\ Pending(Inserted(entries, s, n, kind)) = Pending(entries) \cup {s}
<1> DEFINE e == Inserted(entries, s, n, kind)
<1>1. s \in Slot \ Pending(entries)
  BY DEF free_slot
<1>2. entries \in Table /\ Fresh \in Identifier /\ n \in Int
  BY TableTyped, FreshIs DEF Books
<1>3. /\ e \in Table
      /\ Pending(e) = Pending(entries) \cup {s}
      /\ e[s] = [in_use |-> TRUE, left |-> n, id |-> Fresh, kind |-> kind]
      /\ \A t \in Slot \ {s} : e[t] = entries[t]
  BY <1>1, <1>2, InsertedIs
<1>4. \A t \in Pending(entries) : t \in Slot \ {s}
  BY <1>1 DEF Pending
<1>5. e[s].left = n /\ -Late <= n
  BY <1>3, LatenessAssumption
<1> HIDE DEF e
<1>6. InReach(e, X)
  BY <1>3, <1>4, <1>5 DEF Scheduled, InReach
<1> QED BY <1>3, <1>6 DEF e

(* The steps that end by programming the hardware for their new table. *)
LEMMA ScheduledByProgram ==
  ASSUME Books, NEW e \in Table, InReach(e, slot'),
         entries' = e, Program(reprogram(e, FALSE)), pc' # "panic"
  PROVE  Scheduled'
<1>1. /\ armed' => count' # Off
      /\ Pending(e) \ slot' # {} => armed'
  BY ProgramFits
<1> QED BY <1>1 DEF Scheduled, NeverPanics

(* Taking entries away, those of the excepted slots among them, leaves     *)
(* what stays in range.                                                    *)
LEMMA FewerFit ==
  ASSUME Scheduled, NEW e, Pending(e) \subseteq Pending(entries),
         \A s \in Pending(e) : e[s] = entries[s],
         NEW X, Pending(e) \cap slot \subseteq X
  PROVE  InReach(e, X)
BY DEF Scheduled, InReach

(* Outside Clearing no slot is excepted. *)
LEMMA NoneHeld ==
  ASSUME Books, pc \notin Clearing
  PROVE  slot = {}
BY DEF Books, HeldSlot

LEMMA ScheduledNext ==
  ASSUME Books, Scheduled, [Next]_vars
  PROVE  Scheduled'
<1> USE DEF hardware, waiters
<1>0. /\ TypeOK /\ entries \in Table /\ armed \in BOOLEAN /\ count \in 0..MaxCount
      /\ \A n \in Intervals : n \in Nat /\ n <= MaxCount
      /\ Frame \in Nat /\ Frame <= MaxCount
      /\ pc # "panic"
  <2>1. TypeOK /\ armed \in BOOLEAN /\ count \in 0..MaxCount
    BY DEF Books, TypeOK
  <2>3. /\ \A n \in Intervals : n \in Nat /\ n <= MaxCount
        /\ Frame \in Nat /\ Frame <= MaxCount
    BY IntervalAssumption, FitAssumption
  <2>4. pc # "panic"
    BY DEF Scheduled, NeverPanics
  <2> QED BY <2>1, <2>3, <2>4, TableTyped
<1>0a. pc \in {"run", "net_woken"} => slot = {}
  BY NoneHeld DEF Clearing, Arming, Withdrawing
<1>1. CASE UNCHANGED vars
  BY <1>1 DEF vars, Scheduled, NeverPanics
<1>2. CASE timer_start \/ cpu_interrupt_flag \/ idle \/ sleep_halt \/ sleep_loop
  BY <1>2 DEF timer_start, cpu_interrupt_flag, idle, sleep_halt, sleep_loop,
              Scheduled, NeverPanics
<1>3. CASE timer_stop
  <2>1. Pending(entries') = {} /\ armed' = FALSE /\ pc' = pc
    BY <1>3 DEF timer_stop, Pending, Free
  <2> QED BY <2>1, <1>0 DEF Scheduled, InReach, NeverPanics
<1>4. Woken # "panic"
  <2>1. CASE pc \in Halted
    BY <2>1 DEF Woken, Halted
  <2>2. CASE pc \notin Halted
    <3>1. Woken = pc
      BY <2>2, Zenon DEF Woken, Halted
    <3> QED BY <3>1, <1>0
  <2> QED BY <2>1, <2>2
<1>5. CASE other_interrupt
  BY <1>4, <1>5 DEF other_interrupt, Scheduled, NeverPanics
<1>6. CASE apic_timer_handler
  <2>1. pc' # "panic" /\ UNCHANGED <<entries, count, slot>>
    BY <1>4, <1>6 DEF apic_timer_handler
  <2>2. CASE ~started
    <3>1. Pending(entries) = {} /\ ~armed /\ armed' = armed
      BY <1>6, <2>2 DEF Books, StoppedIsEmpty, apic_timer_handler
    <3> QED BY <2>1, <3>1 DEF Scheduled, NeverPanics
  <2>3. CASE started /\ armed
    <3>1. armed' = FALSE /\ ctx' = "expire"
      BY <1>6, <2>3 DEF apic_timer_handler
    <3> QED BY <2>1, <3>1, <1>0 DEF Scheduled, NeverPanics
  <2>4. CASE started /\ ~armed
    <3>1. armed' = armed /\ ctx' = ctx
      BY <1>6, <2>4 DEF apic_timer_handler
    <3> QED BY <2>1, <2>4, <3>1 DEF Scheduled, NeverPanics
  <2> QED BY <2>2, <2>3, <2>4
<1>7. ASSUME NEW n \in Intervals, NEW kind \in {"once", "motion"}, timer_arm(n, kind)
      PROVE  Scheduled'
  <2>1. PICK s \in free_slot(entries) :
          LET e == Inserted(entries, s, n, kind)
              h == reprogram(e, FALSE)
          IN /\ entries' = IF h.ok THEN e ELSE entries
             /\ Program(h)
    BY <1>7 DEF timer_arm
  <2> DEFINE e == Inserted(entries, s, n, kind)
  <2>2. e \in Table /\ InReach(e, {}) /\ Pending(e) # {}
    <3>1. n \in Nat /\ n <= MaxCount /\ kind \in Kind
      BY <1>0 DEF Kind
    <3> QED BY <1>0a, <1>7, <3>1, InsertedFits DEF timer_arm, Main
  <2>3. Program(reprogram(e, FALSE)) /\ entries' = IF reprogram(e, FALSE).ok THEN e ELSE entries
    BY <2>1
  <2> HIDE DEF e
  <2>4. entries' = e
    BY <2>2, <2>3, ProgramFits
  <2>5. pc' # "panic" /\ slot' = {}
    BY <1>0, <1>0a, <1>7 DEF timer_arm, Main
  <2> QED BY <2>2, <2>3, <2>4, <2>5, ScheduledByProgram
<1>8. ASSUME NEW id \in Identifier, timer_cancel(id)
      PROVE  Scheduled'
  <2>1. /\ slot = {} /\ pc' = "withdraw"
        /\ UNCHANGED <<entries, armed, count, irr, ctx>>
    BY <1>0a, <1>8 DEF timer_cancel, Main
  <2> QED BY <2>1 DEF Scheduled, InReach, NeverPanics
<1>9. ASSUME NEW n \in Intervals, timer_sleep_ns(n)
      PROVE  Scheduled'
  <2>1. PICK s \in free_slot(entries) :
          LET e == Inserted(entries, s, n, "sleep")
              h == reprogram(e, FALSE)
          IN /\ entries' = IF h.ok THEN e ELSE entries
             /\ Program(h)
             /\ pc' = IF h.ok THEN "sleep_loop" ELSE "run"
    BY <1>9 DEF timer_sleep_ns
  <2> DEFINE e == Inserted(entries, s, n, "sleep")
  <2>2. e \in Table /\ InReach(e, {}) /\ Pending(e) # {} /\ slot' = {}
    <3>1. n \in Nat /\ n <= MaxCount /\ "sleep" \in Kind
      BY <1>0 DEF Kind
    <3> QED BY <1>0a, <1>9, <3>1, InsertedFits DEF timer_sleep_ns, Main
  <2>3. /\ Program(reprogram(e, FALSE))
        /\ entries' = IF reprogram(e, FALSE).ok THEN e ELSE entries
        /\ pc' # "panic"
    BY <2>1
  <2> HIDE DEF e
  <2>4. entries' = e
    BY <2>2, <2>3, ProgramFits
  <2> QED BY <2>2, <2>3, <2>4, ScheduledByProgram
<1>10. ASSUME NEW n \in Intervals, network_wait_for_interrupt(n)
       PROVE  Scheduled'
  <2>1. PICK s \in free_slot(entries) :
          LET e == Inserted(entries, s, n, "net")
              h == reprogram(e, FALSE)
          IN /\ entries' = IF h.ok THEN e ELSE entries
             /\ Program(h)
             /\ pc' = IF h.ok THEN "net_halted" ELSE "run"
    BY <1>10 DEF network_wait_for_interrupt
  <2> DEFINE e == Inserted(entries, s, n, "net")
  <2>2. e \in Table /\ InReach(e, {}) /\ Pending(e) # {} /\ slot' = {}
    <3>1. n \in Nat /\ n <= MaxCount /\ "net" \in Kind
      BY <1>0 DEF Kind
    <3> QED BY <1>0a, <1>10, <3>1, InsertedFits DEF network_wait_for_interrupt, Main
  <2>3. /\ Program(reprogram(e, FALSE))
        /\ entries' = IF reprogram(e, FALSE).ok THEN e ELSE entries
        /\ pc' # "panic"
    BY <2>1
  <2> HIDE DEF e
  <2>4. entries' = e
    BY <2>2, <2>3, ProgramFits
  <2> QED BY <2>2, <2>3, <2>4, ScheduledByProgram
<1>11. CASE net_woken
  <2>0. slot = {} /\ slot' = {}
    BY <1>0a, <1>11 DEF net_woken, Main
  <2>1. CASE net.expired
    BY <1>11, <2>1 DEF net_woken, Scheduled, NeverPanics
  <2>2. CASE ~net.expired
    <3>1. /\ entries' = Removed(entries, net.id) /\ Program(reprogram(entries', FALSE))
          /\ pc' = IF reprogram(entries', FALSE).ok /\ slot_of(entries, net.id) # {}
                   THEN "run" ELSE "panic"
      BY <1>11, <2>2 DEF net_woken
    <3>2. entries' \in Table /\ InReach(entries', {})
      BY <1>0, <2>0, <3>1, RemovedIs, FewerFit
    <3>3. reprogram(entries', FALSE).ok
      BY <3>1, <3>2, ProgramFits
    <3>4. slot_of(entries, net.id) # {}
      BY <1>11, <2>2 DEF net_woken, Main, Books, NetWaiter, Waiting, slot_of
    <3>5. pc' # "panic"
      BY <3>1, <3>3, <3>4
    <3> QED BY <2>0, <3>1, <3>2, <3>5, ScheduledByProgram
  <2> QED BY <2>1, <2>2
<1>12. CASE sleep_late \/ sleep_armed
  <2>1. /\ pc' # "panic" /\ UNCHANGED <<entries, armed, count, irr, ctx>>
        /\ slot = {}
    BY <1>12, NoneHeld DEF sleep_late, sleep_armed, GiveUp, Main, Clearing, Arming,
                           Withdrawing
  <2> QED BY <2>1 DEF Scheduled, InReach, NeverPanics
<1>16. ASSUME NEW n \in Nat, NEW kind \in {"motion", "sleep"}, timer_arm_enabled(n, kind)
       PROVE  Scheduled'
  <2>1. PICK s \in free_slot(entries) :
          entries' = Inserted(entries, s, n, kind) /\ slot' = {s}
    BY <1>16 DEF timer_arm_enabled
  <2>2. slot = {} /\ pc' # "panic" /\ UNCHANGED <<armed, count, irr, ctx>>
    BY <1>0a, <1>16 DEF timer_arm_enabled, Main
  <2>3. InReach(entries', slot') /\ Pending(entries') = Pending(entries) \cup {s}
    BY <2>1, <2>2, InsertedFits DEF Kind
  <2>4. Pending(entries') \ slot' \subseteq Pending(entries) \ slot
    BY <2>1, <2>2, <2>3
  <2> QED BY <2>2, <2>3, <2>4 DEF Scheduled, NeverPanics
<1>17. CASE arm_refused
  <2>1. armed' = armed /\ count' = count
    BY <1>0, <1>17, ReprogramIs DEF arm_refused, Program
  <2>2. pc' # "panic" /\ UNCHANGED <<entries, irr, ctx>>
    BY <1>17 DEF arm_refused
  <2>3. slot' = slot \/ Pending(entries) = {}
    BY <1>0, <1>17, ReprogramIs DEF arm_refused
  <2>4. CASE slot' = slot
    BY <2>1, <2>2, <2>4 DEF Scheduled, NeverPanics
  <2>5. CASE Pending(entries) = {}
    BY <2>1, <2>2, <2>5 DEF Scheduled, InReach, NeverPanics
  <2> QED BY <2>3, <2>4, <2>5
<1>18. CASE withdraw
  <2>1. /\ pc' = "run" /\ slot' = {} /\ UNCHANGED <<irr, ctx>> /\ ctx = "main"
        /\ Program(reprogram(entries', intr)) /\ intr \in BOOLEAN
    BY <1>0, <1>18 DEF withdraw, TypeOK
  <2>2. /\ entries' \in Table
        /\ Pending(entries') = Pending(entries) \ slot
        /\ \A s \in Pending(entries') : entries'[s] = entries[s]
    BY <1>0, <1>18, ClearedIs DEF withdraw
  <2>3. InReach(entries', {})
    BY <2>2, FewerFit
  <2>4. CASE intr = FALSE
    BY <2>1, <2>2, <2>3, <2>4, ScheduledByProgram
  <2>5. CASE intr = TRUE
    <3>1. armed' = armed /\ count' = count
      BY <1>0, <2>1, <2>5, ReprogramIs DEF Program
    <3> QED BY <2>1, <2>2, <2>3, <3>1 DEF Scheduled, NeverPanics
  <2> QED BY <2>1, <2>4, <2>5
<1>13. CASE expire_reached
  <2>1. ctx' = "expire" /\ pc' = pc /\ irr' = irr /\ slot' = slot
    BY <1>13 DEF expire_reached
  <2>2. PICK s \in Pending(entries), t \in Slot :
          /\ UNCHANGED hardware \/ (armed' => count' # Off)
          /\ Pending(entries') \subseteq (Pending(entries) \ {s}) \cup {t}
          /\ \A u \in Pending(entries) \ {s} : entries'[u] = entries[u]
          /\ t \in Pending(entries') =>
               entries'[t] = [in_use |-> TRUE, left |-> Frame, id |-> Fresh,
                              kind |-> "motion"]
    BY <1>0, <1>13, ExpiredTable
  <2>3. t \in Pending(entries') => entries'[t].left = Frame
    BY <2>2
  <2>4. -Late <= Frame /\ Frame <= MaxCount
    BY <1>0, LatenessAssumption
  <2>5. InReach(entries', slot)
    BY <2>2, <2>3, <2>4 DEF Scheduled, InReach
  <2> QED BY <1>0, <2>1, <2>2, <2>5 DEF Scheduled, NeverPanics
<1>14. CASE on_expiry_done
  <2>1. entries' = entries /\ Program(reprogram(entries, FALSE)) /\ pc' = pc /\ slot' = slot
    BY <1>14 DEF on_expiry_done
  <2> QED BY <1>0, <2>1, ScheduledByProgram DEF Scheduled
<1>15. CASE tick
  <2>1. /\ Pending(entries') = Pending(entries)
        /\ \A s \in Pending(entries) : entries'[s].left = Sooner(entries[s].left)
    BY <1>0, <1>15, TickedTable
  <2>2. \A n \in Int : -Late <= n =>
          -Late <= Sooner(n) /\ (n <= MaxCount => Sooner(n) <= MaxCount)
    BY LatenessAssumption, HardwareAssumption DEF Sooner
  <2>2a. \A s \in Pending(entries) : entries[s].left \in Int
    BY <1>0, PendingHolds DEF Entry, Pending
  <2>3. InReach(entries', slot)
    BY <2>1, <2>2, <2>2a DEF Scheduled, InReach
  <2>4. armed => count' # Off \/ irr'
    <3>1. armed => count # 0 \/ irr
      BY DEF Scheduled, Off
    <3>2. /\ irr' = (irr \/ count = 1)
          /\ count' = IF count = 0 THEN 0 ELSE count - 1
      BY <1>15 DEF tick, Off
    <3>3. count \in Nat
      BY <1>0, HardwareAssumption
    <3>4. CASE count = 0 \/ count = 1
      BY <3>1, <3>2, <3>4
    <3>5. CASE count > 1
      BY <3>2, <3>3, <3>5 DEF Off
    <3> QED BY <3>3, <3>4, <3>5
  <2>5. UNCHANGED <<armed, ctx, pc, slot>>
    BY <1>15 DEF tick
  <2> QED BY <2>1, <2>3, <2>4, <2>5 DEF Scheduled, NeverPanics
<1>16a. (\E n \in Asked : timer_arm_enabled(n, "sleep")) \/ timer_arm_enabled(Frame, "motion")
          => Scheduled'
  BY <1>0, <1>16, AskedAssumption
<1> QED BY <1>1, <1>2, <1>3, <1>5, <1>6, <1>7, <1>8, <1>9, <1>10, <1>11, <1>12, <1>13,
           <1>14, <1>15, <1>17, <1>18, <1>0, <1>16a
        DEF Next, MainSteps, Interrupt

(* The invariant of the schedule: no step of the kernel or of the timer    *)
(* interrupt leaves a pending deadline without a running countdown or a    *)
(* latched interrupt, whatever deadlines user threads ask for; the entry   *)
(* timer_arm or timer_cancel has yet to clear is excepted.                 *)
THEOREM ScheduleInductive == Spec => [](Books /\ Scheduled)
<1>1. Init => Books /\ Scheduled
  <2>1. Init => Pending(entries) = {} /\ ~armed /\ pc = "run"
    BY DEF Init, Pending, Free
  <2> QED BY <2>1, BooksInit DEF Scheduled, InReach, NeverPanics
<1>2. (Books /\ Scheduled) /\ [Next]_vars => (Books /\ Scheduled)'
  BY BooksNext, ScheduledNext
<1> QED BY <1>1, <1>2, PTL DEF Spec

(* reprogram: "refusing here would leave an entry pending with nothing     *)
(* scheduled to fire it".  Outside the interrupt a pending entry has its   *)
(* interrupt coming, no waiter leaves an entry behind, and the cancel of   *)
(* network_wait_for_interrupt never panics.                                *)
THEOREM SchedulesExactly == Spec => []ScheduleExact
<1>1. Books /\ Scheduled => ScheduleExact
  BY DEF Books, Scheduled, ScheduleExact, PendingIsScheduled
<1> QED BY <1>1, ScheduleInductive, PTL
=============================================================================
