------------------------ MODULE NativeSchedulerProofs ------------------------
(***************************************************************************)
(* Proofs about native_process_run (NativeScheduler.tla), for every number *)
(* of processes and threads, every list of manifests and every handle.     *)
(***************************************************************************)
EXTENDS NativeScheduler, FiniteSetTheorems, WellFoundedInduction, TLAPS

Process == [active : BOOLEAN, exiting : BOOLEAN, faulted : BOOLEAN,
            generation : 0..MaxGeneration, current_thread : Thread]
Awaited == Seq(Thread \cup Address \cup Item)
Remaining == NoDeadline..Ticks
Record == [state : State, on : Awaited, left : Remaining]
Records == [Thread -> Record]

DevicesTyped ==
  /\ keys \in 0..MaxKeys /\ input \in [Slot -> 0..MaxInput]
  /\ open \in [Slot -> SUBSET Item] /\ ready \in [Slot -> SUBSET Item]

(* Every variable in its range; the records are whole. *)
Typed ==
  /\ manifests \in Seq(Manifest)
  /\ process \in [Slot -> Process]
  /\ threads \in [Slot -> Records]
  /\ DevicesTyped
  /\ generation \in 1..(MaxGeneration + 1)
  /\ current \in Slot /\ cursor \in Slot
  /\ pc \in {"stopped", "loop", "serviced", "user", "halted", "reap"}
  /\ result \in 0..MaxGeneration

(* The process spawned last is active until it is the reported one. *)
NewestIn(active) == \E p \in active : process[p].generation = generation - 1

NewestKnown ==
  /\ \A p \in Slot : process[p].generation < generation
  /\ result < generation
  /\ pc = "stopped" /\ Active # {} => NewestIn(Active)
  /\ pc # "stopped" => result = generation - 1 \/ NewestIn(Active)

(* A thread is in user mode only in a process that runs; a process that    *)
(* faulted is leaving.                                                     *)
Entered == pc = "user" => current \in Running
FaultsEnd == \A p \in Slot : process[p].faulted => process[p].exiting

(* What a thread waits for is what its wait needs. *)
Meant(th) ==
  \A t \in Thread :
    /\ th[t].state = "join" => /\ Head(th[t].on) \in Thread
                              /\ th[Head(th[t].on)].state # "unused"
    /\ th[t].state = "sleep" => th[t].left # NoDeadline

WaitsMeanIt == \A p \in Slot : Meant(threads[p])

Quiet ==
  pc = "halted" =>
    \A p \in Running : /\ Ready(threads[p]) = {}
                       /\ Ending(p) = {}
                       /\ \A t \in Thread : threads[p][t].left = NoDeadline

IInv == Typed /\ NewestKnown /\ Entered /\ FaultsEnd /\ WaitsMeanIt /\ Quiet

-----------------------------------------------------------------------------
(* What the thread system calls do to the records of a process.            *)

Sound(th) == th \in Records /\ Meant(th)

LEMMA Domains ==
  /\ Slot \subseteq Nat /\ Thread \subseteq Nat /\ 0 \in Slot /\ 0 \in Thread
  /\ IsFiniteSet(Thread)
  /\ \A th \in Records : DOMAIN th = Thread
  /\ 0 \in Remaining /\ NoDeadline \in Remaining
  /\ \A n \in 0..Ticks : n \in Remaining /\ n # NoDeadline
<1>1. IsFiniteSet(Thread)
  BY LimitAssumption, FS_Interval DEF Thread
<1> QED BY <1>1, LimitAssumption, BoundAssumption DEF Slot, Thread, Records, NoDeadline, Remaining

LEMMA RecordsAre ==
  /\ Unused \in Record /\ Unused.state = "unused"
  /\ Runnable \in Record /\ Runnable.state = "runnable"
  /\ Exited \in Record /\ Exited.state = "exited"
  /\ [Unused EXCEPT !.state = "faulted"] \in Record
  /\ [Unused EXCEPT !.state = "faulted"].state = "faulted"
<1>1. <<>> \in Awaited
  BY DEF Awaited
<1>2. NoDeadline \in Remaining
  BY Domains
<1>3. {"unused", "runnable", "exited", "faulted"} \subseteq State
  BY DEF State, Terminated
<1>4. \A s \in {"unused", "runnable", "exited", "faulted"} :
        /\ [Unused EXCEPT !.state = s] \in Record
        /\ [Unused EXCEPT !.state = s].state = s
  <2> SUFFICES ASSUME NEW s \in {"unused", "runnable", "exited", "faulted"}
               PROVE  /\ [Unused EXCEPT !.state = s] \in Record
                      /\ [Unused EXCEPT !.state = s].state = s
    OBVIOUS
  <2>1. [Unused EXCEPT !.state = s] = [state |-> s, on |-> <<>>, left |-> NoDeadline]
    BY DEF Unused
  <2>2. s \in State
    BY <1>3
  <2> HIDE DEF NoDeadline
  <2> QED BY <2>1, <2>2, <1>1, <1>2 DEF Record
<1>5. Unused = [Unused EXCEPT !.state = "unused"]
  BY DEF Unused
<1> QED BY <1>4, <1>5 DEF Runnable, Exited

LEMMA ParkedIs ==
  ASSUME NEW how \in Parked, NEW what \in Awaited, NEW n \in Remaining
  PROVE  /\ ParkedOn(how, what, n) \in Record
         /\ ParkedOn(how, what, n).state = how
         /\ ParkedOn(how, what, n).on = what
         /\ ParkedOn(how, what, n).left = n
BY DEF ParkedOn, Record, State

(* A record written over one that is not unused, or over an unused one by  *)
(* one that may be joined, keeps the others' waits meaningful.             *)
LEMMA OneRecord ==
  ASSUME NEW th, Sound(th), NEW t \in Thread, NEW r \in Record,
         r.state # "unused",
         r.state = "join" => /\ Head(r.on) \in Thread \ {t}
                             /\ th[Head(r.on)].state # "unused",
         r.state = "sleep" => r.left # NoDeadline
  PROVE  Sound([th EXCEPT ![t] = r])
<1> DEFINE new == [th EXCEPT ![t] = r]
<1>1. /\ new \in Records /\ new[t] = r
      /\ \A u \in Thread \ {t} : new[u] = th[u]
  BY DEF Sound, Records
<1>2. Meant(th)
  BY DEF Sound
<1> HIDE DEF new
<1>3. \A u \in Thread : th[u].state # "unused" => new[u].state # "unused"
  BY <1>1
<1>4. Meant(new)
  BY <1>1, <1>2, <1>3 DEF Meant
<1> QED BY <1>1, <1>4 DEF Sound, new

(* A step that only ends waits, or ends threads, keeps the records sound. *)
LEMMA EndedRecords ==
  ASSUME NEW th, Sound(th), NEW new \in Records,
         \A t \in Thread : \/ new[t] = th[t]
                           \/ th[t].state # "unused" /\ new[t].state \in {"runnable", "exited"}
  PROVE  Sound(new)
<1>1. \A t \in Thread : th[t].state # "unused" => new[t].state # "unused"
  OBVIOUS
<1>2. Meant(th)
  BY DEF Sound
<1> QED BY <1>1, <1>2 DEF Sound, Meant

LEMMA WakeSound ==
  ASSUME NEW th, Sound(th), NEW address, NEW n
  PROVE  Sound(futex_wake(th, address, n))
<1>1. th \in Records /\ DOMAIN th = Thread
  BY Domains DEF Sound
<1>2. futex_wake(th, address, n) \in Records
  BY <1>1, RecordsAre DEF futex_wake, Records
<1>3. \A t \in Thread :
        \/ futex_wake(th, address, n)[t] = th[t]
        \/ th[t].state = "futex" /\ futex_wake(th, address, n)[t] = Runnable
  BY <1>1 DEF futex_wake, Woken, FutexWaiters
<1> QED BY <1>2, <1>3, RecordsAre, EndedRecords

LEMMA TerminateSound ==
  ASSUME NEW th, Sound(th)
  PROVE  /\ Sound(terminate(th))
         /\ Live(terminate(th)) = {}
<1>1. th \in Records /\ DOMAIN th = Thread
  BY Domains DEF Sound
<1>2. terminate(th) \in Records
  BY <1>1, RecordsAre DEF terminate, Records
<1>3. \A t \in Thread :
        \/ terminate(th)[t] = th[t] /\ th[t].state \in {"unused", "faulted"}
        \/ th[t].state # "unused" /\ terminate(th)[t] = Exited
  BY <1>1 DEF terminate
<1>4. DOMAIN terminate(th) = Thread
  BY <1>2, Domains
<1>5. Live(terminate(th)) = {}
  BY <1>3, <1>4, RecordsAre DEF Live, Terminated
<1> QED BY <1>2, <1>3, <1>5, RecordsAre, EndedRecords

LEMMA NobodySound == Sound(NoThreads)
BY RecordsAre DEF Sound, NoThreads, Records, Meant

LEMMA TickSound ==
  ASSUME NEW th, Sound(th), NEW new,
         new = [t \in Thread |-> [th[t] EXCEPT !.left = IF @ > 0 THEN @ - 1 ELSE @]]
  PROVE  Sound(new)
<1>1. \A t \in Thread : th[t] \in Record
  BY DEF Sound, Records
<1>2. \A t \in Thread :
        /\ new[t] \in Record
        /\ new[t].state = th[t].state /\ new[t].on = th[t].on
        /\ new[t].left = IF th[t].left > 0 THEN th[t].left - 1 ELSE th[t].left
  <2> SUFFICES ASSUME NEW t \in Thread
               PROVE  /\ new[t] \in Record
                      /\ new[t].state = th[t].state /\ new[t].on = th[t].on
                      /\ new[t].left = IF th[t].left > 0 THEN th[t].left - 1 ELSE th[t].left
    OBVIOUS
  <2>1. th[t].left \in Remaining
    BY <1>1 DEF Record
  <2> DEFINE l == IF th[t].left > 0 THEN th[t].left - 1 ELSE th[t].left
  <2>2. l \in Remaining
    BY <2>1, BoundAssumption DEF NoDeadline, Remaining
  <2>3. new[t] = [th[t] EXCEPT !.left = l]
    OBVIOUS
  <2> HIDE DEF l
  <2>4. /\ new[t] \in Record /\ new[t].left = l
        /\ new[t].state = th[t].state /\ new[t].on = th[t].on
    BY <1>1, <2>2, <2>3 DEF Record
  <2> QED BY <2>4 DEF l
<1>3. new \in Records
  BY <1>2 DEF Records
<1>4. \A t \in Thread : th[t].left # NoDeadline => new[t].left # NoDeadline
  BY <1>1, <1>2, BoundAssumption DEF Record, NoDeadline, Remaining
<1>5. Meant(new)
  BY <1>2, <1>4 DEF Sound, Meant
<1> QED BY <1>3, <1>5 DEF Sound

-----------------------------------------------------------------------------
(* Counting: of the threads waiting for a byte, no more are served than    *)
(* there are bytes.                                                        *)

LEMMA GreatestElement ==
  ASSUME NEW n \in Nat, NEW S \in SUBSET (0..n), S # {}
  PROVE  \E m \in S : \A s \in S : s <= m
<1> DEFINE T == {k \in Nat : n - k \in S}
<1>1. PICK a \in S : TRUE
  OBVIOUS
<1>2. T \subseteq Nat /\ n - a \in T
  BY <1>1
<1>3. IsWellFoundedOn(OpToRel(<, Nat), Nat)
  BY NatLessThanWellFounded
<1>4. PICK k \in T : \A j \in T : ~ (<<j, k>> \in OpToRel(<, Nat))
  <2> HIDE DEF T
  <2> QED BY <1>2, <1>3, WFMin
<1>5. ASSUME NEW j \in T, j < k PROVE FALSE
  <2>1. j \in Nat /\ k \in Nat
    BY <1>2
  <2>2. <<j, k>> \in Nat \X Nat /\ <<j, k>>[1] < <<j, k>>[2]
    BY <2>1, <1>5
  <2>3. <<j, k>> \in OpToRel(<, Nat)
    BY <2>2 DEF OpToRel
  <2> QED BY <2>3, <1>4
<1>6. k \in Nat /\ n - k \in S
  OBVIOUS
<1>7. ASSUME NEW s \in S PROVE s <= n - k
  <2>1. n - s \in T
    BY <1>7
  <2>2. ~ (n - s < k)
    BY <2>1, <1>5
  <2> QED BY <2>2, <1>6
<1> QED BY <1>6, <1>7

LEMMA FirstFew ==
  ASSUME NEW W \in SUBSET Thread, NEW n \in Nat, NEW S,
         S = {t \in W : Cardinality({u \in W : u < t}) < n}
  PROVE  IsFiniteSet(S) /\ Cardinality(S) \in 0..n
<1>1. IsFiniteSet(W)
  BY Domains, FS_Subset
<1>2. IsFiniteSet(S)
  BY <1>1, FS_Subset
<1>3. Cardinality(S) \in Nat
  BY <1>2, FS_CardinalityType
<1>4. CASE S = {}
  <2>1. Cardinality({}) = 0
    BY FS_EmptySet
  <2>2. Cardinality(S) = 0
    BY <1>4, <2>1
  <2> QED BY <1>2, <2>2
<1>5. CASE S # {}
  <2>1. ThreadLimit - 1 \in Nat /\ S \subseteq 0..(ThreadLimit - 1)
    <3>1. S \subseteq Thread
      OBVIOUS
    <3> QED BY <3>1, LimitAssumption DEF Thread
  <2>2. PICK m \in S : \A s \in S : s <= m
    BY <1>5, <2>1, GreatestElement
  <2> DEFINE Below == {u \in W : u < m}
  <2>3. IsFiniteSet(Below) /\ Cardinality(Below) < n
    BY <1>1, <2>2, FS_Subset
  <2>4. S \subseteq Below \cup {m}
    BY <2>1, <2>2
  <2> HIDE DEF Below
  <2>5. /\ IsFiniteSet(Below \cup {m})
        /\ Cardinality(Below \cup {m}) <= Cardinality(Below) + 1
    <3>1. Cardinality(Below) \in Nat
      BY <2>3, FS_CardinalityType
    <3>2. /\ IsFiniteSet(Below \cup {m})
          /\ Cardinality(Below \cup {m}) =
               IF m \in Below THEN Cardinality(Below) ELSE Cardinality(Below) + 1
      BY <2>3, FS_AddElement
    <3> QED BY <3>1, <3>2
  <2>6. Cardinality(S) <= Cardinality(Below \cup {m})
    BY <2>4, <2>5, FS_Subset
  <2>7. Cardinality(Below) \in Nat /\ Cardinality(Below \cup {m}) \in Nat
    BY <2>3, <2>5, FS_CardinalityType
  <2> QED BY <1>2, <1>3, <2>3, <2>5, <2>6, <2>7
<1> QED BY <1>2, <1>4, <1>5

LEMMA ServedFits ==
  ASSUME Typed, NEW p \in Slot
  PROVE  /\ ConsoleServed(p) \subseteq Ending(p)
         /\ Cardinality(ConsoleServed(p)) \in 0..input[p]
<1> DEFINE W == {t \in Thread : threads[p][t].state = "console"}
<1>1. input[p] \in Nat
  BY BoundAssumption DEF Typed, DevicesTyped
<1>2. \A t \in Thread :
        {u \in Thread : u < t /\ threads[p][u].state = "console"} = {u \in W : u < t}
  OBVIOUS
<1>3. ConsoleServed(p) = {t \in W : Cardinality({u \in W : u < t}) < input[p]}
  <2> DEFINE L(t) == {u \in Thread : u < t /\ threads[p][u].state = "console"}
             M(t) == {u \in W : u < t}
  <2>1. \A t \in Thread : L(t) = M(t)
    BY <1>2
  <2>2. ConsoleServed(p) = {t \in Thread : threads[p][t].state = "console"
                                           /\ Cardinality(L(t)) < input[p]}
    BY DEF ConsoleServed
  <2> HIDE DEF L, M
  <2>3. ConsoleServed(p) = {t \in W : Cardinality(M(t)) < input[p]}
    BY <2>1, <2>2
  <2> QED BY <2>3 DEF M
<1>4. W \in SUBSET Thread
  OBVIOUS
<1> HIDE DEF W
<1>5. Cardinality(ConsoleServed(p)) \in 0..input[p]
  BY <1>1, <1>3, <1>4, FirstFew
<1> QED BY <1>5 DEF Ending

-----------------------------------------------------------------------------
(* What a round of the loop does to the records.                           *)

LEMMA SlotSound ==
  ASSUME Typed, WaitsMeanIt, NEW p \in Slot
  PROVE  Sound(threads[p])
BY DEF Typed, WaitsMeanIt, Sound

LEMMA EndingWaits ==
  ASSUME Typed, NEW p \in Slot, NEW t \in Ending(p)
  PROVE  t \in Thread /\ threads[p][t].state \in Parked
BY DEF Ending, ConsoleServed, expired, joined, Parked

LEMMA UpdatedIs ==
  ASSUME Typed, WaitsMeanIt, NEW p \in Slot
  PROVE  /\ Sound(Updated(p)) /\ Sound(terminate(Updated(p)))
         /\ \A t \in Ending(p) : Updated(p)[t].state = "runnable"
         /\ Ready(Updated(p)) = {} => Ending(p) = {} /\ Updated(p) = threads[p]
         /\ Live(threads[p]) \subseteq Live(Updated(p))
<1>1. Sound(threads[p]) /\ threads[p] \in Records /\ DOMAIN threads[p] = Thread
  BY SlotSound, Domains DEF Sound
<1>2. Ending(p) \subseteq Thread
  BY EndingWaits
<1>3. Updated(p) \in Records /\ DOMAIN Updated(p) = Thread
  BY <1>1, RecordsAre DEF Updated, Records
<1>4. \A t \in Thread : \/ t \in Ending(p) /\ Updated(p)[t] = Runnable
                        \/ t \notin Ending(p) /\ Updated(p)[t] = threads[p][t]
  BY DEF Updated
<1>5. Sound(Updated(p))
  <2>1. \A t \in Ending(p) : threads[p][t].state # "unused"
    BY EndingWaits DEF Parked
  <2> QED BY <1>1, <1>3, <1>4, <2>1, RecordsAre, EndedRecords
<1>6. \A t \in Ending(p) : Updated(p)[t].state = "runnable"
  BY <1>2, <1>4, RecordsAre
<1>7. ASSUME Ready(Updated(p)) = {} PROVE Ending(p) = {} /\ Updated(p) = threads[p]
  <2>1. Ending(p) = {}
    BY <1>2, <1>3, <1>6, <1>7 DEF Ready
  <2> QED BY <2>1, <1>1, <1>3, <1>4 DEF Records
<1>8. Live(threads[p]) \subseteq Live(Updated(p))
  BY <1>1, <1>3, <1>4, RecordsAre DEF Live, Terminated
<1> QED BY <1>5, <1>6, <1>7, <1>8, TerminateSound

LEMMA RoundThreads ==
  ASSUME Typed, WaitsMeanIt
  PROVE  /\ ThreadsAfterUpdate \in [Slot -> Records]
         /\ \A p \in Slot : Sound(ThreadsAfterUpdate[p])
<1>1. \A p \in Slot : Sound(ThreadsAfterUpdate[p])
  <2> SUFFICES ASSUME NEW p \in Slot PROVE Sound(ThreadsAfterUpdate[p])
    OBVIOUS
  <2>1. \/ ThreadsAfterUpdate[p] = threads[p]
        \/ ThreadsAfterUpdate[p] = terminate(Updated(p))
        \/ ThreadsAfterUpdate[p] = Updated(p)
    BY DEF ThreadsAfterUpdate
  <2> QED BY <2>1, SlotSound, UpdatedIs
<1>2. ThreadsAfterUpdate = [p \in Slot |-> ThreadsAfterUpdate[p]]
  BY DEF ThreadsAfterUpdate
<1> QED BY <1>1, <1>2 DEF Sound

(* Only exiting changes; every process keeps the rest of its record. *)
LEMMA RoundProcesses ==
  ASSUME Typed
  PROVE  /\ ProcessesAfterUpdate \in [Slot -> Process]
         /\ \A p \in Slot :
              /\ ProcessesAfterUpdate[p].active = process[p].active
              /\ ProcessesAfterUpdate[p].faulted = process[p].faulted
              /\ ProcessesAfterUpdate[p].generation = process[p].generation
              /\ ProcessesAfterUpdate[p].exiting <=> process[p].exiting \/ Ends(p)
<1>1. \A p \in Slot : process[p] \in Process
  BY DEF Typed
<1>2. \A p \in Slot :
        /\ ProcessesAfterUpdate[p] \in Process
        /\ ProcessesAfterUpdate[p].active = process[p].active
        /\ ProcessesAfterUpdate[p].faulted = process[p].faulted
        /\ ProcessesAfterUpdate[p].generation = process[p].generation
        /\ ProcessesAfterUpdate[p].exiting <=> process[p].exiting \/ Ends(p)
  <2> SUFFICES ASSUME NEW p \in Slot
               PROVE  /\ ProcessesAfterUpdate[p] \in Process
                      /\ ProcessesAfterUpdate[p].active = process[p].active
                      /\ ProcessesAfterUpdate[p].faulted = process[p].faulted
                      /\ ProcessesAfterUpdate[p].generation = process[p].generation
                      /\ ProcessesAfterUpdate[p].exiting <=> process[p].exiting \/ Ends(p)
    OBVIOUS
  <2>1. CASE Ends(p)
    <3>1. ProcessesAfterUpdate[p] = [process[p] EXCEPT !.exiting = TRUE]
      BY <2>1 DEF ProcessesAfterUpdate
    <3> QED BY <2>1, <3>1, <1>1 DEF Process
  <2>2. CASE ~Ends(p)
    <3>1. ProcessesAfterUpdate[p] = process[p]
      BY <2>2 DEF ProcessesAfterUpdate
    <3> QED BY <2>2, <3>1, <1>1 DEF Process
  <2> QED BY <2>1, <2>2
<1>3. ProcessesAfterUpdate = [p \in Slot |-> ProcessesAfterUpdate[p]]
  BY DEF ProcessesAfterUpdate
<1> QED BY <1>2, <1>3

LEMMA DeliveredTyped ==
  ASSUME Typed, Delivered
  PROVE  /\ input' \in [Slot -> 0..MaxInput]
         /\ \A p \in Slot : ConsoleServed(p) = {} => input'[p] = input[p]
<1>1. \A p \in Slot : input[p] \in 0..MaxInput /\ MaxInput \in Nat
  BY BoundAssumption DEF Typed, DevicesTyped
<1>2. \A p \in Slot : Cardinality(ConsoleServed(p)) \in 0..input[p]
  BY ServedFits
<1>3. \A p \in Slot : input[p] - Cardinality(ConsoleServed(p)) \in 0..MaxInput
  BY <1>1, <1>2
<1>4. input' \in [Slot -> 0..MaxInput]
  BY <1>1, <1>3 DEF Delivered
<1>5. \A p \in Slot : ConsoleServed(p) = {} => input'[p] = input[p]
  <2> SUFFICES ASSUME NEW p \in Slot, ConsoleServed(p) = {} PROVE input'[p] = input[p]
    OBVIOUS
  <2>1. Cardinality(ConsoleServed(p)) = 0
    BY FS_EmptySet
  <2> QED BY <2>1, <1>1 DEF Delivered
<1> QED BY <1>4, <1>5

-----------------------------------------------------------------------------
(* What most steps have in common.                                         *)

(* Same list of manifests, same range of generations. *)
LEMMA SameRanges ==
  ASSUME manifests' = manifests
  PROVE  Process' = Process /\ MaxGeneration' = MaxGeneration
BY DEF Process, MaxGeneration

(* A step that neither starts nor reaps a process. *)
LEMMA SameBooks ==
  ASSUME NewestKnown, generation' = generation, result' = result,
         \A p \in Slot : /\ process'[p].active = process[p].active
                         /\ process'[p].generation = process[p].generation,
         pc' = "stopped" => pc = "stopped" \/ Active = {},
         pc' # "stopped" => pc # "stopped" \/ Active # {}
  PROVE  NewestKnown'
<1>1. Active' = Active /\ Active \subseteq Slot
  BY DEF Active
<1>2. (\E p \in Active : process'[p].generation = generation - 1)
        <=> (\E p \in Active : process[p].generation = generation - 1)
  BY <1>1
<1> QED BY <1>1, <1>2 DEF NewestKnown, NewestIn

(* What a step has to keep, thread records process by process. *)
LEMMA Kept ==
  ASSUME Typed, manifests' = manifests,
         process' \in [Slot -> Process],
         DOMAIN threads' = Slot, threads' = [p \in Slot |-> threads'[p]],
         \A p \in Slot : Sound(threads'[p]),
         FaultsEnd', DevicesTyped',
         generation' \in 1..(MaxGeneration + 1),
         current' \in Slot, cursor' \in Slot,
         pc' \in {"stopped", "loop", "serviced", "user", "halted", "reap"},
         result' \in 0..MaxGeneration,
         NewestKnown', Entered', Quiet'
  PROVE  IInv'
<1>1. Process' = Process /\ MaxGeneration' = MaxGeneration
  BY SameRanges
<1>2. threads' \in [Slot -> Records]
  BY DEF Sound
<1>3. Typed'
  BY <1>1, <1>2 DEF Typed
<1>4. WaitsMeanIt'
  BY DEF WaitsMeanIt, Sound
<1> QED BY <1>3, <1>4 DEF IInv

(* A step that ends outside user mode and not in the halt. *)
LEMMA Landing ==
  ASSUME Typed, manifests' = manifests,
         process' \in [Slot -> Process],
         DOMAIN threads' = Slot, threads' = [p \in Slot |-> threads'[p]],
         \A p \in Slot : Sound(threads'[p]),
         FaultsEnd', DevicesTyped',
         generation' \in 1..(MaxGeneration + 1),
         current' \in Slot, cursor' \in Slot,
         pc' \in {"stopped", "loop", "serviced", "reap"},
         result' \in 0..MaxGeneration,
         NewestKnown'
  PROVE  IInv'
<1>1. Entered' /\ Quiet'
  BY DEF Entered, Quiet
<1> QED BY <1>1, Kept

(* A step that touches neither a process nor a thread. *)
LEMMA Aside ==
  ASSUME IInv, UNCHANGED <<manifests, process, threads, current, cursor, generation, result>>,
         DevicesTyped', pc' \in {"stopped", "loop", "serviced", "reap"},
         pc' = "stopped" => pc = "stopped" \/ Active = {},
         pc' # "stopped" => pc # "stopped" \/ Active # {}
  PROVE  IInv'
<1> USE DEF IInv
<1>1. NewestKnown'
  BY SameBooks
<1>2. FaultsEnd'
  BY DEF FaultsEnd
<1>3. \A p \in Slot : Sound(threads'[p])
  BY SlotSound
<1> QED BY <1>1, <1>2, <1>3, Landing DEF Typed

LEMMA DevicesKept ==
  ASSUME DevicesTyped, UNCHANGED devices
  PROVE  DevicesTyped'
BY DEF DevicesTyped, devices

LEMMA AsideSteps ==
  ASSUME IInv,
         \/ service_native_devices \/ halt_ends \/ syscall_consume
         \/ syscall_handle_close \/ on_interrupt \/ reap_done
         \/ keyboard_interrupt
         \/ device_interrupt
  PROVE  IInv'
<1>1. Typed /\ DevicesTyped
  BY DEF IInv, Typed
<1>2. CASE service_native_devices
  <2>1. \A p \in Slot : Pushed(p) \in 0..MaxInput
    BY <1>1, BoundAssumption DEF Pushed, DevicesTyped
  <2>2. \A p \in Slot : input'[p] \in 0..MaxInput
    BY <1>1, <1>2, <2>1 DEF service_native_devices, DevicesTyped
  <2>3. DevicesTyped'
    BY <1>1, <1>2, <2>2, BoundAssumption DEF service_native_devices, DevicesTyped
  <2> QED BY <1>2, <2>3, Aside DEF service_native_devices, books
<1>3. CASE halt_ends \/ on_interrupt
  <2>1. DevicesTyped'
    BY <1>1, <1>3, DevicesKept DEF halt_ends, on_interrupt
  <2> QED BY <1>3, <2>1, Aside DEF halt_ends, on_interrupt, books
<1>4. CASE syscall_consume
  <2>1. current \in Slot
    BY <1>1 DEF Typed
  <2>2. DevicesTyped'
    BY <1>1, <1>4, <2>1 DEF syscall_consume, DevicesTyped
  <2> QED BY <1>4, <2>2, Aside DEF syscall_consume, books
<1>5. CASE syscall_handle_close
  <2>1. current \in Slot
    BY <1>1 DEF Typed
  <2>2. DevicesTyped'
    BY <1>1, <1>5, <2>1 DEF syscall_handle_close, DevicesTyped
  <2> QED BY <1>5, <2>2, Aside DEF syscall_handle_close, books
<1>6. CASE reap_done
  <2>1. DevicesTyped'
    BY <1>1, <1>6, DevicesKept DEF reap_done
  <2>2. /\ pc' \in {"stopped", "loop"}
        /\ pc' = "stopped" => Active = {}
    BY <1>6 DEF reap_done, Return
  <2> QED BY <1>6, <2>1, <2>2, Aside DEF reap_done, books
<1>7. Interrupted \in {"stopped", "loop", "serviced", "reap"} /\ (Interrupted = "stopped" <=> pc = "stopped")
  BY <1>1 DEF Interrupted, Typed
<1>8. CASE keyboard_interrupt
  <2>1. DevicesTyped'
    BY <1>1, <1>8, BoundAssumption DEF keyboard_interrupt, DevicesTyped
  <2> QED BY <1>7, <1>8, <2>1, Aside DEF keyboard_interrupt, books
<1>9. CASE device_interrupt
  <2>1. DevicesTyped'
    BY <1>1, <1>9 DEF device_interrupt, DevicesTyped, Running, Active
  <2> QED BY <1>7, <1>9, <2>1, Aside DEF device_interrupt, books
<1> QED BY <1>2, <1>3, <1>4, <1>5, <1>6, <1>8, <1>9

-----------------------------------------------------------------------------
(* The system calls of the thread in user mode.                            *)

LEMMA InUser ==
  ASSUME IInv, pc = "user"
  PROVE  /\ current \in Slot /\ current \in Running /\ process[current] \in Process
         /\ Me \in Thread /\ Sound(Mine) /\ Mine \in Records
<1>1. current \in Slot /\ process[current] \in Process
  BY DEF IInv, Typed
<1>2. Me \in Thread
  BY <1>1 DEF Me, Process
<1>3. Sound(Mine)
  BY <1>1, SlotSound DEF IInv, Mine
<1> QED BY <1>1, <1>2, <1>3 DEF IInv, Entered, Sound

LEMMA SyscallKeeps ==
  ASSUME IInv, NEW th, Sound(th), Syscall(th)
  PROVE  IInv'
<1> USE DEF IInv
<1>1. /\ pc = "user" /\ threads' = [threads EXCEPT ![current] = th] /\ pc' = "reap"
      /\ UNCHANGED <<process, devices, current, cursor, books>>
  BY DEF Syscall
<1>2. NewestKnown'
  BY <1>1, SameBooks DEF books
<1>3. FaultsEnd'
  BY <1>1 DEF FaultsEnd
<1>4. DevicesTyped'
  BY <1>1, DevicesKept DEF Typed
<1>5. DOMAIN threads = Slot
  BY DEF Typed
<1>6. \A p \in Slot : Sound(threads'[p])
  <2>1. \A p \in Slot : threads'[p] = th \/ threads'[p] = threads[p]
    BY <1>1, <1>5
  <2> QED BY <2>1, SlotSound
<1>7. DOMAIN threads' = Slot /\ threads' = [p \in Slot |-> threads'[p]]
  BY <1>1, <1>5
<1> QED BY <1>1, <1>2, <1>3, <1>4, <1>6, <1>7, Landing DEF Typed, books

LEMMA ThreadSteps ==
  ASSUME IInv,
         \/ syscall_thread_create \/ syscall_thread_exit \/ syscall_thread_join
         \/ syscall_futex_wait \/ syscall_futex_wake
         \/ syscall_sleep_until \/ syscall_wait
  PROVE  IInv'
<1>1. pc = "user"
  BY DEF syscall_thread_create, syscall_thread_exit, syscall_thread_join,
         syscall_futex_wait, syscall_futex_wake, syscall_sleep_until,
         syscall_wait, Syscall
<1>2. Me \in Thread /\ Sound(Mine) /\ Mine \in Records
  BY <1>1, InUser
<1>3. CASE syscall_thread_create
  <2>1. PICK t \in Thread : Syscall(thread_create(Mine, t))
    BY <1>3 DEF syscall_thread_create
  <2>2. Sound(thread_create(Mine, t))
    BY <1>2, RecordsAre, OneRecord DEF thread_create
  <2> QED BY <2>1, <2>2, SyscallKeeps
<1>4. CASE syscall_thread_exit
  <2>1. Sound(thread_exit(Mine, Me))
    BY <1>2, RecordsAre, OneRecord DEF thread_exit
  <2> QED BY <1>4, <2>1, SyscallKeeps DEF syscall_thread_exit
<1>5. CASE syscall_thread_join
  <2>1. PICK u \in Thread : /\ u # Me /\ Mine[u].state # "unused"
                            /\ Syscall(thread_join(Mine, Me, u))
    BY <1>5 DEF syscall_thread_join
  <2> DEFINE r == ParkedOn("join", <<u>>, NoDeadline)
  <2>2. <<u>> \in Awaited /\ Head(<<u>>) = u
    BY DEF Awaited
  <2>3. "join" \in Parked /\ NoDeadline \in Remaining
    BY Domains DEF Parked
  <2>4. r \in Record /\ r.state = "join" /\ r.on = <<u>>
    BY <2>2, <2>3, ParkedIs
  <2>5. Sound([Mine EXCEPT ![Me] = r])
    <3> HIDE DEF r
    <3>1. Head(r.on) \in Thread \ {Me} /\ Mine[Head(r.on)].state # "unused"
      BY <2>1, <2>2, <2>4
    <3> QED BY <1>2, <2>4, <3>1, OneRecord
  <2>6. Sound(thread_join(Mine, Me, u))
    BY <1>2, <2>5 DEF thread_join
  <2> QED BY <2>1, <2>6, SyscallKeeps
<1>6. CASE syscall_futex_wait
  <2>1. PICK a \in Address, n \in {NoDeadline} \cup 0..Ticks :
          Syscall(futex_wait(Mine, Me, a, n))
    BY <1>6 DEF syscall_futex_wait
  <2>2. <<a>> \in Awaited /\ n \in Remaining
    BY Domains DEF Awaited
  <2>3. "futex" \in Parked
    BY DEF Parked
  <2> DEFINE r == ParkedOn("futex", <<a>>, n)
  <2>4. r \in Record /\ r.state = "futex"
    BY <2>2, <2>3, ParkedIs
  <2>5. Sound([Mine EXCEPT ![Me] = r])
    <3> HIDE DEF r
    <3> QED BY <1>2, <2>4, OneRecord
  <2> QED BY <2>1, <2>5, SyscallKeeps DEF futex_wait
<1>7. CASE syscall_futex_wake
  <2>1. PICK a \in Address, n \in 1..ThreadLimit : Syscall(futex_wake(Mine, a, n))
    BY <1>7 DEF syscall_futex_wake
  <2> QED BY <1>2, <2>1, WakeSound, SyscallKeeps
<1>8. CASE syscall_sleep_until
  <2>1. PICK n \in 1..Ticks : Syscall([Mine EXCEPT ![Me] = ParkedOn("sleep", <<>>, n)])
    BY <1>8 DEF syscall_sleep_until
  <2>2. <<>> \in Awaited
    BY DEF Awaited
  <2>3. "sleep" \in Parked
    BY DEF Parked
  <2>4. n \in 0..Ticks /\ n \in Remaining /\ n # NoDeadline
    BY Domains
  <2> DEFINE r == ParkedOn("sleep", <<>>, n)
  <2>5. r \in Record /\ r.state = "sleep" /\ r.left = n
    BY <2>2, <2>3, <2>4, ParkedIs
  <2>6. Sound([Mine EXCEPT ![Me] = r])
    <3> HIDE DEF r
    <3> QED BY <1>2, <2>4, <2>5, OneRecord
  <2> QED BY <2>1, <2>6, SyscallKeeps
<1>9. CASE syscall_wait
  <2>1. PICK items \in WaitLists, n \in 1..Ticks :
          Syscall([Mine EXCEPT ![Me] = ParkedOn("handle", items, n)])
    BY <1>9 DEF syscall_wait
  <2>2. items \in Awaited
    BY ItemAssumption DEF Awaited
  <2>3. "handle" \in Parked
    BY DEF Parked
  <2>4. n \in 0..Ticks /\ n \in Remaining
    BY Domains
  <2> DEFINE r == ParkedOn("handle", items, n)
  <2>5. r \in Record /\ r.state = "handle"
    BY <2>2, <2>3, <2>4, ParkedIs
  <2>6. Sound([Mine EXCEPT ![Me] = r])
    <3> HIDE DEF r
    <3> QED BY <1>2, <2>5, OneRecord
  <2> QED BY <2>1, <2>6, SyscallKeeps
<1> QED BY <1>3, <1>4, <1>5, <1>6, <1>7, <1>8, <1>9

LEMMA ConsoleReadKeeps ==
  ASSUME IInv, syscall_console_read
  PROVE  IInv'
<1>1. CASE /\ pc = "user" /\ ManifestOf(current).console /\ input[current] = 0
           /\ Syscall([Mine EXCEPT ![Me] = ParkedOn("console", <<>>, NoDeadline)])
  <2>1. Me \in Thread /\ Sound(Mine) /\ Mine \in Records
    BY <1>1, InUser
  <2>2. <<>> \in Awaited
    BY DEF Awaited
  <2>3. "console" \in Parked
    BY DEF Parked
  <2>4. NoDeadline \in Remaining
    BY Domains
  <2> DEFINE r == ParkedOn("console", <<>>, NoDeadline)
  <2>5. r \in Record /\ r.state = "console"
    BY <2>2, <2>3, <2>4, ParkedIs
  <2>6. Sound([Mine EXCEPT ![Me] = r])
    <3> HIDE DEF r
    <3> QED BY <2>1, <2>5, OneRecord
  <2> QED BY <1>1, <2>6, SyscallKeeps
<1>2. CASE /\ pc = "user" /\ input[current] > 0
           /\ input' = [input EXCEPT ![current] = @ - 1]
           /\ pc' = "reap"
           /\ UNCHANGED <<process, threads, keys, open, ready, current, cursor, books>>
  <2>1. current \in Slot /\ DevicesTyped /\ MaxInput \in Nat
    BY BoundAssumption DEF IInv, Typed
  <2>2. input[current] \in 1..MaxInput
    BY <1>2, <2>1 DEF DevicesTyped
  <2>3. DevicesTyped'
    BY <1>2, <2>1, <2>2 DEF DevicesTyped
  <2> QED BY <1>2, <2>3, Aside DEF books
<1> QED BY <1>1, <1>2 DEF syscall_console_read

(* A step that ends the process in user mode, its threads sound. *)
LEMMA Condemned ==
  ASSUME IInv, pc = "user", NEW th, Sound(th), NEW f \in BOOLEAN,
         threads' = [threads EXCEPT ![current] = th],
         process' = [process EXCEPT ![current].exiting = TRUE,
                                    ![current].faulted = f],
         pc' = "reap", UNCHANGED <<devices, current, cursor, books>>
  PROVE  IInv'
<1> USE DEF IInv
<1>1. current \in Slot /\ process[current] \in Process /\ process \in [Slot -> Process]
  BY InUser DEF Typed
<1>2. /\ process' \in [Slot -> Process]
      /\ process'[current].active = process[current].active
      /\ process'[current].generation = process[current].generation
      /\ process'[current].exiting
      /\ \A p \in Slot \ {current} : process'[p] = process[p]
  <2> DEFINE r == [process[current] EXCEPT !.exiting = TRUE, !.faulted = f]
  <2>1. process' = [process EXCEPT ![current] = r]
    BY <1>1
  <2>2. /\ r \in Process /\ r.exiting
        /\ r.active = process[current].active
        /\ r.generation = process[current].generation
    BY <1>1 DEF Process
  <2> HIDE DEF r
  <2> QED BY <1>1, <2>1, <2>2
<1>3. NewestKnown'
  BY <1>2, SameBooks DEF books
<1>4. FaultsEnd'
  BY <1>2 DEF FaultsEnd
<1>5. DevicesTyped'
  BY DevicesKept DEF Typed
<1>6. DOMAIN threads = Slot
  BY DEF Typed
<1>7. \A p \in Slot : Sound(threads'[p])
  <2>1. \A p \in Slot : threads'[p] = th \/ threads'[p] = threads[p]
    BY <1>6
  <2> QED BY <2>1, SlotSound
<1>8. DOMAIN threads' = Slot /\ threads' = [p \in Slot |-> threads'[p]]
  BY <1>6
<1> QED BY <1>2, <1>3, <1>4, <1>5, <1>7, <1>8, Landing DEF Typed, books

LEMMA EndingSteps ==
  ASSUME IInv,
         \/ syscall_thread_create_unwind_fails \/ syscall_exit \/ on_exception
  PROVE  IInv'
<1>1. pc = "user"
  BY DEF syscall_thread_create_unwind_fails, syscall_exit, on_exception
<1>2. /\ current \in Slot /\ Me \in Thread /\ Sound(Mine) /\ Mine \in Records
      /\ process[current] \in Process
      /\ process \in [Slot -> Process] /\ DOMAIN threads = Slot
      /\ threads = [p \in Slot |-> threads[p]]
  BY <1>1, InUser DEF IInv, Typed
<1>3. CASE syscall_thread_create_unwind_fails
  <2>1. threads' = [threads EXCEPT ![current] = Mine]
    BY <1>2, <1>3 DEF syscall_thread_create_unwind_fails, Mine
  <2> QED BY <1>1, <1>2, <1>3, <2>1, Condemned
        DEF syscall_thread_create_unwind_fails, devices
<1>4. CASE syscall_exit
  <2>1. process[current].faulted \in BOOLEAN
    BY <1>2 DEF Process
  <2>2. process' = [process EXCEPT ![current].exiting = TRUE,
                                   ![current].faulted = process[current].faulted]
    <3> DEFINE r == [process[current] EXCEPT !.exiting = TRUE]
               q == [process[current] EXCEPT !.exiting = TRUE,
                                             !.faulted = process[current].faulted]
    <3>1. r = q
      BY <1>2 DEF Process
    <3>2. process' = [process EXCEPT ![current] = r]
      BY <1>4 DEF syscall_exit
    <3>3. [process EXCEPT ![current].exiting = TRUE,
                          ![current].faulted = process[current].faulted]
            = [process EXCEPT ![current] = q]
      BY <1>2
    <3> HIDE DEF r, q
    <3> QED BY <3>1, <3>2, <3>3
  <2>3. Sound(terminate(Mine))
    BY <1>2, TerminateSound
  <2> QED BY <1>1, <1>4, <2>1, <2>2, <2>3, Condemned DEF syscall_exit
<1>5. CASE on_exception
  <2> DEFINE r == [Unused EXCEPT !.state = "faulted"]
  <2>1. r \in Record /\ r.state = "faulted"
    BY RecordsAre
  <2>2. Sound([Mine EXCEPT ![Me] = r])
    <3> HIDE DEF r
    <3> QED BY <1>2, <2>1, OneRecord
  <2>3. Sound(terminate([Mine EXCEPT ![Me] = r]))
    BY <2>2, TerminateSound
  <2> QED BY <1>1, <1>5, <2>3, Condemned DEF on_exception
<1> QED BY <1>3, <1>4, <1>5

-----------------------------------------------------------------------------
(* The loop: a round, the reaping of a process, and around them the spawn  *)
(* of a process and the return of the run.                                 *)

LEMMA RoundFacts ==
  ASSUME IInv
  PROVE  /\ ThreadsAfterUpdate = [p \in Slot |-> ThreadsAfterUpdate[p]]
         /\ DOMAIN ThreadsAfterUpdate = Slot
         /\ ProcessesAfterUpdate \in [Slot -> Process]
         /\ \A p \in Slot : Sound(ThreadsAfterUpdate[p])
         /\ Delivered => DevicesTyped'
BY RoundThreads, RoundProcesses, DeliveredTyped DEF IInv, Typed, DevicesTyped, Delivered

LEMMA Selected ==
  ASSUME IInv, NEW p \in Slot, NextProcess(p), NEW t \in Thread
  PROVE  /\ p \in Running /\ ~Ends(p)
         /\ (p + 1) % ProcessLimit \in Slot
BY LimitAssumption DEF NextProcess, Candidates, Slot

LEMMA EnterUser ==
  ASSUME IInv, enter_user
  PROVE  IInv'
<1> USE DEF IInv
<1>1. PICK p \in Slot, t \in Thread :
        /\ NextProcess(p)
        /\ current' = p /\ cursor' = (p + 1) % ProcessLimit
        /\ process' = [ProcessesAfterUpdate EXCEPT ![p].current_thread = t]
  BY DEF enter_user
<1>2. /\ pc = "serviced" /\ pc' = "user" /\ threads' = ThreadsAfterUpdate
      /\ Delivered /\ UNCHANGED books
  BY DEF enter_user
<1>3. p \in Running /\ ~Ends(p) /\ (p + 1) % ProcessLimit \in Slot
  BY <1>1, Selected
<1> DEFINE pau == ProcessesAfterUpdate
<1>4. /\ pau \in [Slot -> Process]
      /\ \A q \in Slot : /\ pau[q].active = process[q].active
                         /\ pau[q].faulted = process[q].faulted
                         /\ pau[q].generation = process[q].generation
                         /\ pau[q].exiting <=> process[q].exiting \/ Ends(q)
  BY RoundProcesses
<1>5. process' = [pau EXCEPT ![p].current_thread = t]
  BY <1>1
<1> HIDE DEF pau
<1>6. /\ process' \in [Slot -> Process]
      /\ \A q \in Slot : /\ process'[q].active = process[q].active
                         /\ process'[q].faulted = process[q].faulted
                         /\ process'[q].generation = process[q].generation
                         /\ process'[q].exiting <=> process[q].exiting \/ Ends(q)
  <2> DEFINE r == [pau[p] EXCEPT !.current_thread = t]
  <2>1. process' = [pau EXCEPT ![p] = r] /\ pau[p] \in Process
    BY <1>4, <1>5
  <2>2. /\ r \in Process /\ r.active = pau[p].active /\ r.faulted = pau[p].faulted
        /\ r.generation = pau[p].generation /\ r.exiting = pau[p].exiting
    BY <2>1 DEF Process
  <2> HIDE DEF r
  <2> QED BY <1>4, <2>1, <2>2
<1>7. NewestKnown'
  BY <1>2, <1>6, SameBooks DEF books
<1>8. FaultsEnd'
  BY <1>6 DEF FaultsEnd
<1>9. Entered'
  BY <1>1, <1>3, <1>6 DEF Entered, Running, Active
<1>10. Quiet'
  BY <1>2 DEF Quiet
<1> QED BY <1>1, <1>2, <1>3, <1>6, <1>7, <1>8, <1>9, <1>10, RoundFacts, Kept DEF Typed, books

LEMMA EnterUserFails ==
  ASSUME IInv, enter_user_fails
  PROVE  IInv'
<1> USE DEF IInv
<1>1. PICK p \in Slot, t \in Thread :
        /\ NextProcess(p)
        /\ current' = p /\ cursor' = (p + 1) % ProcessLimit
        /\ process' = [ProcessesAfterUpdate EXCEPT ![p].current_thread = t,
                                                   ![p].exiting = TRUE]
        /\ threads' = [ThreadsAfterUpdate EXCEPT ![p] = terminate(@)]
  BY DEF enter_user_fails
<1>2. /\ pc = "serviced" /\ pc' = "reap" /\ Delivered /\ UNCHANGED books
  BY DEF enter_user_fails
<1>3. (p + 1) % ProcessLimit \in Slot
  BY <1>1, Selected
<1> DEFINE pau == ProcessesAfterUpdate
           tau == ThreadsAfterUpdate
<1>4. /\ pau \in [Slot -> Process]
      /\ \A q \in Slot : /\ pau[q].active = process[q].active
                         /\ pau[q].faulted = process[q].faulted
                         /\ pau[q].generation = process[q].generation
                         /\ pau[q].exiting <=> process[q].exiting \/ Ends(q)
  BY RoundProcesses
<1>5. process' = [pau EXCEPT ![p].current_thread = t, ![p].exiting = TRUE]
  BY <1>1
<1>6. /\ DOMAIN tau = Slot /\ \A q \in Slot : Sound(tau[q])
      /\ threads' = [tau EXCEPT ![p] = terminate(tau[p])]
  BY <1>1, RoundFacts
<1> HIDE DEF pau, tau
<1>7. /\ process' \in [Slot -> Process]
      /\ \A q \in Slot : /\ process'[q].active = process[q].active
                         /\ process'[q].faulted = process[q].faulted
                         /\ process'[q].generation = process[q].generation
                         /\ process[q].exiting => process'[q].exiting
  <2> DEFINE r == [pau[p] EXCEPT !.current_thread = t, !.exiting = TRUE]
  <2>1. process' = [pau EXCEPT ![p] = r] /\ pau[p] \in Process
    BY <1>4, <1>5
  <2>2. /\ r \in Process /\ r.active = pau[p].active /\ r.faulted = pau[p].faulted
        /\ r.generation = pau[p].generation /\ r.exiting = TRUE
    BY <2>1 DEF Process
  <2> HIDE DEF r
  <2> QED BY <1>4, <2>1, <2>2
<1>8. NewestKnown'
  BY <1>2, <1>7, SameBooks DEF books
<1>9. FaultsEnd'
  BY <1>7 DEF FaultsEnd
<1>10. /\ DOMAIN threads' = Slot /\ threads' = [q \in Slot |-> threads'[q]]
       /\ \A q \in Slot : threads'[q] = tau[q] \/ threads'[q] = terminate(tau[q])
  BY <1>6
<1>11. \A q \in Slot : Sound(threads'[q])
  BY <1>6, <1>10, TerminateSound
<1>12. DevicesTyped'
  BY <1>2, RoundFacts
<1> QED BY <1>1, <1>2, <1>3, <1>7, <1>8, <1>9, <1>10, <1>11, <1>12, Landing DEF Typed, books

(* The processes that go on after a round without a candidate: nothing in  *)
(* them ended a wait, and they are as they were.                           *)
LEMMA NothingStirs ==
  ASSUME IInv, Candidates = {}, NEW p \in StillRunning
  PROVE  /\ p \in Running /\ ~Ends(p)
         /\ Ready(threads[p]) = {} /\ Ending(p) = {} /\ ConsoleServed(p) = {}
         /\ Updated(p) = threads[p]
<1>1. p \in Slot /\ p \in Running /\ ~Ends(p)
  BY DEF StillRunning, Running, Active
<1>2. Ready(Updated(p)) = {}
  BY <1>1 DEF Candidates
<1>3. Ending(p) = {} /\ Updated(p) = threads[p]
  BY <1>1, <1>2, UpdatedIs DEF IInv
<1>4. ConsoleServed(p) \subseteq Ending(p)
  BY <1>1, ServedFits DEF IInv
<1> QED BY <1>1, <1>2, <1>3, <1>4

LEMMA RoundSame ==
  ASSUME IInv, process' = ProcessesAfterUpdate
  PROVE  /\ process' \in [Slot -> Process] /\ FaultsEnd'
         /\ Running' = StillRunning /\ StillRunning \subseteq Slot
         /\ \A q \in Slot : /\ process'[q].active = process[q].active
                            /\ process'[q].generation = process[q].generation
<1>1. /\ process' \in [Slot -> Process]
      /\ \A q \in Slot : /\ process'[q].active = process[q].active
                         /\ process'[q].faulted = process[q].faulted
                         /\ process'[q].generation = process[q].generation
                         /\ process'[q].exiting <=> process[q].exiting \/ Ends(q)
  BY RoundProcesses DEF IInv
<1>2. FaultsEnd'
  BY <1>1 DEF IInv, FaultsEnd
<1>3. Running' = StillRunning /\ StillRunning \subseteq Slot
  BY <1>1 DEF Running, Active, StillRunning
<1> QED BY <1>1, <1>2, <1>3

(* A process whose threads and devices a step leaves alone ends the same   *)
(* waits before and after.                                                 *)
LEMMA SameEnding ==
  ASSUME NEW p \in Slot, threads'[p] = threads[p], input'[p] = input[p],
         open'[p] = open[p], ready'[p] = ready[p]
  PROVE  Ending(p)' = Ending(p)
<1>1. ConsoleServed(p)' = ConsoleServed(p)
  BY DEF ConsoleServed
<1>2. \A t \in Thread : WaitEnds(p, threads[p][t])' <=> WaitEnds(p, threads[p][t])
  BY DEF WaitEnds, poll_error, poll_wait_items, NetworkResults
<1> QED BY <1>1, <1>2 DEF Ending

LEMMA IdleKeeps ==
  ASSUME IInv, idle
  PROVE  IInv'
<1>1. /\ pc = "serviced" /\ Candidates = {} /\ Delivered
      /\ threads' = ThreadsAfterUpdate /\ process' = ProcessesAfterUpdate
      /\ pc' = IF nearest_deadline THEN "reap" ELSE "halted"
      /\ UNCHANGED <<current, cursor, books>>
  BY DEF idle
<1>2. /\ process' \in [Slot -> Process] /\ FaultsEnd'
      /\ Running' = StillRunning /\ StillRunning \subseteq Slot
      /\ \A q \in Slot : /\ process'[q].active = process[q].active
                         /\ process'[q].generation = process[q].generation
  BY <1>1, RoundSame
<1>3. pc' \in {"reap", "halted"}
  BY <1>1
<1>4. NewestKnown'
  BY <1>1, <1>2, <1>3, SameBooks DEF books, IInv
<1>5. Entered'
  BY <1>3 DEF Entered
<1>6. Quiet'
  <2> SUFFICES ASSUME pc' = "halted", NEW p \in StillRunning
               PROVE  /\ Ready(threads'[p]) = {} /\ Ending(p)' = {}
                      /\ \A t \in Thread : threads'[p][t].left = NoDeadline
    BY <1>2 DEF Quiet
  <2>1. /\ p \in Running /\ ~Ends(p) /\ p \in Slot
        /\ Ready(threads[p]) = {} /\ Ending(p) = {} /\ ConsoleServed(p) = {}
        /\ Updated(p) = threads[p]
    BY <1>1, <1>2, NothingStirs
  <2>2. threads'[p] = threads[p]
    BY <1>1, <2>1 DEF ThreadsAfterUpdate
  <2>3. input'[p] = input[p] /\ open'[p] = open[p] /\ ready'[p] = ready[p]
    BY <1>1, <2>1, DeliveredTyped DEF IInv, Delivered
  <2>4. Ending(p)' = Ending(p)
    BY <2>1, <2>2, <2>3, SameEnding
  <2>5. ~nearest_deadline
    BY <1>1
  <2>6. \A t \in Thread : threads[p][t].left = NoDeadline
    BY <2>1, <2>5 DEF nearest_deadline
  <2> QED BY <2>1, <2>2, <2>4, <2>6
<1>7. DevicesTyped'
  BY <1>1, RoundFacts
<1> QED BY <1>1, <1>2, <1>3, <1>4, <1>5, <1>6, <1>7, RoundFacts, Kept DEF IInv, Typed, books

LEMMA StallKeeps ==
  ASSUME IInv, stall
  PROVE  IInv'
<1> USE DEF IInv
<1>1. /\ pc = "serviced" /\ pc' = "reap" /\ Delivered
      /\ UNCHANGED <<current, cursor, books>>
  BY DEF stall
<1>2. /\ process' = [p \in Slot |->
           IF p \in StillRunning
           THEN [process[p] EXCEPT !.exiting = TRUE, !.faulted = TRUE]
           ELSE ProcessesAfterUpdate[p]]
      /\ threads' = [p \in Slot |->
           IF p \in StillRunning THEN terminate(Updated(p)) ELSE ThreadsAfterUpdate[p]]
  BY DEF stall
<1>3. \A p \in Slot :
        /\ process'[p] \in Process
        /\ process'[p].active = process[p].active
        /\ process'[p].generation = process[p].generation
        /\ process'[p].faulted => process'[p].exiting
  <2> SUFFICES ASSUME NEW p \in Slot
               PROVE  /\ process'[p] \in Process
                      /\ process'[p].active = process[p].active
                      /\ process'[p].generation = process[p].generation
                      /\ process'[p].faulted => process'[p].exiting
    OBVIOUS
  <2>1. CASE p \in StillRunning
    <3>1. process'[p] = [process[p] EXCEPT !.exiting = TRUE, !.faulted = TRUE]
      BY <1>2, <2>1
    <3>2. process[p] \in Process
      BY DEF Typed
    <3> QED BY <3>1, <3>2 DEF Process
  <2>2. CASE p \notin StillRunning
    <3>1. process'[p] = ProcessesAfterUpdate[p]
      BY <1>2, <2>2
    <3>2. ProcessesAfterUpdate[p] \in Process
      BY RoundFacts
    <3> QED BY <3>1, <3>2, RoundProcesses DEF FaultsEnd
  <2> QED BY <2>1, <2>2
<1>4. process' \in [Slot -> Process]
  <2>1. process' = [p \in Slot |-> process'[p]]
    BY <1>2
  <2> QED BY <2>1, <1>3
<1>5. NewestKnown'
  BY <1>1, <1>3, SameBooks DEF books
<1>6. FaultsEnd'
  BY <1>3 DEF FaultsEnd
<1>7. DOMAIN threads' = Slot /\ threads' = [p \in Slot |-> threads'[p]]
  BY <1>2
<1>8. \A p \in Slot : Sound(threads'[p])
  <2>1. \A p \in Slot : \/ threads'[p] = terminate(Updated(p))
                        \/ threads'[p] = ThreadsAfterUpdate[p]
    BY <1>2
  <2> QED BY <2>1, UpdatedIs, RoundFacts
<1>9. DevicesTyped'
  BY <1>1, RoundFacts
<1> QED BY <1>1, <1>4, <1>5, <1>6, <1>7, <1>8, <1>9, Landing DEF Typed, books

LEMMA Nobody ==
  ASSUME manifests \in Seq(Manifest)
  PROVE  NoProcess \in Process
<1>1. 0 \in 0..MaxGeneration /\ 0 \in Thread
  BY Domains DEF MaxGeneration
<1> QED BY <1>1 DEF NoProcess, Process

LEMMA SpawnKeeps ==
  ASSUME IInv, native_process_spawn
  PROVE  IInv'
<1> USE DEF IInv
<1>1. PICK p \in Slot :
        /\ process[p].generation = 0
        /\ process' = [process EXCEPT ![p] =
             [NoProcess EXCEPT !.active = TRUE, !.generation = generation]]
        /\ threads' = [threads EXCEPT ![p] = thread_create(NoThreads, 0)]
        /\ open' = [open EXCEPT ![p] = manifests[generation].items]
  BY DEF native_process_spawn
<1>2. /\ pc = "stopped" /\ pc' = "stopped"
      /\ generation <= MaxGeneration /\ generation' = generation + 1
      /\ UNCHANGED <<manifests, keys, input, ready, current, cursor, pc, result>>
  BY DEF native_process_spawn
<1>3. MaxGeneration \in Nat /\ generation \in 1..MaxGeneration
      /\ manifests \in Seq(Manifest)
  BY <1>2 DEF Typed, MaxGeneration
<1>4. manifests[generation] \in Manifest
  BY <1>3 DEF MaxGeneration
<1> DEFINE r == [NoProcess EXCEPT !.active = TRUE, !.generation = generation]
<1>5. /\ r \in Process /\ r.active /\ r.generation = generation
      /\ r.faulted = FALSE
  <2>1. NoProcess \in Process
    BY <1>3, Nobody
  <2>2. NoProcess.faulted = FALSE
    BY DEF NoProcess
  <2>3. generation \in 0..MaxGeneration
    BY <1>3
  <2> QED BY <2>1, <2>2, <2>3 DEF Process
<1>6. process \in [Slot -> Process] /\ process' = [process EXCEPT ![p] = r]
  BY <1>1 DEF Typed
<1> HIDE DEF r
<1>7. /\ process' \in [Slot -> Process] /\ process'[p] = r
      /\ \A q \in Slot \ {p} : process'[q] = process[q]
  BY <1>5, <1>6
<1>8. NewestKnown'
  <2>1. \A q \in Slot : process[q].generation \in Nat
    BY <1>6, <1>3 DEF Process
  <2>2. \A q \in Slot : process'[q].generation < generation + 1
    BY <1>2, <1>3, <1>5, <1>7, <2>1 DEF NewestKnown
  <2>3. result < generation + 1
    BY <1>2, <1>3 DEF NewestKnown, Typed
  <2>4. p \in Active' /\ process'[p].generation = generation' - 1
    BY <1>2, <1>3, <1>5, <1>7 DEF Active
  <2> QED BY <1>2, <2>2, <2>3, <2>4 DEF NewestKnown, NewestIn
<1>9. FaultsEnd'
  BY <1>5, <1>7 DEF FaultsEnd
<1>10. Sound(thread_create(NoThreads, 0))
  <2>1. NoThreads \in Records
    BY NobodySound DEF Sound
  <2>2. Sound([NoThreads EXCEPT ![0] = Runnable])
    BY <2>1, NobodySound, Domains, RecordsAre, OneRecord
  <2> QED BY <2>2 DEF thread_create
<1>11. DOMAIN threads = Slot
  BY DEF Typed
<1>12. \A q \in Slot : Sound(threads'[q])
  <2>1. \A q \in Slot : \/ threads'[q] = thread_create(NoThreads, 0)
                        \/ threads'[q] = threads[q]
    BY <1>1, <1>11
  <2> QED BY <2>1, <1>10, SlotSound
<1>13. DOMAIN threads' = Slot /\ threads' = [q \in Slot |-> threads'[q]]
  BY <1>1, <1>11
<1>14. DevicesTyped'
  <2>1. manifests[generation].items \in SUBSET Item
    BY <1>4 DEF Manifest
  <2> QED BY <1>1, <1>2, <2>1 DEF Typed, DevicesTyped
<1> QED BY <1>2, <1>3, <1>7, <1>8, <1>9, <1>12, <1>13, <1>14, Landing DEF Typed

LEMMA RunKeeps ==
  ASSUME IInv, native_process_run
  PROVE  IInv'
<1> USE DEF IInv
<1>1. /\ pc = "stopped" /\ Active # {} /\ pc' = "loop" /\ result' = 0
      /\ UNCHANGED <<manifests, process, threads, devices, generation, current, cursor>>
  BY DEF native_process_run
<1>2. MaxGeneration \in Nat /\ generation \in Nat \ {0}
  BY DEF Typed, MaxGeneration
<1>3. Active' = Active
  BY <1>1 DEF Active
<1>4. NewestKnown'
  BY <1>1, <1>2, <1>3 DEF NewestKnown, NewestIn
<1>5. FaultsEnd'
  BY <1>1 DEF FaultsEnd
<1>6. DevicesTyped'
  BY <1>1, DevicesKept DEF Typed
<1>7. \A p \in Slot : Sound(threads'[p])
  BY <1>1, SlotSound
<1> QED BY <1>1, <1>2, <1>4, <1>5, <1>6, <1>7, Landing DEF Typed

(* What the reaped process leaves: its generation is reported if it is the *)
(* newest, and until then the newest one is active.                        *)
LEMMA ReapReports ==
  ASSUME IInv, reap
  PROVE  /\ NewestKnown' /\ result' \in 0..MaxGeneration
         /\ pc' = "stopped" => result' = generation - 1
<1> USE DEF IInv
<1>1. PICK p \in Slot, success \in BOOLEAN :
        /\ Reapable(p)
        /\ result' = IF process[p].generation > result
                     THEN process[p].generation ELSE result
        /\ process' = [process EXCEPT ![p] = NoProcess]
        /\ pc' = IF success THEN "reap" ELSE Return(Active \ {p})
  BY DEF reap
<1>2. pc = "reap" /\ generation' = generation
  BY DEF reap
<1>3. /\ process \in [Slot -> Process] /\ p \in Active
      /\ process[p].generation \in 0..MaxGeneration
      /\ \A q \in Slot : process[q].generation \in Nat
      /\ MaxGeneration \in Nat /\ generation \in Nat /\ result \in 0..MaxGeneration
  BY <1>1 DEF Typed, Process, MaxGeneration, Reapable, newest
<1>4. /\ result' \in 0..MaxGeneration
      /\ result' >= result /\ result' >= process[p].generation
      /\ result' = result \/ result' = process[p].generation
  BY <1>1, <1>3
<1>5. result' < generation
  BY <1>3, <1>4 DEF NewestKnown
<1>6. /\ NoProcess.generation = 0 /\ ~NoProcess.active
      /\ process'[p] = NoProcess
      /\ \A q \in Slot \ {p} : process'[q] = process[q]
  BY <1>1, <1>3 DEF NoProcess
<1>7. Active' = Active \ {p}
  BY <1>6 DEF Active
<1>8. result' = generation - 1 \/ \E q \in Active \ {p} : process[q].generation = generation - 1
  <2>1. result = generation - 1 \/ \E q \in Active : process[q].generation = generation - 1
    BY <1>2 DEF NewestKnown, NewestIn
  <2> QED BY <2>1, <1>3, <1>4, <1>5
<1>9. result' = generation - 1 \/ \E q \in Active' : process'[q].generation = generation - 1
  <2>1. \A q \in Active \ {p} : process'[q] = process[q]
    BY <1>6 DEF Active
  <2> QED BY <1>7, <1>8, <2>1
<1>10. pc' = "stopped" => Active' = {}
  BY <1>1, <1>7 DEF Return
<1>11. \A q \in Slot : process'[q].generation < generation
  BY <1>3, <1>6, <1>5, <1>4 DEF NewestKnown
<1> QED BY <1>2, <1>4, <1>5, <1>9, <1>10, <1>11 DEF NewestKnown, NewestIn

LEMMA ReapKeeps ==
  ASSUME IInv, reap
  PROVE  IInv'
<1> USE DEF IInv
<1>1. PICK p \in Slot, success \in BOOLEAN :
        /\ process' = [process EXCEPT ![p] = NoProcess]
        /\ threads' = [threads EXCEPT ![p] = NoThreads]
        /\ input' = [input EXCEPT ![p] = 0]
        /\ open' = [open EXCEPT ![p] = {}]
        /\ ready' = [ready EXCEPT ![p] = {}]
        /\ pc' = IF success THEN "reap" ELSE Return(Active \ {p})
  BY DEF reap
<1>2. UNCHANGED <<manifests, keys, generation, current, cursor>>
  BY DEF reap
<1>3. process' \in [Slot -> Process]
  BY <1>1, Nobody DEF Typed
<1>4. FaultsEnd'
  <2>1. DOMAIN process = Slot /\ ~NoProcess.faulted
    BY DEF Typed, NoProcess
  <2>2. \A q \in Slot : process'[q] = NoProcess \/ process'[q] = process[q]
    BY <1>1, <2>1
  <2> QED BY <2>1, <2>2 DEF FaultsEnd
<1>5. DOMAIN threads = Slot
  BY DEF Typed
<1>6. \A q \in Slot : Sound(threads'[q])
  <2>1. \A q \in Slot : threads'[q] = NoThreads \/ threads'[q] = threads[q]
    BY <1>1, <1>5
  <2> QED BY <2>1, NobodySound, SlotSound
<1>7. DOMAIN threads' = Slot /\ threads' = [q \in Slot |-> threads'[q]]
  BY <1>1, <1>5
<1>8. DevicesTyped'
  <2>1. 0 \in 0..MaxInput
    BY BoundAssumption
  <2> QED BY <1>1, <1>2, <2>1 DEF Typed, DevicesTyped
<1>9. pc' \in {"stopped", "loop", "reap"}
  BY <1>1 DEF Return
<1> QED BY <1>2, <1>3, <1>4, <1>6, <1>7, <1>8, <1>9, ReapReports, Landing DEF Typed

(* Time: in a halt nothing has a deadline, so nothing moves. *)
LEMMA TickKeeps ==
  ASSUME IInv, tick
  PROVE  IInv'
<1> USE DEF IInv
<1>1. /\ threads' = [p \in Slot |-> [t \in Thread |->
           [threads[p][t] EXCEPT !.left = IF @ > 0 THEN @ - 1 ELSE @]]]
      /\ UNCHANGED <<process, devices, current, cursor, pc, books>>
  BY DEF tick
<1>2. \A p \in Slot : threads'[p] = [t \in Thread |->
        [threads[p][t] EXCEPT !.left = IF @ > 0 THEN @ - 1 ELSE @]]
  BY <1>1
<1>3. \A p \in Slot : Sound(threads'[p])
  BY <1>2, SlotSound, TickSound
<1>4. DOMAIN threads' = Slot /\ threads' = [p \in Slot |-> threads'[p]]
  BY <1>1
<1>5. NewestKnown'
  BY <1>1, SameBooks DEF books
<1>6. FaultsEnd' /\ Entered' /\ Running' = Running
  BY <1>1 DEF FaultsEnd, Entered, Running, Active
<1>7. DevicesTyped'
  BY <1>1, DevicesKept DEF Typed
<1>8. Quiet'
  <2> SUFFICES ASSUME pc = "halted", NEW p \in Running
               PROVE  /\ Ready(threads'[p]) = {} /\ Ending(p)' = {}
                      /\ \A t \in Thread : threads'[p][t].left = NoDeadline
    BY <1>1, <1>6 DEF Quiet
  <2>1. /\ p \in Slot /\ Ready(threads[p]) = {} /\ Ending(p) = {}
        /\ \A t \in Thread : threads[p][t].left = NoDeadline
    BY DEF Quiet, Running, Active
  <2>2. threads[p] \in Records
    BY <2>1 DEF Typed
  <2>3. \A t \in Thread : threads'[p][t] = threads[p][t]
    <3> SUFFICES ASSUME NEW t \in Thread PROVE threads'[p][t] = threads[p][t]
      OBVIOUS
    <3>1. threads[p][t] \in Record /\ threads[p][t].left = NoDeadline
      BY <2>1, <2>2 DEF Records
    <3>2. threads'[p][t] = [threads[p][t] EXCEPT !.left = NoDeadline]
      <4>1. threads'[p][t] = [threads[p][t] EXCEPT !.left =
              IF threads[p][t].left > 0 THEN threads[p][t].left - 1 ELSE threads[p][t].left]
        BY <1>2, <2>1
      <4>2. (IF threads[p][t].left > 0 THEN threads[p][t].left - 1 ELSE threads[p][t].left)
              = NoDeadline
        BY <3>1 DEF NoDeadline
      <4> QED BY <4>1, <4>2
    <3> HIDE DEF NoDeadline
    <3> QED BY <3>1, <3>2 DEF Record
  <2>4. threads'[p] = threads[p]
    <3>1. threads'[p] \in Records
      BY <1>3, <2>1 DEF Sound
    <3> QED BY <2>2, <2>3, <3>1 DEF Records
  <2>5. Ending(p)' = Ending(p)
    BY <1>1, <2>1, <2>4, SameEnding DEF devices
  <2> QED BY <2>1, <2>4, <2>5
<1> QED BY <1>1, <1>3, <1>4, <1>5, <1>6, <1>7, <1>8, Kept DEF Typed, books

-----------------------------------------------------------------------------
(* The results.                                                            *)

LEMMA Starts == Init => IInv
<1> SUFFICES ASSUME Init PROVE IInv
  OBVIOUS
<1>1. manifests \in Seq(Manifest)
  BY ManifestAssumption DEF Init
<1>2. MaxGeneration \in Nat
  BY <1>1 DEF MaxGeneration
<1>3. \A p \in Slot : process[p] = NoProcess /\ threads[p] = NoThreads
  BY DEF Init
<1>4. NoProcess \in Process
  BY <1>1, Nobody
<1>5. process \in [Slot -> Process]
  BY <1>4 DEF Init
<1>6. threads \in [Slot -> Records]
  BY NobodySound DEF Init, Sound
<1>7. DevicesTyped
  BY BoundAssumption DEF Init, DevicesTyped
<1>8. Typed
  BY <1>1, <1>2, <1>5, <1>6, <1>7, Domains DEF Init, Typed
<1>9. Active = {}
  BY <1>3 DEF Active, NoProcess
<1>10. NewestKnown
  BY <1>3, <1>9 DEF Init, NewestKnown, NoProcess
<1>11. FaultsEnd
  BY <1>3 DEF FaultsEnd, NoProcess
<1>12. WaitsMeanIt
  BY <1>3, NobodySound DEF WaitsMeanIt, Sound
<1>13. Entered /\ Quiet
  BY DEF Init, Entered, Quiet
<1> QED BY <1>8, <1>10, <1>11, <1>12, <1>13 DEF IInv

LEMMA Stands ==
  ASSUME IInv, UNCHANGED vars
  PROVE  IInv'
<1> USE DEF IInv
<1>1. UNCHANGED <<process, threads, devices, current, cursor, pc, books>>
  BY DEF vars
<1>2. NewestKnown'
  BY <1>1, SameBooks DEF books
<1>3. FaultsEnd' /\ Entered' /\ Running' = Running
  BY <1>1 DEF FaultsEnd, Entered, Running, Active
<1>4. \A p \in Slot : Sound(threads'[p])
  BY <1>1, SlotSound
<1>5. Quiet'
  <2> SUFFICES ASSUME pc = "halted", NEW p \in Running
               PROVE  /\ Ready(threads'[p]) = {} /\ Ending(p)' = {}
                      /\ \A t \in Thread : threads'[p][t].left = NoDeadline
    BY <1>1, <1>3 DEF Quiet
  <2>1. p \in Slot
    BY DEF Running, Active
  <2>2. Ending(p)' = Ending(p)
    BY <1>1, <2>1, SameEnding DEF devices
  <2> QED BY <1>1, <2>2 DEF Quiet
<1>6. DevicesTyped'
  BY <1>1, DevicesKept DEF Typed
<1> QED BY <1>1, <1>2, <1>3, <1>4, <1>5, <1>6, Kept DEF Typed, books

LEMMA Steps == IInv /\ [Next]_vars => IInv'
<1> SUFFICES ASSUME IInv, [Next]_vars PROVE IInv'
  OBVIOUS
<1>1. CASE native_process_spawn \/ native_process_run
  BY <1>1, SpawnKeeps, RunKeeps
<1>2. CASE service_native_devices \/ halt_ends \/ reap_done
           \/ keyboard_interrupt \/ device_interrupt
  BY <1>2, AsideSteps
<1>3. CASE Round \/ enter_user_fails
  BY <1>3, EnterUser, EnterUserFails, IdleKeeps, StallKeeps DEF Round
<1>4. CASE Leave
  BY <1>4, ThreadSteps, ConsoleReadKeeps, EndingSteps, AsideSteps DEF Leave
<1>5. CASE reap \/ tick
  BY <1>5, ReapKeeps, TickKeeps
<1>6. CASE UNCHANGED vars
  BY <1>6, Stands
<1> QED BY <1>1, <1>2, <1>3, <1>4, <1>5, <1>6 DEF Next

(* Whatever the programs call and the devices do: every record and every   *)
(* counter of native_process_run in its range, the newest process active   *)
(* until it is reported, a thread in user mode only in a running process,  *)
(* waits that mean something, and a halt in which nothing could run.       *)
THEOREM RunInductive == Spec => []IInv
<1> QED BY Starts, Steps, PTL DEF Spec

LEMMA QuietIsSafe == IInv => HaltIsSafe
<1> SUFFICES ASSUME IInv PROVE HaltIsSafe
  OBVIOUS
<1> USE DEF IInv
<1>1. \A p \in Slot, t \in Thread : threads[p][t] \in Record
  BY DEF Typed, Records
<1>2. \A p \in Slot, t \in Thread :
        /\ threads[p][t].state \in State
        /\ threads[p][t].left \in NoDeadline..Ticks
        /\ threads[p][t].on \in Seq(Thread \cup Address \cup Item)
  BY <1>1 DEF Record, Remaining, Awaited
<1>3. \A s \in Seq(Thread \cup Address \cup Item) : Range(s) \subseteq Thread \cup Address \cup Item
  BY DEF Range
<1>4. TypeOK
  BY <1>2, <1>3 DEF TypeOK, Typed, Process, DevicesTyped
<1> QED BY <1>4 DEF HaltIsSafe, Quiet

(* "An idle system cannot halt forever" (native_process_run): whenever the *)
(* core is halted no running process has a runnable thread, a wait whose   *)
(* condition already holds, or a deadline that only the clock could end.   *)
THEOREM HaltsSafely == Spec => []HaltIsSafe
BY RunInductive, QuietIsSafe, PTL

LEMMA ReturnReports ==
  ASSUME IInv, [Next]_vars, pc # "stopped", pc' = "stopped"
  PROVE  result' = generation - 1
<1>1. pc \in {"loop", "serviced", "user", "halted", "reap"}
  BY DEF IInv, Typed
<1>2. Interrupted # "stopped"
  BY <1>1 DEF Interrupted
<1>3. reap \/ reap_done
  BY <1>1, <1>2 DEF Next, vars, native_process_spawn, native_process_run,
     service_native_devices, Round, enter_user, idle, stall, enter_user_fails,
     halt_ends, keyboard_interrupt, device_interrupt, tick, Leave,
     syscall_thread_create, syscall_thread_create_unwind_fails,
     syscall_thread_exit, syscall_thread_join, syscall_futex_wait,
     syscall_futex_wake, syscall_sleep_until, syscall_wait,
     syscall_console_read, syscall_consume, syscall_handle_close,
     syscall_exit, on_interrupt, on_exception, Syscall
<1>4. CASE reap
  BY <1>4, ReapReports
<1>5. CASE reap_done
  <2>1. Active = {} /\ result' = result
    BY <1>5 DEF reap_done, Return, books
  <2> QED BY <2>1 DEF IInv, NewestKnown, NewestIn
<1> QED BY <1>3, <1>4, <1>5

(* native_process_launch compares the reported generation with the one it  *)
(* spawned last: the run ends with the newest process reported, in         *)
(* whatever order the processes ended.                                     *)
THEOREM RunReportsNewest == Spec => LaunchReportsNewest
<1>1. IInv /\ [Next]_vars => [pc # "stopped" /\ pc' = "stopped" => result' = generation - 1]_vars
  BY ReturnReports
<1> QED BY <1>1, RunInductive, PTL DEF Spec, LaunchReportsNewest

(* report_scheduler_stall: the loop gives up on a process only when every  *)
(* live thread of every running one waits for a thread and for no clock.   *)
GivesUpOnlyStuck ==
  [][pc = "serviced" /\ (\E p \in Running : process'[p].faulted)
       => \A p \in Running : \A t \in Live(threads[p]) : Stuck(p, t)]_vars

LEMMA StallIsStuck ==
  ASSUME IInv, stall, NEW p \in Running, NEW t \in Live(threads[p])
  PROVE  Stuck(p, t)
<1> USE DEF IInv
<1>1. /\ Candidates = {} /\ ~nearest_deadline
      /\ ~Waiting("handle") /\ ~Waiting("console")
  BY DEF stall
<1>2. p \in Slot /\ Sound(threads[p]) /\ DOMAIN threads[p] = Thread
  <2>1. p \in Slot
    BY DEF Running, Active
  <2> QED BY <2>1, SlotSound, Domains DEF Sound
<1>3. p \in StillRunning
  BY <1>2, UpdatedIs DEF StillRunning, Ends
<1>4. /\ Ready(threads[p]) = {} /\ Ending(p) = {} /\ Updated(p) = threads[p]
  BY <1>1, <1>3, NothingStirs
<1>5. t \in Thread /\ threads[p][t].state \in Parked \cup {"runnable"}
  BY <1>2 DEF Live, Sound, Records, Record, State
<1>6. threads[p][t].left = NoDeadline
  BY <1>1, <1>3, <1>4, <1>5 DEF nearest_deadline
<1>7. threads[p][t].state \in {"join", "futex"}
  <2>1. threads[p][t].state # "runnable"
    BY <1>2, <1>4, <1>5 DEF Ready
  <2>2. threads[p][t].state \notin {"handle", "console"}
    BY <1>1, <1>3, <1>4, <1>5 DEF Waiting
  <2>3. threads[p][t].state # "sleep"
    BY <1>2, <1>5, <1>6 DEF Sound, Meant
  <2> QED BY <1>5, <2>1, <2>2, <2>3 DEF Parked
<1>8. CASE threads[p][t].state = "join"
  <2>1. /\ Head(threads[p][t].on) \in Thread
        /\ threads[p][Head(threads[p][t].on)].state # "unused"
    BY <1>2, <1>5, <1>8 DEF Sound, Meant
  <2>2. threads[p][Head(threads[p][t].on)].state \notin Terminated
    BY <1>4, <1>5, <1>8 DEF Ending, joined
  <2>3. Head(threads[p][t].on) \in Live(threads[p])
    BY <1>2, <2>1, <2>2 DEF Live
  <2> QED BY <1>8, <2>3 DEF Stuck
<1> QED BY <1>6, <1>7, <1>8 DEF Stuck

LEMMA GivingUp ==
  ASSUME IInv, [Next]_vars, pc = "serviced",
         NEW q \in Running, process'[q].faulted
  PROVE  stall
<1>1. /\ q \in Slot /\ process \in [Slot -> Process] /\ ~process[q].faulted
      /\ process[q].faulted \in BOOLEAN
  BY DEF Running, Active, FaultsEnd, IInv, Typed, Process
<1>2. process' # process
  BY <1>1
<1>3. enter_user \/ enter_user_fails \/ idle \/ stall
  BY <1>2 DEF Next, vars, native_process_spawn, native_process_run,
     service_native_devices, Round, halt_ends, keyboard_interrupt,
     device_interrupt, tick, Leave,
     syscall_thread_create, syscall_thread_create_unwind_fails,
     syscall_thread_exit, syscall_thread_join, syscall_futex_wait,
     syscall_futex_wake, syscall_sleep_until, syscall_wait,
     syscall_console_read, syscall_consume, syscall_handle_close,
     syscall_exit, on_interrupt, on_exception, Syscall, reap, reap_done
<1> DEFINE pau == ProcessesAfterUpdate
<1>4. pau \in [Slot -> Process] /\ pau[q].faulted = process[q].faulted
  BY <1>1, RoundProcesses DEF IInv
<1>5. CASE enter_user
  <2>1. PICK p \in Slot, t \in Thread : process' = [pau EXCEPT ![p].current_thread = t]
    BY <1>5 DEF enter_user
  <2> HIDE DEF pau
  <2> DEFINE r == [pau[p] EXCEPT !.current_thread = t]
  <2>2. process' = [pau EXCEPT ![p] = r] /\ r.faulted = pau[p].faulted
    BY <1>4, <2>1 DEF Process
  <2> HIDE DEF r
  <2>3. process'[q].faulted = pau[q].faulted
    BY <1>1, <1>4, <2>2
  <2> QED BY <1>1, <1>4, <2>3
<1>6. CASE enter_user_fails
  <2>1. PICK p \in Slot, t \in Thread :
          process' = [pau EXCEPT ![p].current_thread = t, ![p].exiting = TRUE]
    BY <1>6 DEF enter_user_fails
  <2> HIDE DEF pau
  <2> DEFINE r == [pau[p] EXCEPT !.current_thread = t, !.exiting = TRUE]
  <2>2. process' = [pau EXCEPT ![p] = r] /\ r.faulted = pau[p].faulted
    BY <1>4, <2>1 DEF Process
  <2> HIDE DEF r
  <2>3. process'[q].faulted = pau[q].faulted
    BY <1>1, <1>4, <2>2
  <2> QED BY <1>1, <1>4, <2>3
<1>7. CASE idle
  <2>1. process' = pau
    BY <1>7 DEF idle
  <2> QED BY <1>1, <1>4, <2>1
<1> QED BY <1>3, <1>5, <1>6, <1>7

(* The round of the loop that gives up (report_scheduler_stall) gives up   *)
(* only processes whose every live thread waits for one of its own.        *)
THEOREM StallsOnlyStuck == Spec => GivesUpOnlyStuck
<1>1. ASSUME IInv, [Next]_vars
      PROVE  [pc = "serviced" /\ (\E p \in Running : process'[p].faulted)
                => \A p \in Running : \A t \in Live(threads[p]) : Stuck(p, t)]_vars
  BY <1>1, GivingUp, StallIsStuck
<1> QED BY <1>1, RunInductive, PTL DEF Spec, GivesUpOnlyStuck
=============================================================================
