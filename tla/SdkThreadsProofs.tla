-------------------------- MODULE SdkThreadsProofs --------------------------
(***************************************************************************)
(* Proofs about the SDK's pthread library, for every number of threads and *)
(* every set of thread records.                                            *)
(***************************************************************************)
EXTENDS SdkThreads, FiniteSetTheorems, WellFoundedInduction, TLAPS

-----------------------------------------------------------------------------
(* Where a thread can be, and what its frame and kernel record can hold. *)
Locking == {"lock", "lock_wait"}
Unlocking == {"unlock", "unlock_wake"}
Creating == {"create_syscall", "create_handle", "create_ready", "create_wake"}
Starting == {"trampoline", "trampoline_wait", "trampoline_self"}
Once == {"once_run", "once_wake", "once_check", "once_wait"}
Joining == {"join_find", "join_syscall", "join_result", "join_clear"}
Scanning == {"exit_active", "exit_handle", "exit_store"}
Place == {"none", "client", "critical", "create", "exit"}
           \cup Locking \cup Unlocking \cup Creating \cup Starting \cup Once
           \cup Joining \cup Scanning

Frame == [lock : Lock \cup {"none"}, ret : Place,
          record : Record \cup {NoRecord}, other : Thread \cup {NoHandle},
          own : Record \cup {NoRecord}, left : SUBSET Record]

Address == Lock \cup Record \cup {"once"}
Control == {Unused, Runnable, Exited}
             \cup {ParkedOn("futex", <<a>>, NoDeadline) : a \in Address}
             \cup {ParkedOn("join", <<u>>, NoDeadline) : u \in Thread}

RecordType == [active : BOOLEAN, handle : Thread \cup {NoHandle},
               result : Thread \cup {NoValue}, ready : 0..1]

Typed ==
  /\ threads \in [Thread -> Control]
  /\ pc \in [Thread -> Place]
  /\ frame \in [Thread -> Frame]
  /\ word \in [Lock -> 0..1]
  /\ once \in 0..2
  /\ record \in [Record -> RecordType]
  /\ self \in [Thread -> Thread \cup {NoHandle}]
  /\ children \in [Thread -> SUBSET Thread]
  /\ passed \in BOOLEAN

(* A call of the lock routines carries the lock and the place to go on. *)
Called(t) ==
  /\ pc[t] \in Locking =>
       \/ frame[t].lock = "mutex" /\ frame[t].ret = "critical"
       \/ /\ frame[t].lock = "records"
          /\ frame[t].ret \in {"create", "join_find", "join_clear"}
  /\ pc[t] \in Unlocking =>
       \/ frame[t].lock = "mutex" /\ frame[t].ret = "client"
       \/ frame[t].lock = "records" /\ frame[t].ret \in {"client", "join_syscall"}

(* The local variables a place reads have been set. *)
Loaded(t) ==
  /\ pc[t] \in Creating => frame[t].record \in Record
  /\ pc[t] \in Creating \ {"create_syscall"} => frame[t].other \in Thread
  /\ pc[t] \in Starting => frame[t].own \in Record
  /\ pc[t] \in Joining => frame[t].other \in Thread
  /\ pc[t] \in Locking /\ frame[t].ret \in Joining => frame[t].other \in Thread
  /\ pc[t] \in Unlocking /\ frame[t].ret \in Joining => frame[t].other \in Thread

(* What the kernel has parked is where it parked itself; a thread without *)
(* code to run is at no place.                                            *)
Placed(t) ==
  /\ threads[t].state = "futex" =>
       \/ pc[t] = "lock" /\ threads[t].on = <<frame[t].lock>>
       \/ pc[t] = "trampoline" /\ threads[t].on = <<frame[t].own>>
       \/ pc[t] = "once_check" /\ threads[t].on = <<"once">>
  /\ threads[t].state = "join" =>
       pc[t] = "join_result" /\ threads[t].on = <<frame[t].other>>
  /\ threads[t].state \in {"unused", "exited"} <=> pc[t] = "none"

(* A lock word is 1 exactly while some thread holds the lock. *)
Locks ==
  \A l \in Lock :
    /\ \A t, u \in Thread : Holding(t, l) /\ Holding(u, l) => t = u
    /\ word[l] = 0 <=> \A t \in Thread : ~Holding(t, l)

(* Who is where in pthread_once follows from its state word. *)
OnceState ==
  /\ \A t \in Thread :
       /\ pc[t] = "once_run" => once = 1
       /\ pc[t] = "once_wake" => once = 2
       /\ pc[t] \in {"once_check", "once_wait"} => once # 0
  /\ \A t, u \in Thread : pc[t] = "once_run" /\ pc[u] = "once_run" => t = u
  /\ passed => once = 2

Threading == Typed /\ \A t \in Thread : Called(t) /\ Loaded(t) /\ Placed(t)

(* The inductive invariant of the locks and of pthread_once: a lock is     *)
(* held by the thread whose place says so, the frame tells which lock a    *)
(* call is about, and a parked thread is parked where its place says.      *)
IInv == Threading /\ Locks /\ NoLostWakeup /\ OnceState

-----------------------------------------------------------------------------
(* Every non-empty set of natural numbers has a least element. *)
LEMMA LeastNumber ==
  ASSUME NEW S, S \subseteq Nat, S # {}
  PROVE  \E x \in S : \A y \in S : x <= y
<1>1. \E R : /\ IsWellFoundedOn(R, Nat)
             /\ \A y \in Nat, z \in Nat : y < z => <<y, z>> \in R
  <2>1. \A y \in Nat, z \in Nat : y < z => <<y, z>> \in OpToRel(<, Nat)
    BY Zenon DEF OpToRel
  <2> QED BY <2>1, NatLessThanWellFounded, Zenon
<1>2. PICK R : /\ IsWellFoundedOn(R, Nat)
               /\ \A y \in Nat, z \in Nat : y < z => <<y, z>> \in R
  BY <1>1
<1>3. PICK x \in S : \A y \in S : ~(<<y, x>> \in R)
  <2>1. IsWellFoundedOn(R, Nat)
    BY <1>2
  <2> HIDE <1>2
  <2> QED BY <2>1, WFMin, Zenon
<1>4. ASSUME NEW y \in S PROVE x <= y
  <2>1. x \in Nat /\ y \in Nat
    OBVIOUS
  <2>2. ~(y < x)
    BY <2>1, <1>2, <1>3
  <2> QED BY <2>1, <2>2
<1> QED BY <1>4

(* What a step of thread t leaves alone of the other threads. *)
Others(t) == \A v \in Thread \ {t} : pc'[v] = pc[v] /\ frame'[v] = frame[v]

LEMMA GotoMoves ==
  ASSUME Typed, NEW t \in Thread, NEW p \in Place, Goto(t, p)
  PROVE  /\ pc' \in [Thread -> Place] /\ frame' \in [Thread -> Frame]
         /\ Others(t) /\ pc'[t] = p /\ frame' = frame
BY DEF Goto, Typed, Others

(* The places, one by one. *)
LEMMA PlaceFacts ==
  /\ {"none", "client", "critical", "create", "exit"} \subseteq Place
  /\ {"lock", "lock_wait", "unlock", "unlock_wake"} \subseteq Place
  /\ {"create_syscall", "create_handle", "create_ready", "create_wake"} \subseteq Place
  /\ {"trampoline", "trampoline_wait", "trampoline_self"} \subseteq Place
  /\ {"once_run", "once_wake", "once_check", "once_wait"} \subseteq Place
  /\ {"join_find", "join_syscall", "join_result", "join_clear"} \subseteq Place
  /\ {"exit_active", "exit_handle", "exit_store"} \subseteq Place
  /\ {"records", "mutex"} \subseteq Lock /\ Lock \subseteq Address
BY DEF Place, Locking, Unlocking, Creating, Starting, Once, Joining, Scanning,
       Lock, Address

(* A frame with one of its fields replaced is a frame. *)
LEMMA FrameUpdates ==
  ASSUME NEW f \in [Thread -> Frame], NEW t \in Thread
  PROVE  /\ \A l \in Lock \cup {"none"} : [f EXCEPT ![t].lock = l] \in [Thread -> Frame]
         /\ \A p \in Place : [f EXCEPT ![t].ret = p] \in [Thread -> Frame]
         /\ \A x \in SUBSET Record : [f EXCEPT ![t].left = x] \in [Thread -> Frame]
         /\ \A r \in Record : [f EXCEPT ![t].record = r] \in [Thread -> Frame]
<1> DEFINE g == f[t]
<1>1. g \in Frame
  OBVIOUS
<1>2. \A l \in Lock \cup {"none"} : [g EXCEPT !.lock = l] \in Frame
  BY <1>1 DEF Frame
<1>3. \A p \in Place : [g EXCEPT !.ret = p] \in Frame
  BY <1>1 DEF Frame
<1>4. \A x \in SUBSET Record : [g EXCEPT !.left = x] \in Frame
  BY <1>1 DEF Frame
<1>5. \A r \in Record : [g EXCEPT !.record = r] \in Frame
  BY <1>1 DEF Frame
<1> QED BY <1>2, <1>3, <1>4, <1>5

LEMMA CallMoves ==
  ASSUME Typed, NEW t \in Thread, NEW p \in Place, NEW l \in Lock,
         NEW ret \in Place, Call(t, p, l, ret)
  PROVE  /\ pc' \in [Thread -> Place] /\ frame' \in [Thread -> Frame]
         /\ Others(t) /\ pc'[t] = p
         /\ frame'[t].lock = l /\ frame'[t].ret = ret
         /\ frame'[t].record = frame[t].record
         /\ frame'[t].other = frame[t].other /\ frame'[t].own = frame[t].own
<1> DEFINE f == [frame EXCEPT ![t].lock = l]
<1>1. f \in [Thread -> Frame]
  BY FrameUpdates DEF Typed
<1>2. [f EXCEPT ![t].ret = ret] \in [Thread -> Frame]
  BY <1>1, FrameUpdates
<1>3. frame' = [f EXCEPT ![t].ret = ret]
  BY DEF Call, Typed
<1>4. frame' \in [Thread -> Frame]
  BY <1>2, <1>3
<1> QED BY <1>4 DEF Call, Typed, Others, Frame

LEMMA FinishMoves ==
  ASSUME Typed, NEW t \in Thread, Finish(t)
  PROVE  /\ pc' \in [Thread -> Place] /\ frame' \in [Thread -> Frame]
         /\ Others(t) /\ pc'[t] = "unlock"
         /\ frame'[t].lock = "records" /\ frame'[t].ret = "client"
         /\ frame'[t].record = NoRecord
         /\ frame'[t].other = NoHandle /\ frame'[t].own = frame[t].own
BY DEF Finish, Typed, Others, Frame, Place, Unlocking, Empty, Lock

LEMMA ReturnMoves ==
  ASSUME Typed, NEW t \in Thread, Return(t)
  PROVE  /\ pc' \in [Thread -> Place] /\ frame' \in [Thread -> Frame]
         /\ Others(t) /\ pc'[t] = frame[t].ret
         /\ frame'[t].lock = "none" /\ frame'[t].ret = "none"
         /\ frame'[t].record = frame[t].record
         /\ frame'[t].other = frame[t].other /\ frame'[t].own = frame[t].own
<1> DEFINE f == [frame EXCEPT ![t].lock = "none"]
<1>1. f \in [Thread -> Frame] /\ "none" \in Place
  BY FrameUpdates, PlaceFacts DEF Typed
<1>2. [f EXCEPT ![t].ret = "none"] \in [Thread -> Frame]
  BY <1>1, FrameUpdates
<1>3. frame' = [f EXCEPT ![t].ret = "none"]
  BY DEF Return, Typed
<1>4. frame' \in [Thread -> Frame]
  BY <1>2, <1>3
<1>5. frame[t].ret \in Place
  BY DEF Typed, Frame
<1> QED BY <1>4, <1>5 DEF Return, Typed, Others, Frame

(* The three kinds of kernel record the library can meet. *)
LEMMA ControlFacts ==
  /\ Unused \in Control /\ Runnable \in Control /\ Exited \in Control
  /\ Unused.state = "unused" /\ Runnable.state = "runnable" /\ Exited.state = "exited"
  /\ \A a \in Address : /\ ParkedOn("futex", <<a>>, NoDeadline) \in Control
                        /\ ParkedOn("futex", <<a>>, NoDeadline).state = "futex"
                        /\ ParkedOn("futex", <<a>>, NoDeadline).on = <<a>>
  /\ \A u \in Thread : /\ ParkedOn("join", <<u>>, NoDeadline) \in Control
                       /\ ParkedOn("join", <<u>>, NoDeadline).state = "join"
                       /\ ParkedOn("join", <<u>>, NoDeadline).on = <<u>>
  /\ \A x \in Control : /\ x.state \in {"unused", "runnable", "exited", "futex", "join"}
                        /\ x.left = NoDeadline
<1>1. Unused.state = "unused" /\ Runnable.state = "runnable" /\ Exited.state = "exited"
      /\ Unused.left = NoDeadline /\ Runnable.left = NoDeadline /\ Exited.left = NoDeadline
  BY DEF Unused, Runnable, Exited
<1> QED BY <1>1 DEF Control, ParkedOn

LEMMA WaitMoves ==
  ASSUME Typed, NEW t \in Thread, NEW a \in Address,
         threads' = futex_wait(threads, t, a, NoDeadline)
  PROVE  /\ threads' \in [Thread -> Control]
         /\ threads'[t].state = "futex" /\ threads'[t].on = <<a>>
         /\ \A v \in Thread \ {t} : threads'[v] = threads[v]
BY ControlFacts DEF futex_wait, Typed

(* futex_wake makes waiters of the address runnable and touches nobody     *)
(* else; with a count of at least one it wakes somebody if anybody waits.  *)
LEMMA WakeMoves ==
  ASSUME Typed, NEW a, NEW n \in Nat \ {0},
         threads' = futex_wake(threads, a, n)
  PROVE  /\ threads' \in [Thread -> Control]
         /\ \A v \in Thread :
              \/ threads'[v] = threads[v]
              \/ v \in FutexWaiters(threads, a) /\ threads'[v] = Runnable
         /\ FutexWaiters(threads, a) # {} =>
              \E v \in FutexWaiters(threads, a) : threads'[v] = Runnable
<1> DEFINE W == FutexWaiters(threads, a)
<1>1. W \subseteq Thread
  BY DEF FutexWaiters, Typed
<1>2. \A v \in Thread : threads'[v] = IF v \in Woken(threads, a, n) THEN Runnable
                                                                  ELSE threads[v]
  BY DEF futex_wake, Typed
<1>3. threads' \in [Thread -> Control]
  BY ControlFacts DEF futex_wake, Typed
<1>4. Woken(threads, a, n) \subseteq W
  BY DEF Woken
<1>5. ASSUME W # {}
      PROVE  \E v \in W : v \in Woken(threads, a, n)
  <2>1. \E v \in W : \A x \in W : v <= x
    BY <1>1, <1>5, LeastNumber DEF Thread
  <2>2. PICK v \in W : \A x \in W : v <= x
    BY <2>1
  <2>3. {u \in W : u < v} = {}
    BY <2>2, <1>1 DEF Thread
  <2>4. Cardinality({u \in W : u < v}) = 0
    BY <2>3, FS_EmptySet
  <2> QED BY <2>2, <2>4 DEF Woken
<1> QED BY <1>1, <1>2, <1>3, <1>4, <1>5

(* A step that leaves the other threads where they are, and changes their  *)
(* kernel records only by waking them, need only be checked for itself.    *)
LEMMA OthersKept ==
  ASSUME Threading, NEW t \in Thread, Others(t), Typed',
         \A v \in Thread \ {t} : \/ threads'[v] = threads[v]
                                 \/ threads[v].state \in {"futex", "join"}
                                    /\ threads'[v] = Runnable,
         Called(t)' /\ Loaded(t)' /\ Placed(t)'
  PROVE  Threading'
<1> SUFFICES ASSUME NEW v \in Thread \ {t}
             PROVE  Called(v)' /\ Loaded(v)' /\ Placed(v)'
  BY DEF Threading
<1>1. pc'[v] = pc[v] /\ frame'[v] = frame[v]
  BY DEF Others
<1>2. Called(v) /\ Loaded(v) /\ Placed(v)
  BY DEF Threading
<1>3. Called(v)' /\ Loaded(v)'
  BY <1>1, <1>2 DEF Called, Loaded
<1>4. Placed(v)'
  BY <1>1, <1>2, ControlFacts DEF Placed
<1> QED BY <1>3, <1>4

(* The books of the locks are undisturbed by a step that leaves the words  *)
(* alone and neither takes nor gives up a lock.                            *)
LEMMA LocksKept ==
  ASSUME Locks, NEW t \in Thread, Others(t), word' = word,
         \A l \in Lock : Holding(t, l)' <=> Holding(t, l)
  PROVE  Locks'
<1>1. \A v \in Thread, l \in Lock : Holding(v, l)' <=> Holding(v, l)
  BY DEF Others, Holding
<1> QED BY <1>1 DEF Locks

(* A thread that is still going to wake, or to retry for, a waiter on l. *)
Waker(t, l) ==
  \/ Holding(t, l)
  \/ frame[t].lock = l /\ pc[t] \in {"unlock_wake", "lock", "lock_wait"}

(* A step that parks nobody on a lock and does not stop being a waker. *)
LEMMA WakersKept ==
  ASSUME NoLostWakeup, NEW t \in Thread, Others(t),
         \A l \in Lock :
           /\ FutexWaiters(threads, l)' \subseteq FutexWaiters(threads, l)
           /\ Waker(t, l) => Waker(t, l)'
  PROVE  NoLostWakeup'
<1> SUFFICES ASSUME NEW l \in Lock, FutexWaiters(threads, l)' # {}
             PROVE  \E v \in Thread \ FutexWaiters(threads, l)' : Waker(v, l)'
  BY DEF NoLostWakeup, Waker
<1>1. PICK v \in Thread \ FutexWaiters(threads, l) : Waker(v, l)
  BY DEF NoLostWakeup, Waker
<1>2. Waker(v, l)'
  <2>1. CASE v = t
    BY <1>1, <2>1
  <2>2. CASE v # t
    BY <1>1, <2>2 DEF Waker, Holding, Others
  <2> QED BY <2>1, <2>2
<1> QED BY <1>1, <1>2

(* A step that is not one of pthread_once. *)
LEMMA OnceKept ==
  ASSUME OnceState, NEW t \in Thread, Others(t), once' = once,
         passed' = passed, pc'[t] \notin Once
  PROVE  OnceState'
BY DEF OnceState, Others, Once

(* The steps of a thread that neither call the kernel nor touch a futex    *)
(* word: what is left to check is the place it moves to.                   *)
LEMMA PlainStep ==
  ASSUME IInv, NEW t \in Thread, threads[t].state = "runnable",
         threads' = threads, word' = word, once' = once, passed' = passed,
         Others(t), Typed', Called(t)', Loaded(t)', pc'[t] # "none",
         pc'[t] \notin Once,
         \A l \in Lock : /\ Holding(t, l)' <=> Holding(t, l)
                         /\ Waker(t, l) => Waker(t, l)'
  PROVE  IInv'
<1>1. Placed(t)'
  BY DEF Placed
<1>2. Threading'
  BY <1>1, OthersKept DEF IInv
<1>3. Locks' /\ OnceState'
  BY LocksKept, OnceKept DEF IInv
<1>4. \A l \in Lock : FutexWaiters(threads, l)' = FutexWaiters(threads, l)
  OBVIOUS
<1>5. NoLostWakeup'
  BY <1>4, WakersKept DEF IInv
<1> QED BY <1>2, <1>3, <1>5 DEF IInv

(* A cleared record and a claimed one. *)
LEMMA ClearedTyped ==
  Cleared \in RecordType /\ [Cleared EXCEPT !.active = TRUE] \in RecordType
<1>1. Cleared \in RecordType
  BY DEF Cleared, RecordType
<1>2. [Cleared EXCEPT !.active = TRUE] \in RecordType
  BY <1>1 DEF RecordType
<1> QED BY <1>1, <1>2

(* A frame set up for a call of the lock routines is a frame. *)
LEMMA CallTyped ==
  ASSUME NEW g \in [Thread -> Frame], NEW t \in Thread, NEW l \in Lock,
         NEW p \in Place
  PROVE  [g EXCEPT ![t].lock = l, ![t].ret = p] \in [Thread -> Frame]
BY DEF Frame

LEMMA ClientCalls ==
  ASSUME IInv, NEW t \in Thread,
         \/ pthread_mutex_lock(t) \/ pthread_create(t) \/ pthread_mutex_unlock(t)
         \/ join_result(t)
  PROVE  IInv'
<1>0. Typed /\ Called(t) /\ Loaded(t) /\ Placed(t)
  BY DEF IInv, Threading
<1>1. /\ threads[t].state = "runnable" /\ pc[t] \in {"client", "critical", "join_result"}
      /\ UNCHANGED <<threads, shared, client>>
      /\ \/ pc[t] = "client" /\ Call(t, "lock", "mutex", "critical")
         \/ pc[t] = "client" /\ Call(t, "lock", "records", "create")
         \/ pc[t] = "critical" /\ Call(t, "unlock", "mutex", "client")
         \/ pc[t] = "join_result" /\ Call(t, "lock", "records", "join_clear")
  BY DEF pthread_mutex_lock, pthread_create, pthread_mutex_unlock, join_result, At
<1>2. /\ pc' \in [Thread -> Place] /\ frame' \in [Thread -> Frame] /\ Others(t)
      /\ frame'[t].other = frame[t].other
      /\ \/ /\ pc[t] = "client" /\ pc'[t] = "lock" /\ frame'[t].lock = "mutex"
            /\ frame'[t].ret = "critical"
         \/ /\ pc[t] = "client" /\ pc'[t] = "lock" /\ frame'[t].lock = "records"
            /\ frame'[t].ret = "create"
         \/ /\ pc[t] = "critical" /\ pc'[t] = "unlock" /\ frame'[t].lock = "mutex"
            /\ frame'[t].ret = "client"
         \/ /\ pc[t] = "join_result" /\ pc'[t] = "lock" /\ frame'[t].lock = "records"
            /\ frame'[t].ret = "join_clear"
  <2>1. CASE pc[t] = "client" /\ Call(t, "lock", "mutex", "critical")
    BY <1>0, <2>1, CallMoves, PlaceFacts
  <2>2. CASE pc[t] = "client" /\ Call(t, "lock", "records", "create")
    BY <1>0, <2>2, CallMoves, PlaceFacts
  <2>3. CASE pc[t] = "critical" /\ Call(t, "unlock", "mutex", "client")
    BY <1>0, <2>3, CallMoves, PlaceFacts
  <2>4. CASE pc[t] = "join_result" /\ Call(t, "lock", "records", "join_clear")
    BY <1>0, <2>4, CallMoves, PlaceFacts
  <2> QED BY <1>1, <2>1, <2>2, <2>3, <2>4
<1>3. Typed'
  BY <1>0, <1>1, <1>2 DEF Typed, shared, client
<1>4. Called(t)' /\ Loaded(t)'
  BY <1>0, <1>2 DEF Called, Loaded, Locking, Unlocking, Creating, Starting, Joining
<1>5. \A l \in Lock : /\ Holding(t, l)' <=> Holding(t, l)
                      /\ Waker(t, l) => Waker(t, l)'
  BY <1>2 DEF Holding, Waker, Lock
<1> QED BY <1>1, <1>2, <1>3, <1>4, <1>5, PlainStep DEF shared, client, Once

(* The calls that end by releasing the records lock. *)
LEMMA LastCalls ==
  ASSUME IInv, NEW t \in Thread,
         create_no_record(t) \/ create_fails(t) \/ join_clear(t)
  PROVE  IInv'
<1>0. Typed /\ Called(t) /\ Loaded(t) /\ Placed(t)
  BY DEF IInv, Threading
<1>1. /\ threads[t].state = "runnable"
      /\ pc[t] \in {"create", "create_syscall", "join_clear"}
      /\ Finish(t)
      /\ UNCHANGED <<threads, word, once, client>>
  BY DEF create_no_record, create_fails, join_clear, At, shared
<1>2. record' \in [Record -> RecordType]
  <2>1. CASE create_no_record(t)
    BY <1>0, <2>1 DEF create_no_record, shared, Typed
  <2>2. CASE create_fails(t)
    BY <1>0, <2>2 DEF create_fails, Typed, RecordType
  <2>3. CASE join_clear(t)
    BY <1>0, <2>3, ClearedTyped DEF join_clear, Typed
  <2> QED BY <2>1, <2>2, <2>3
<1>3. /\ pc' \in [Thread -> Place] /\ frame' \in [Thread -> Frame] /\ Others(t)
      /\ pc'[t] = "unlock"
      /\ frame'[t].lock = "records" /\ frame'[t].ret = "client"
  BY <1>0, <1>1, FinishMoves
<1>4. Typed'
  BY <1>0, <1>1, <1>2, <1>3 DEF Typed, client
<1>5. Called(t)' /\ Loaded(t)'
  BY <1>3 DEF Called, Loaded, Locking, Unlocking, Creating, Starting, Joining
<1>6. \A l \in Lock : /\ Holding(t, l)' <=> Holding(t, l)
                      /\ Waker(t, l) => Waker(t, l)'
  BY <1>1, <1>3 DEF Holding, Waker, Lock
<1> QED BY <1>1, <1>3, <1>4, <1>5, <1>6, PlainStep DEF client, Once

(* The steps that only move on inside the library or the client. *)
LEMMA InnerSteps ==
  ASSUME IInv, NEW t \in Thread,
         \/ create_handle(t) \/ create_ready(t) \/ trampoline(t)
         \/ trampoline_self(t) \/ entry_returns(t)
         \/ exit_no_record(t) \/ exit_handle(t) \/ exit_store(t)
  PROVE  IInv'
<1>0. Typed /\ Called(t) /\ Loaded(t) /\ Placed(t)
  BY DEF IInv, Threading
<1>1. /\ threads[t].state = "runnable"
      /\ UNCHANGED <<threads, word, once, children, passed>>
      /\ \/ pc[t] = "create_handle" /\ Goto(t, "create_ready")
         \/ pc[t] = "create_ready" /\ Goto(t, "create_wake")
         \/ pc[t] = "trampoline" /\ Goto(t, "trampoline_wait")
         \/ pc[t] = "trampoline" /\ Goto(t, "trampoline_self")
         \/ pc[t] = "trampoline_self" /\ Goto(t, "client")
         \/ pc[t] = "client" /\ Goto(t, "exit")
         \/ pc[t] \in Scanning /\ \E p \in Scanning \cup {"exit"} : Goto(t, p)
  BY DEF create_handle, create_ready, trampoline, trampoline_self, entry_returns,
         exit_no_record, exit_handle, exit_store, Scanning, At, shared, client
<1>2. record' \in [Record -> RecordType]
  BY <1>0 DEF create_handle, create_ready, trampoline, trampoline_self, At,
              entry_returns, exit_no_record, exit_handle, exit_store, shared,
              Typed, RecordType, Loaded, Creating
<1>3. self' \in [Thread -> Thread \cup {NoHandle}]
  BY <1>0 DEF create_handle, create_ready, trampoline, trampoline_self, At,
              entry_returns, exit_no_record, exit_handle, exit_store, client,
              Typed, RecordType, Loaded, Starting
<1>4. /\ pc' \in [Thread -> Place] /\ frame' = frame /\ Others(t)
      /\ \/ pc[t] = "create_handle" /\ pc'[t] = "create_ready"
         \/ pc[t] = "create_ready" /\ pc'[t] = "create_wake"
         \/ pc[t] = "trampoline" /\ pc'[t] = "trampoline_wait"
         \/ pc[t] = "trampoline" /\ pc'[t] = "trampoline_self"
         \/ pc[t] = "trampoline_self" /\ pc'[t] = "client"
         \/ pc[t] = "client" /\ pc'[t] = "exit"
         \/ pc[t] \in Scanning /\ pc'[t] \in Scanning \cup {"exit"}
  <2>1. \A p \in Place : Goto(t, p) => /\ pc' \in [Thread -> Place]
                                       /\ frame' = frame /\ Others(t)
                                       /\ pc'[t] = p
    BY <1>0, GotoMoves
  <2>2. Scanning \subseteq Place
    BY DEF Place
  <2> QED BY <1>1, <2>1, <2>2, PlaceFacts
<1>5. Typed'
  BY <1>0, <1>1, <1>2, <1>3, <1>4 DEF Typed
<1>6. Called(t)' /\ Loaded(t)'
  BY <1>0, <1>4 DEF Called, Loaded, Locking, Unlocking, Creating, Starting, Joining,
                    Scanning
<1>7. \A l \in Lock : /\ Holding(t, l)' <=> Holding(t, l)
                      /\ Waker(t, l) => Waker(t, l)'
  BY <1>4 DEF Holding, Waker, Lock, Scanning
<1> QED BY <1>1, <1>4, <1>5, <1>6, <1>7, PlainStep DEF Once, Scanning

(* pthread_exit starts its scan of the records and looks at the next one. *)
LEMMA ScanStarts ==
  ASSUME Typed, NEW t \in Thread, pthread_exit(t)
  PROVE  /\ pc' \in [Thread -> Place] /\ frame' \in [Thread -> Frame] /\ Others(t)
         /\ pc[t] = "client" /\ pc'[t] = "exit_active"
         /\ frame'[t].left = Record /\ frame'[t].lock = frame[t].lock
         /\ frame'[t].other = frame[t].other /\ frame'[t].own = frame[t].own
<1>1. /\ pc' = [pc EXCEPT ![t] = "exit_active"]
      /\ frame' = [frame EXCEPT ![t].left = Record] /\ pc[t] = "client"
  BY DEF pthread_exit, At
<1>2. pc' \in [Thread -> Place] /\ pc'[t] = "exit_active"
  BY <1>1, PlaceFacts DEF Typed
<1>3. frame' \in [Thread -> Frame]
  <2>1. Record \in SUBSET Record
    OBVIOUS
  <2> QED BY <1>1, <2>1, FrameUpdates DEF Typed
<1>4. frame[t] \in Frame /\ frame'[t] = [frame[t] EXCEPT !.left = Record]
  BY <1>1 DEF Typed
<1>5. /\ frame'[t].left = Record /\ frame'[t].lock = frame[t].lock
      /\ frame'[t].other = frame[t].other /\ frame'[t].own = frame[t].own
  BY <1>4 DEF Frame
<1>6. Others(t)
  BY <1>1 DEF Typed, Others
<1> QED BY <1>1, <1>2, <1>3, <1>5, <1>6

LEMMA ScanReads ==
  ASSUME Typed, NEW t \in Thread, exit_active(t)
  PROVE  /\ pc' \in [Thread -> Place] /\ frame' \in [Thread -> Frame] /\ Others(t)
         /\ pc[t] = "exit_active" /\ frame'[t].lock = frame[t].lock
         /\ frame'[t].other = frame[t].other /\ frame'[t].own = frame[t].own
         /\ \E r \in Record :
              /\ frame'[t].record = r /\ frame'[t].left = frame[t].left \ {r}
              /\ pc'[t] = IF record[r].active THEN "exit_handle" ELSE "exit_active"
<1>1. PICK r \in frame[t].left :
        /\ frame' = [frame EXCEPT ![t].left = @ \ {r}, ![t].record = r]
        /\ pc' = [pc EXCEPT ![t] = IF record[r].active THEN "exit_handle"
                                                      ELSE "exit_active"]
  BY DEF exit_active
<1>2. frame[t] \in Frame /\ r \in Record /\ frame[t].left \ {r} \in SUBSET Record
  BY DEF Typed, Frame
<1>3. /\ pc' \in [Thread -> Place]
      /\ pc'[t] = IF record[r].active THEN "exit_handle" ELSE "exit_active"
  BY <1>1, PlaceFacts DEF Typed
<1>4. frame' \in [Thread -> Frame]
  <2> DEFINE f == [frame EXCEPT ![t].left = @ \ {r}]
  <2>1. f \in [Thread -> Frame]
    BY <1>2, FrameUpdates DEF Typed
  <2>2. [f EXCEPT ![t].record = r] \in [Thread -> Frame]
    BY <1>2, <2>1, FrameUpdates
  <2>3. frame' = [f EXCEPT ![t].record = r]
    BY <1>1 DEF Typed
  <2> QED BY <2>2, <2>3
<1>5. frame'[t] = [frame[t] EXCEPT !.left = @ \ {r}, !.record = r]
  BY <1>1 DEF Typed
<1>6. /\ frame'[t].record = r /\ frame'[t].left = frame[t].left \ {r}
      /\ frame'[t].lock = frame[t].lock
      /\ frame'[t].other = frame[t].other /\ frame'[t].own = frame[t].own
  BY <1>2, <1>5 DEF Frame
<1>7. Others(t) /\ pc[t] = "exit_active"
  BY <1>1 DEF Typed, Others, exit_active, At
<1> QED BY <1>2, <1>3, <1>4, <1>6, <1>7

LEMMA ScanSteps ==
  ASSUME IInv, NEW t \in Thread, pthread_exit(t) \/ exit_active(t)
  PROVE  IInv'
<1>0. Typed /\ Called(t) /\ Loaded(t) /\ Placed(t)
  BY DEF IInv, Threading
<1>1. /\ threads[t].state = "runnable" /\ pc[t] \in {"client", "exit_active"}
      /\ UNCHANGED <<threads, word, once, record, client>>
  BY DEF pthread_exit, exit_active, At, shared
<1>2. /\ pc' \in [Thread -> Place] /\ frame' \in [Thread -> Frame] /\ Others(t)
      /\ pc'[t] \in {"exit_active", "exit_handle"}
      /\ frame'[t].lock = frame[t].lock
  BY <1>0, ScanStarts, ScanReads
<1>3. Typed'
  BY <1>0, <1>1, <1>2 DEF Typed, client
<1>4. Called(t)' /\ Loaded(t)'
  BY <1>2 DEF Called, Loaded, Locking, Unlocking, Creating, Starting, Joining
<1>5. \A l \in Lock : /\ Holding(t, l)' <=> Holding(t, l)
                      /\ Waker(t, l) => Waker(t, l)'
  BY <1>1, <1>2 DEF Holding, Waker, Lock
<1> QED BY <1>1, <1>2, <1>3, <1>4, <1>5, PlainStep DEF client, Once

(* pthread_create claims a record. *)
LEMMA ClaimStep ==
  ASSUME IInv, NEW t \in Thread, create_claim(t)
  PROVE  IInv'
<1>0. Typed /\ Called(t) /\ Loaded(t) /\ Placed(t)
  BY DEF IInv, Threading
<1>1. PICK r \in Record :
        /\ threads[t].state = "runnable" /\ pc[t] = "create"
        /\ record' = [record EXCEPT ![r] = [Cleared EXCEPT !.active = TRUE]]
        /\ pc' = [pc EXCEPT ![t] = "create_syscall"]
        /\ frame' = [frame EXCEPT ![t].record = r]
        /\ UNCHANGED <<threads, word, once, client>>
  BY DEF create_claim, At
<1>2. /\ pc' \in [Thread -> Place] /\ frame' \in [Thread -> Frame] /\ Others(t)
      /\ pc'[t] = "create_syscall"
      /\ frame'[t].record = r /\ frame'[t].lock = frame[t].lock
  BY <1>0, <1>1, PlaceFacts DEF Typed, Frame, Others
<1>3. record' \in [Record -> RecordType]
  BY <1>0, <1>1, ClearedTyped DEF Typed
<1>4. Typed'
  BY <1>0, <1>1, <1>2, <1>3 DEF Typed, client
<1>5. Called(t)' /\ Loaded(t)'
  BY <1>2 DEF Called, Loaded, Locking, Unlocking, Creating, Starting, Joining
<1>6. \A l \in Lock : /\ Holding(t, l)' <=> Holding(t, l)
                      /\ Waker(t, l) => Waker(t, l)'
  BY <1>1, <1>2 DEF Holding, Waker, Lock
<1> QED BY <1>1, <1>2, <1>4, <1>5, <1>6, PlainStep DEF client, Once

(* pthread_join looks its record up. *)
LEMMA JoinSteps ==
  ASSUME IInv, NEW t \in Thread, pthread_join(t) \/ join_find(t)
  PROVE  IInv'
<1>0. Typed /\ Called(t) /\ Loaded(t) /\ Placed(t)
  BY DEF IInv, Threading
<1>1. CASE pthread_join(t)
  <2>1. PICK u \in children[t] :
          /\ threads[t].state = "runnable" /\ pc[t] = "client"
          /\ children' = [children EXCEPT ![t] = @ \ {u}]
          /\ pc' = [pc EXCEPT ![t] = "lock"]
          /\ frame' = [frame EXCEPT ![t].lock = "records", ![t].ret = "join_find",
                                    ![t].other = u]
          /\ UNCHANGED <<threads, word, once, record, self, passed>>
    BY <1>1 DEF pthread_join, At, shared
  <2>2. u \in Thread
    BY <1>0 DEF Typed
  <2>3. /\ pc' \in [Thread -> Place] /\ frame' \in [Thread -> Frame] /\ Others(t)
        /\ pc'[t] = "lock"
        /\ frame'[t].lock = "records" /\ frame'[t].ret = "join_find"
        /\ frame'[t].other = u
    <3>1. pc' \in [Thread -> Place] /\ pc'[t] = "lock"
      BY <1>0, <2>1, PlaceFacts DEF Typed
    <3>2. "join_find" \in Place /\ "records" \in Lock
      BY PlaceFacts
    <3>3. frame' \in [Thread -> Frame]
      <4> DEFINE f == [frame EXCEPT ![t].lock = "records", ![t].ret = "join_find"]
      <4>1. f \in [Thread -> Frame]
        BY <1>0, <3>2, CallTyped DEF Typed
      <4>2. frame' = [f EXCEPT ![t].other = u]
        BY <2>1
      <4> HIDE DEF f
      <4> QED BY <2>2, <4>1, <4>2 DEF Frame
    <3>4. Others(t)
      BY <1>0, <2>1 DEF Typed, Others
    <3>5. /\ frame'[t].lock = "records" /\ frame'[t].ret = "join_find"
          /\ frame'[t].other = u
      BY <1>0, <2>1 DEF Typed, Frame
    <3> QED BY <3>1, <3>3, <3>4, <3>5
  <2>4. children' \in [Thread -> SUBSET Thread]
    BY <1>0, <2>1 DEF Typed
  <2>5. Typed'
    BY <1>0, <2>1, <2>3, <2>4 DEF Typed
  <2>6. Called(t)' /\ Loaded(t)'
    BY <2>2, <2>3 DEF Called, Loaded, Locking, Unlocking, Creating, Starting, Joining
  <2>7. \A l \in Lock : /\ Holding(t, l)' <=> Holding(t, l)
                        /\ Waker(t, l) => Waker(t, l)'
    BY <2>1, <2>3 DEF Holding, Waker, Lock
  <2> QED BY <2>1, <2>3, <2>5, <2>6, <2>7, PlainStep DEF Once
<1>2. CASE join_find(t)
  <2>1. PICK r \in Record :
          /\ threads[t].state = "runnable" /\ pc[t] = "join_find"
          /\ pc' = [pc EXCEPT ![t] = "unlock"]
          /\ frame' = [frame EXCEPT ![t].lock = "records", ![t].ret = "join_syscall",
                                    ![t].record = r]
          /\ UNCHANGED <<threads, shared, client>>
    BY <1>2 DEF join_find, At
  <2>2. /\ pc' \in [Thread -> Place] /\ frame' \in [Thread -> Frame] /\ Others(t)
        /\ pc'[t] = "unlock"
        /\ frame'[t].lock = "records" /\ frame'[t].ret = "join_syscall"
        /\ frame'[t].other = frame[t].other
    <3>1. pc' \in [Thread -> Place] /\ pc'[t] = "unlock"
      BY <1>0, <2>1, PlaceFacts DEF Typed
    <3>2. "join_syscall" \in Place /\ "records" \in Lock
      BY PlaceFacts
    <3>3. frame' \in [Thread -> Frame]
      <4> DEFINE f == [frame EXCEPT ![t].lock = "records", ![t].ret = "join_syscall"]
      <4>1. f \in [Thread -> Frame]
        BY <1>0, <3>2, CallTyped DEF Typed
      <4>2. frame' = [f EXCEPT ![t].record = r]
        BY <2>1
      <4> HIDE DEF f
      <4> QED BY <4>1, <4>2 DEF Frame
    <3>4. Others(t)
      BY <1>0, <2>1 DEF Typed, Others
    <3>5. /\ frame'[t].lock = "records" /\ frame'[t].ret = "join_syscall"
          /\ frame'[t].other = frame[t].other
      BY <1>0, <2>1 DEF Typed, Frame
    <3> QED BY <3>1, <3>3, <3>4, <3>5
  <2>3. Typed'
    BY <1>0, <2>1, <2>2 DEF Typed, shared, client
  <2>4. Called(t)' /\ Loaded(t)'
    BY <1>0, <2>1, <2>2
       DEF Called, Loaded, Locking, Unlocking, Creating, Starting, Joining
  <2>5. \A l \in Lock : /\ Holding(t, l)' <=> Holding(t, l)
                        /\ Waker(t, l) => Waker(t, l)'
    BY <2>1, <2>2 DEF Holding, Waker, Lock
  <2> QED BY <2>1, <2>2, <2>3, <2>4, <2>5, PlainStep DEF shared, client, Once
<1> QED BY <1>1, <1>2

(* sapote_runtime_lock: the exchange takes a free lock, and only a free one. *)
LEMMA ExchangeStep ==
  ASSUME IInv, NEW t \in Thread, lock_exchange(t)
  PROVE  IInv'
<1>0. Typed /\ Called(t) /\ Loaded(t) /\ Placed(t) /\ Locks
  BY DEF IInv, Threading
<1>1. /\ threads[t].state = "runnable" /\ pc[t] = "lock"
      /\ UNCHANGED <<threads, once, record, self, children, passed>>
      /\ word' = [word EXCEPT ![frame[t].lock] = 1]
  BY DEF lock_exchange, At, client
<1>2. PICK l \in Lock :
      /\ l = frame[t].lock /\ frame[t].ret \in Place
      /\ \/ l = "mutex" /\ frame[t].ret = "critical"
         \/ l = "records" /\ frame[t].ret \in {"create", "join_find", "join_clear"}
  BY <1>0, <1>1, PlaceFacts DEF Called, Locking
<1>3. word' \in [Lock -> 0..1]
  BY <1>0, <1>1, <1>2 DEF Typed
<1>4. \A k \in Lock : FutexWaiters(threads, k)' = FutexWaiters(threads, k)
  BY <1>2, <1>1
<1>5. CASE word[l] = 0
  <2>1. /\ pc' \in [Thread -> Place] /\ frame' \in [Thread -> Frame] /\ Others(t)
        /\ pc'[t] = frame[t].ret /\ frame'[t].lock = "none"
        /\ frame'[t].other = frame[t].other
    BY <1>0, <1>2, <1>5, ReturnMoves DEF lock_exchange
  <2>2. Typed'
    BY <1>0, <1>2, <1>1, <1>3, <2>1 DEF Typed
  <2>3. Called(t)' /\ Loaded(t)'
    BY <1>0, <1>1, <1>2, <2>1
       DEF Called, Loaded, Locking, Unlocking, Creating, Starting, Joining
  <2>4. Placed(t)'
    BY <1>1, <1>2, <2>1 DEF Placed
  <2>5. Threading'
    BY <1>2, <1>1, <2>1, <2>2, <2>3, <2>4, OthersKept DEF IInv
  <2>6. /\ \A v \in Thread : ~Holding(v, l)
        /\ Holding(t, l)'
        /\ \A k \in Lock \ {l} : ~Holding(t, k) /\ ~Holding(t, k)'
    <3>1. \A v \in Thread : ~Holding(v, l)
      BY <1>0, <1>2, <1>5 DEF Locks
    <3>2. Holding(t, l)'
      BY <1>2, <2>1 DEF Holding
    <3>3. \A k \in Lock \ {l} : ~Holding(t, k) /\ ~Holding(t, k)'
      BY <1>1, <1>2, <2>1 DEF Holding, Lock
    <3> QED BY <1>2, <3>1, <3>2, <3>3
  <2>7. \A v \in Thread \ {t}, k \in Lock : Holding(v, k)' <=> Holding(v, k)
    BY <1>2, <2>1 DEF Holding, Others
  <2>8. \A k \in Lock : word'[k] = IF k = l THEN 1 ELSE word[k]
    BY <1>0, <1>2, <1>1 DEF Typed
  <2>9. Locks'
    <3> SUFFICES ASSUME NEW k \in Lock
                 PROVE  /\ \A v, u \in Thread :
                             Holding(v, k)' /\ Holding(u, k)' => v = u
                        /\ word'[k] = 0 <=> \A v \in Thread : ~Holding(v, k)'
      BY DEF Locks
    <3>1. CASE k = l
      BY <1>2, <2>6, <2>7, <2>8, <3>1
    <3>2. CASE k # l
      BY <1>0, <1>2, <2>6, <2>7, <2>8, <3>2 DEF Locks
    <3> QED BY <1>2, <3>1, <3>2
  <2>10. \A k \in Lock : Waker(t, k) => Waker(t, k)'
    <3> TAKE k \in Lock
    <3>1. CASE k = l
      BY <1>2, <2>6, <3>1 DEF Waker
    <3>2. CASE k # l
      BY <1>2, <2>6, <3>2 DEF Waker
    <3> QED BY <1>2, <3>1, <3>2
  <2>11. NoLostWakeup' /\ OnceState'
    BY <1>1, <1>2, <1>4, <2>1, <2>10, WakersKept, OnceKept DEF IInv, Once
  <2> QED BY <1>2, <2>5, <2>9, <2>11 DEF IInv
<1>6. CASE word[l] # 0
  <2>1. /\ pc' \in [Thread -> Place] /\ frame' = frame /\ Others(t)
        /\ pc'[t] = "lock_wait"
    BY <1>0, <1>2, <1>6, GotoMoves, PlaceFacts DEF lock_exchange
  <2>2. word' = word
    BY <1>0, <1>2, <1>1, <1>6 DEF Typed
  <2>3. Typed'
    BY <1>0, <1>2, <1>1, <2>1, <2>2 DEF Typed
  <2>4. Called(t)' /\ Loaded(t)' /\ pc'[t] \notin Once
    BY <1>0, <1>2, <1>1, <2>1
       DEF Called, Loaded, Locking, Unlocking, Creating, Starting, Joining, Once
  <2>5. \A k \in Lock : /\ Holding(t, k)' <=> Holding(t, k)
                        /\ Waker(t, k) => Waker(t, k)'
    BY <1>2, <1>1, <2>1 DEF Holding, Waker
  <2> QED BY <1>2, <1>1, <2>1, <2>2, <2>3, <2>4, <2>5, PlainStep
<1> QED BY <1>2, <1>5, <1>6

(* pthread_mutex_trylock takes a free mutex in one exchange. *)
LEMMA TrylockStep ==
  ASSUME IInv, NEW t \in Thread, pthread_mutex_trylock(t)
  PROVE  IInv'
<1>0. Typed /\ Called(t) /\ Loaded(t) /\ Placed(t) /\ Locks
  BY DEF IInv, Threading
<1>1. /\ threads[t].state = "runnable" /\ pc[t] = "client" /\ word["mutex"] = 0
      /\ UNCHANGED <<threads, once, record, self, children, passed>>
      /\ word' = [word EXCEPT !["mutex"] = 1]
  BY DEF pthread_mutex_trylock, At, client
<1>2. /\ pc' \in [Thread -> Place] /\ frame' = frame /\ Others(t)
      /\ pc'[t] = "critical"
  BY <1>0, GotoMoves, PlaceFacts DEF pthread_mutex_trylock
<1>3. Typed'
  <2>1. word \in [Lock -> 0..1] /\ 1 \in 0..1
    BY <1>0 DEF Typed
  <2>2. word' \in [Lock -> 0..1]
    BY <1>1, <2>1
  <2> QED BY <1>0, <1>1, <1>2, <2>2 DEF Typed
<1>4. Called(t)' /\ Loaded(t)' /\ Placed(t)'
  BY <1>1, <1>2
     DEF Called, Loaded, Placed, Locking, Unlocking, Creating, Starting, Joining
<1>5. Threading'
  BY <1>1, <1>2, <1>3, <1>4, OthersKept DEF IInv
<1>6. /\ \A v \in Thread : ~Holding(v, "mutex")
      /\ Holding(t, "mutex")' /\ ~Holding(t, "records") /\ ~Holding(t, "records")'
  BY <1>0, <1>1, <1>2, PlaceFacts DEF Locks, Holding
<1>7. \A v \in Thread \ {t}, k \in Lock : Holding(v, k)' <=> Holding(v, k)
  BY <1>2 DEF Holding, Others
<1>8. \A k \in Lock : word'[k] = IF k = "mutex" THEN 1 ELSE word[k]
  BY <1>0, <1>1 DEF Typed
<1>9. Locks'
  BY <1>0, <1>6, <1>7, <1>8 DEF Locks, Lock
<1>10. \A k \in Lock : /\ FutexWaiters(threads, k)' = FutexWaiters(threads, k)
                       /\ Waker(t, k) => Waker(t, k)'
  BY <1>1, <1>6 DEF Waker, Lock
<1>11. NoLostWakeup' /\ OnceState'
  BY <1>1, <1>2, <1>10, WakersKept, OnceKept DEF IInv, Once
<1> QED BY <1>5, <1>9, <1>11 DEF IInv

(* FUTEX_WAIT of sapote_runtime_lock: who parks leaves a holder behind. *)
LEMMA LockWaitStep ==
  ASSUME IInv, NEW t \in Thread, lock_wait(t)
  PROVE  IInv'
<1>0. Typed /\ Called(t) /\ Loaded(t) /\ Placed(t) /\ Locks
  BY DEF IInv, Threading
<1>1. /\ threads[t].state = "runnable" /\ pc[t] = "lock_wait"
      /\ UNCHANGED <<word, once, record, self, children, passed>>
  BY DEF lock_wait, At, shared, client
<1>2. PICK l \in Lock : l = frame[t].lock /\ l \in Address
  BY <1>0, <1>1, PlaceFacts DEF Called, Locking
<1>3. /\ pc' \in [Thread -> Place] /\ frame' = frame /\ Others(t) /\ pc'[t] = "lock"
  BY <1>0, <1>2, GotoMoves, PlaceFacts DEF lock_wait
<1>4. Called(t)' /\ Loaded(t)'
  BY <1>0, <1>2, <1>1, <1>3
     DEF Called, Loaded, Locking, Unlocking, Creating, Starting, Joining
<1>5. \A k \in Lock : /\ Holding(t, k)' <=> Holding(t, k)
                      /\ Waker(t, k) => Waker(t, k)'
  BY <1>2, <1>1, <1>3 DEF Holding, Waker
<1>6. CASE word[l] = 1
  <2>1. /\ threads' \in [Thread -> Control]
        /\ threads'[t].state = "futex" /\ threads'[t].on = <<l>>
        /\ \A v \in Thread \ {t} : threads'[v] = threads[v]
    BY <1>0, <1>2, <1>6, WaitMoves DEF lock_wait
  <2>2. Typed'
    BY <1>0, <1>2, <1>1, <1>3, <2>1 DEF Typed
  <2>3. Placed(t)'
    BY <1>2, <1>3, <2>1 DEF Placed
  <2>4. Threading'
    BY <1>2, <1>3, <1>4, <2>1, <2>2, <2>3, OthersKept DEF IInv
  <2>5. Locks' /\ OnceState'
    BY <1>2, <1>1, <1>3, <1>5, LocksKept, OnceKept DEF IInv, Once
  <2>6. PICK h \in Thread : Holding(h, l)
    BY <1>0, <1>2, <1>6 DEF Locks
  <2>7. h # t
    BY <1>2, <1>1, <2>6 DEF Holding
  <2>8. Holding(h, l)' /\ threads'[h].state # "futex"
    <3>1. Placed(h)
      BY DEF IInv, Threading
    <3> QED BY <1>2, <1>3, <2>1, <2>6, <2>7, <3>1 DEF Holding, Others, Placed
  <2>9. NoLostWakeup'
    <3> SUFFICES ASSUME NEW k \in Lock, FutexWaiters(threads, k)' # {}
                 PROVE  \E v \in Thread \ FutexWaiters(threads, k)' : Waker(v, k)'
      BY DEF NoLostWakeup, Waker
    <3>1. CASE k = l
      <4>1. h \notin FutexWaiters(threads, k)'
        BY <1>2, <2>8 DEF FutexWaiters
      <4>2. Waker(h, k)'
        BY <1>2, <2>8, <3>1 DEF Waker
      <4> QED BY <1>2, <4>1, <4>2
    <3>2. CASE k # l
      <4>1. FutexWaiters(threads, k)' = FutexWaiters(threads, k)
        BY <1>0, <1>2, <1>1, <2>1, <3>2 DEF FutexWaiters, Typed
      <4>2. PICK v \in Thread \ FutexWaiters(threads, k) : Waker(v, k)
        BY <1>2, <4>1 DEF IInv, NoLostWakeup, Waker
      <4>3. v # t
        BY <1>2, <1>1, <3>2, <4>2 DEF Waker, Holding
      <4> QED BY <1>2, <1>3, <4>1, <4>2, <4>3 DEF Waker, Holding, Others
    <3> QED BY <1>2, <3>1, <3>2
  <2> QED BY <1>2, <2>4, <2>5, <2>9 DEF IInv
<1>7. CASE word[l] # 1
  <2>1. threads' = threads
    BY <1>2, <1>7 DEF lock_wait
  <2>2. Typed'
    BY <1>0, <1>2, <1>1, <1>3, <2>1 DEF Typed
  <2> QED BY <1>2, <1>1, <1>3, <1>4, <1>5, <2>1, <2>2, PlainStep DEF Once
<1> QED BY <1>2, <1>6, <1>7

(* sapote_runtime_unlock: the store gives the lock up, the wake is still   *)
(* to come.                                                                *)
LEMMA UnlockStep ==
  ASSUME IInv, NEW t \in Thread, unlock_store(t)
  PROVE  IInv'
<1>0. Typed /\ Called(t) /\ Loaded(t) /\ Placed(t) /\ Locks
  BY DEF IInv, Threading
<1>1. /\ threads[t].state = "runnable" /\ pc[t] = "unlock"
      /\ UNCHANGED <<threads, once, record, self, children, passed>>
      /\ word' = [word EXCEPT ![frame[t].lock] = 0]
  BY DEF unlock_store, At, client
<1>2. PICK l \in Lock : l = frame[t].lock
  BY <1>0, <1>1, PlaceFacts DEF Called, Unlocking
<1>3. /\ pc' \in [Thread -> Place] /\ frame' = frame /\ Others(t)
      /\ pc'[t] = "unlock_wake"
  BY <1>0, <1>2, GotoMoves, PlaceFacts DEF unlock_store
<1>4. Typed'
  <2>1. word \in [Lock -> 0..1] /\ 0 \in 0..1
    BY <1>2, <1>0 DEF Typed
  <2>2. word' \in [Lock -> 0..1]
    BY <1>1, <1>2, <2>1
  <2> QED BY <1>0, <1>2, <1>1, <1>3, <2>2 DEF Typed
<1>5. Called(t)' /\ Loaded(t)' /\ Placed(t)'
  BY <1>0, <1>2, <1>1, <1>3
     DEF Called, Loaded, Placed, Locking, Unlocking, Creating, Starting, Joining
<1>6. Threading'
  BY <1>2, <1>1, <1>3, <1>4, <1>5, OthersKept DEF IInv
<1>7. /\ Holding(t, l) /\ \A k \in Lock : ~Holding(t, k)'
      /\ \A k \in Lock \ {l} : ~Holding(t, k)
  BY <1>2, <1>1, <1>3 DEF Holding
<1>8. \A v \in Thread \ {t}, k \in Lock : Holding(v, k)' <=> Holding(v, k)
  BY <1>2, <1>3 DEF Holding, Others
<1>9. \A v \in Thread : ~Holding(v, l)'
  <2>1. \A v \in Thread : Holding(v, l) => v = t
    BY <1>0, <1>2, <1>7 DEF Locks
  <2> QED BY <1>2, <1>7, <1>8, <2>1
<1>10. \A k \in Lock : word'[k] = IF k = l THEN 0 ELSE word[k]
  BY <1>0, <1>2, <1>1 DEF Typed
<1>11. Locks'
  BY <1>0, <1>2, <1>7, <1>8, <1>9, <1>10 DEF Locks
<1>12. \A k \in Lock : /\ FutexWaiters(threads, k)' = FutexWaiters(threads, k)
                       /\ Waker(t, k) => Waker(t, k)'
  BY <1>2, <1>1, <1>3 DEF Waker, Holding
<1>13. NoLostWakeup' /\ OnceState'
  BY <1>2, <1>1, <1>3, <1>12, WakersKept, OnceKept DEF IInv, Once
<1> QED BY <1>2, <1>6, <1>11, <1>13 DEF IInv

(* The wake: whoever is woken is about to try the exchange again. *)
LEMMA UnlockWakeStep ==
  ASSUME IInv, NEW t \in Thread, unlock_wake(t)
  PROVE  IInv'
<1>0. Typed /\ Called(t) /\ Loaded(t) /\ Placed(t) /\ Locks
  BY DEF IInv, Threading
<1>1. /\ threads[t].state = "runnable" /\ pc[t] = "unlock_wake"
      /\ UNCHANGED <<word, once, record, self, children, passed>>
  BY DEF unlock_wake, At, shared, client
<1>2. PICK l \in Lock : l = frame[t].lock /\ frame[t].ret \in {"client", "join_syscall"}
  BY <1>0, <1>1, PlaceFacts DEF Called, Unlocking
<1>3. /\ pc' \in [Thread -> Place] /\ frame' \in [Thread -> Frame] /\ Others(t)
      /\ pc'[t] = frame[t].ret /\ frame'[t].lock = "none"
      /\ frame'[t].other = frame[t].other
  BY <1>0, <1>2, ReturnMoves DEF unlock_wake
<1>4. /\ threads' \in [Thread -> Control]
      /\ \A v \in Thread :
           \/ threads'[v] = threads[v]
           \/ v \in FutexWaiters(threads, l) /\ threads'[v] = Runnable
      /\ FutexWaiters(threads, l) # {} =>
           \E v \in FutexWaiters(threads, l) : threads'[v] = Runnable
  BY <1>0, <1>2, WakeMoves DEF unlock_wake
<1>5. Typed'
  BY <1>0, <1>2, <1>1, <1>3, <1>4 DEF Typed
<1>6. Called(t)' /\ Loaded(t)' /\ Placed(t)'
  <2>1. threads'[t] = threads[t]
    BY <1>2, <1>1, <1>4 DEF FutexWaiters
  <2> QED BY <1>0, <1>1, <1>2, <1>3, <2>1
      DEF Called, Loaded, Placed, Locking, Unlocking, Creating, Starting, Joining
<1>7. Threading'
  <2>1. \A v \in Thread \ {t} : \/ threads'[v] = threads[v]
                                \/ threads[v].state \in {"futex", "join"}
                                   /\ threads'[v] = Runnable
    BY <1>2, <1>4 DEF FutexWaiters
  <2> QED BY <1>2, <1>3, <1>5, <1>6, <2>1, OthersKept DEF IInv
<1>8. Locks' /\ OnceState'
  <2>1. \A k \in Lock : ~Holding(t, k) /\ ~Holding(t, k)'
    BY <1>1, <1>2, <1>3 DEF Holding
  <2> QED BY <1>1, <1>2, <1>3, <2>1, LocksKept, OnceKept DEF IInv, Once
<1>9. NoLostWakeup'
  <2> SUFFICES ASSUME NEW k \in Lock, FutexWaiters(threads, k)' # {}
               PROVE  \E v \in Thread \ FutexWaiters(threads, k)' : Waker(v, k)'
    BY DEF NoLostWakeup, Waker
  <2>1. FutexWaiters(threads, k)' \subseteq FutexWaiters(threads, k)
    BY <1>0, <1>2, <1>4, ControlFacts DEF FutexWaiters, Typed
  <2>2. CASE k = l
    <3>1. PICK w \in FutexWaiters(threads, l) : threads'[w] = Runnable
      BY <1>2, <1>4, <2>1, <2>2
    <3>2. /\ w \in Thread /\ w # t /\ threads[w].state = "futex"
          /\ threads[w].on = <<l>>
      BY <1>0, <1>2, <1>1, <3>1 DEF FutexWaiters, Typed
    <3>3. pc[w] = "lock" /\ frame[w].lock = l
      <4>1. Placed(w) /\ Loaded(w)
        BY <1>2, <3>2 DEF IInv, Threading
      <4>2. l # "once" /\ l \notin Record
        BY <1>2, AddressAssumption DEF Lock
      <4>3. pc[w] # "once_check"
        BY <1>2, <3>2, <4>1, <4>2 DEF Placed
      <4>4. pc[w] # "trampoline"
        BY <1>2, <3>2, <4>1, <4>2 DEF Placed, Loaded, Starting
      <4> QED BY <1>2, <3>2, <4>1, <4>3, <4>4 DEF Placed
    <3>4. w \notin FutexWaiters(threads, k)'
      BY <1>2, <3>1, ControlFacts DEF FutexWaiters
    <3> QED BY <1>2, <1>3, <2>2, <3>2, <3>3, <3>4 DEF Others, Waker
  <2>3. CASE k # l
    <3>1. PICK v \in Thread \ FutexWaiters(threads, k) : Waker(v, k)
      BY <1>2, <2>1 DEF IInv, NoLostWakeup, Waker
    <3>2. v # t
      BY <1>2, <1>1, <2>3, <3>1 DEF Waker, Holding
    <3> QED BY <1>2, <1>3, <2>1, <3>1, <3>2 DEF Waker, Holding, Others
  <2> QED BY <1>2, <2>2, <2>3
<1> QED BY <1>2, <1>7, <1>8, <1>9 DEF IInv

(* A step of a thread that holds no lock and gives none up, parks on no    *)
(* lock, and may wake or park threads: the books of the locks are kept.    *)
LEMMA KernelStep ==
  ASSUME IInv, NEW t \in Thread, word' = word, Others(t),
         pc[t] \notin {"lock", "lock_wait", "unlock_wake"},
         threads' \in [Thread -> Control],
         \A v \in Thread \ {t} : \/ threads'[v] = threads[v]
                                 \/ threads[v].state \in {"futex", "join"}
                                    /\ threads'[v] = Runnable,
         \/ threads'[t].state # "futex"
         \/ \A l \in Lock : threads'[t].on # <<l>>,
         \A l \in Lock : Holding(t, l)' <=> Holding(t, l),
         Typed', Called(t)', Loaded(t)', Placed(t)', OnceState'
  PROVE  IInv'
<1>1. Threading'
  BY OthersKept DEF IInv
<1>2. Locks'
  BY LocksKept DEF IInv
<1>3. \A l \in Lock : /\ FutexWaiters(threads, l)' \subseteq FutexWaiters(threads, l)
                      /\ Waker(t, l) => Waker(t, l)'
  <2> TAKE l \in Lock
  <2>1. threads \in [Thread -> Control]
    BY DEF IInv, Threading, Typed
  <2>2. FutexWaiters(threads, l)' \subseteq FutexWaiters(threads, l)
    BY <2>1, ControlFacts DEF FutexWaiters
  <2>3. Waker(t, l) => Waker(t, l)'
    BY DEF Waker
  <2> QED BY <2>2, <2>3
<1>4. NoLostWakeup'
  BY <1>3, WakersKept DEF IInv
<1> QED BY <1>1, <1>2, <1>4 DEF IInv

(* THREAD_CREATE: the new thread starts in the trampoline with the record  *)
(* its creator claimed.                                                    *)
LEMMA SpawnStep ==
  ASSUME IInv, NEW t \in Thread, create_syscall(t)
  PROVE  IInv'
<1>0. Typed /\ Called(t) /\ Loaded(t) /\ Placed(t)
  BY DEF IInv, Threading
<1>1. PICK u \in Thread :
        /\ threads[t].state = "runnable" /\ pc[t] = "create_syscall"
        /\ threads[u].state = "unused"
        /\ threads' = thread_create(threads, u)
        /\ pc' = [pc EXCEPT ![t] = "create_handle", ![u] = "trampoline"]
        /\ frame' = [frame EXCEPT ![t].other = u, ![u].own = frame[t].record]
        /\ UNCHANGED <<word, once, record, self, children, passed>>
  BY DEF create_syscall, At, FirstUnused, shared, client
<1>2. u # t /\ frame[t].record \in Record /\ pc[u] = "none"
  <2>1. Placed(u)
    BY DEF IInv, Threading
  <2> QED BY <1>0, <1>1, <2>1 DEF Loaded, Creating, Placed
<1>3. /\ pc' \in [Thread -> Place] /\ pc'[t] = "create_handle" /\ pc'[u] = "trampoline"
      /\ \A v \in Thread \ {t, u} : pc'[v] = pc[v]
  BY <1>0, <1>1, <1>2, PlaceFacts DEF Typed
<1>4. /\ frame' \in [Thread -> Frame]
      /\ frame'[t].other = u /\ frame'[t].record = frame[t].record
      /\ frame'[u].own = frame[t].record
      /\ \A v \in Thread \ {t, u} : frame'[v] = frame[v]
  <2>1. frame \in [Thread -> Frame]
    BY <1>0 DEF Typed
  <2> DEFINE f == [frame EXCEPT ![t].other = u]
  <2>2. /\ f \in [Thread -> Frame] /\ f[t].other = u
        /\ f[t].record = frame[t].record
        /\ \A v \in Thread \ {t} : f[v] = frame[v]
    BY <2>1 DEF Frame
  <2>3. frame' = [f EXCEPT ![u].own = frame[t].record]
    BY <1>1
  <2> HIDE DEF f
  <2>4. frame' \in [Thread -> Frame]
    BY <1>2, <2>2, <2>3 DEF Frame
  <2> QED BY <1>2, <2>2, <2>3, <2>4 DEF Frame
<1>5. /\ threads' \in [Thread -> Control] /\ threads'[u].state = "runnable"
      /\ \A v \in Thread \ {u} : threads'[v] = threads[v]
  BY <1>0, <1>1, ControlFacts DEF thread_create, Typed
<1>6. Typed'
  BY <1>0, <1>1, <1>3, <1>4, <1>5 DEF Typed
<1>7. ASSUME NEW v \in Thread PROVE Called(v)' /\ Loaded(v)' /\ Placed(v)'
  <2>1. CASE v = t
    BY <1>1, <1>2, <1>3, <1>4, <1>5, <2>1
       DEF Called, Loaded, Placed, Locking, Unlocking, Creating, Starting, Joining
  <2>2. CASE v = u
    BY <1>2, <1>3, <1>4, <1>5, <2>2
       DEF Called, Loaded, Placed, Locking, Unlocking, Creating, Starting, Joining
  <2>3. CASE v \notin {t, u}
    <3>1. Called(v) /\ Loaded(v) /\ Placed(v)
      BY DEF IInv, Threading
    <3> QED BY <1>3, <1>4, <1>5, <2>3, <3>1 DEF Called, Loaded, Placed
  <2> QED BY <2>1, <2>2, <2>3
<1>8. \A v \in Thread, l \in Lock : Holding(v, l)' <=> Holding(v, l)
  <2> TAKE v \in Thread, l \in Lock
  <2>1. CASE v \in {t, u}
    BY <1>1, <1>2, <1>3, <2>1 DEF Holding
  <2>2. CASE v \notin {t, u}
    BY <1>3, <1>4, <2>2 DEF Holding
  <2> QED BY <2>1, <2>2
<1>9. Locks'
  BY <1>1, <1>8 DEF IInv, Locks
<1>10. NoLostWakeup'
  <2> SUFFICES ASSUME NEW l \in Lock, FutexWaiters(threads, l)' # {}
               PROVE  \E v \in Thread \ FutexWaiters(threads, l)' : Waker(v, l)'
    BY DEF NoLostWakeup, Waker
  <2>1. FutexWaiters(threads, l)' \subseteq FutexWaiters(threads, l)
    BY <1>0, <1>5 DEF FutexWaiters, Typed
  <2>2. PICK v \in Thread \ FutexWaiters(threads, l) : Waker(v, l)
    BY <2>1 DEF IInv, NoLostWakeup, Waker
  <2>3. v # u
    BY <1>2, <2>2 DEF Waker, Holding
  <2>4. Waker(v, l)'
    <3>1. CASE v = t
      BY <1>1, <1>8, <2>2, <3>1 DEF Waker
    <3>2. CASE v # t
      BY <1>3, <1>4, <2>2, <2>3, <3>2 DEF Waker, Holding
    <3> QED BY <3>1, <3>2
  <2> QED BY <2>1, <2>2, <2>4
<1>11. OnceState'
  BY <1>1, <1>3 DEF IInv, OnceState
<1> QED BY <1>6, <1>7, <1>9, <1>10, <1>11 DEF IInv, Threading

(* pthread_create publishes the record and wakes the trampoline. *)
LEMMA CreateWakeStep ==
  ASSUME IInv, NEW t \in Thread, create_wake(t)
  PROVE  IInv'
<1>0. Typed /\ Called(t) /\ Loaded(t) /\ Placed(t)
  BY DEF IInv, Threading
<1>1. /\ threads[t].state = "runnable" /\ pc[t] = "create_wake"
      /\ children' = [children EXCEPT ![t] = @ \cup {frame[t].other}]
      /\ UNCHANGED <<word, once, record, self, passed>>
  BY DEF create_wake, At, shared
<1>2. /\ pc' \in [Thread -> Place] /\ frame' \in [Thread -> Frame] /\ Others(t)
      /\ pc'[t] = "unlock"
      /\ frame'[t].lock = "records" /\ frame'[t].ret = "client"
  BY <1>0, FinishMoves DEF create_wake
<1>3. /\ threads' \in [Thread -> Control]
      /\ \A v \in Thread :
           \/ threads'[v] = threads[v]
           \/ v \in FutexWaiters(threads, frame[t].record) /\ threads'[v] = Runnable
  BY <1>0, WakeMoves DEF create_wake
<1>4. frame[t].other \in Thread
  BY <1>0, <1>1 DEF Loaded, Creating
<1>5. Typed'
  <2>1. children' \in [Thread -> SUBSET Thread]
    BY <1>0, <1>1, <1>4 DEF Typed
  <2> QED BY <1>0, <1>1, <1>2, <1>3, <2>1 DEF Typed
<1>6. threads'[t] = threads[t]
  BY <1>1, <1>3 DEF FutexWaiters
<1>7. Called(t)' /\ Loaded(t)' /\ Placed(t)'
  BY <1>1, <1>2, <1>6
     DEF Called, Loaded, Placed, Locking, Unlocking, Creating, Starting, Joining
<1>8. \A v \in Thread \ {t} : \/ threads'[v] = threads[v]
                              \/ threads[v].state \in {"futex", "join"}
                                 /\ threads'[v] = Runnable
  BY <1>3 DEF FutexWaiters
<1>9. \A l \in Lock : Holding(t, l)' <=> Holding(t, l)
  BY <1>1, <1>2 DEF Holding
<1>10. OnceState'
  BY <1>1, <1>2, OnceKept DEF IInv, Once
<1> QED BY <1>1, <1>2, <1>3, <1>5, <1>6, <1>7, <1>8, <1>9, <1>10, KernelStep

(* FUTEX_WAIT of the trampoline, on the ready word of its record. *)
LEMMA TrampolineWaitStep ==
  ASSUME IInv, NEW t \in Thread, trampoline_wait(t)
  PROVE  IInv'
<1>0. Typed /\ Called(t) /\ Loaded(t) /\ Placed(t)
  BY DEF IInv, Threading
<1>1. /\ threads[t].state = "runnable" /\ pc[t] = "trampoline_wait"
      /\ UNCHANGED <<word, once, record, self, children, passed>>
  BY DEF trampoline_wait, At, shared, client
<1>2. PICK r \in Record : r = frame[t].own /\ r \in Address /\ r \notin Lock
  BY <1>0, <1>1, AddressAssumption DEF Loaded, Starting, Address, Lock
<1>3. /\ pc' \in [Thread -> Place] /\ frame' = frame /\ Others(t)
      /\ pc'[t] = "trampoline"
  BY <1>0, GotoMoves, PlaceFacts DEF trampoline_wait
<1>4. Called(t)' /\ Loaded(t)'
  BY <1>0, <1>1, <1>3
     DEF Called, Loaded, Locking, Unlocking, Creating, Starting, Joining
<1>5. \A l \in Lock : Holding(t, l)' <=> Holding(t, l)
  BY <1>1, <1>3 DEF Holding
<1>6. OnceState'
  BY <1>1, <1>3, OnceKept DEF IInv, Once
<1>7. \/ threads' = threads
      \/ /\ threads' \in [Thread -> Control]
         /\ threads'[t].state = "futex" /\ threads'[t].on = <<r>>
         /\ \A v \in Thread \ {t} : threads'[v] = threads[v]
  <2>1. \/ threads' = threads
        \/ threads' = futex_wait(threads, t, r, NoDeadline)
    BY <1>2 DEF trampoline_wait
  <2> QED BY <1>0, <1>2, <2>1, WaitMoves
<1>8. Typed' /\ threads' \in [Thread -> Control]
  BY <1>0, <1>1, <1>3, <1>7 DEF Typed
<1>9. Placed(t)'
  BY <1>1, <1>2, <1>3, <1>7 DEF Placed
<1>10. \/ threads'[t].state # "futex"
       \/ \A l \in Lock : threads'[t].on # <<l>>
  BY <1>1, <1>2, <1>7
<1> QED BY <1>1, <1>3, <1>4, <1>5, <1>6, <1>7, <1>8, <1>9, <1>10, KernelStep

(* THREAD_EXIT, and the parking of THREAD_JOIN. *)
LEMMA ExitAndJoinSteps ==
  ASSUME IInv, NEW t \in Thread, exit_syscall(t) \/ join_syscall(t)
  PROVE  IInv'
<1>0. Typed /\ Called(t) /\ Loaded(t) /\ Placed(t)
  BY DEF IInv, Threading
<1>1. /\ threads[t].state = "runnable" /\ pc[t] \in {"exit", "join_syscall"}
      /\ UNCHANGED <<word, once, record, self, children, passed>>
  BY DEF exit_syscall, join_syscall, At, shared, client
<1>2. /\ threads' \in [Thread -> Control]
      /\ \A v \in Thread \ {t} : threads'[v] = threads[v]
      /\ pc' \in [Thread -> Place] /\ frame' = frame /\ Others(t)
      /\ \/ pc'[t] = "none" /\ threads'[t].state = "exited"
         \/ /\ pc[t] = "join_syscall" /\ pc'[t] = "join_result"
            /\ \/ threads'[t] = threads[t]
               \/ /\ threads'[t].state = "join"
                  /\ threads'[t].on = <<frame[t].other>>
  <2>1. CASE exit_syscall(t)
    <3>1. /\ threads' \in [Thread -> Control] /\ threads'[t].state = "exited"
          /\ \A v \in Thread \ {t} : threads'[v] = threads[v]
      BY <1>0, <2>1, ControlFacts DEF exit_syscall, thread_exit, Typed
    <3>2. /\ pc' \in [Thread -> Place] /\ frame' = frame /\ Others(t)
          /\ pc'[t] = "none"
      BY <1>0, <2>1, GotoMoves, PlaceFacts DEF exit_syscall
    <3> QED BY <3>1, <3>2
  <2>2. CASE join_syscall(t)
    <3>1. frame[t].other \in Thread /\ pc[t] = "join_syscall"
      BY <1>0, <2>2 DEF Loaded, Joining, join_syscall, At
    <3>2. \/ threads' = threads
          \/ threads' = [threads EXCEPT ![t] =
                           ParkedOn("join", <<frame[t].other>>, NoDeadline)]
      BY <2>2 DEF join_syscall, thread_join
    <3>3. /\ threads' \in [Thread -> Control]
          /\ \A v \in Thread \ {t} : threads'[v] = threads[v]
          /\ \/ threads'[t] = threads[t]
             \/ /\ threads'[t].state = "join"
                /\ threads'[t].on = <<frame[t].other>>
      BY <1>0, <3>1, <3>2, ControlFacts DEF Typed
    <3>4. /\ pc' \in [Thread -> Place] /\ frame' = frame /\ Others(t)
          /\ pc'[t] = "join_result"
      BY <1>0, <2>2, GotoMoves, PlaceFacts DEF join_syscall
    <3> QED BY <3>1, <3>3, <3>4
  <2> QED BY <2>1, <2>2
<1>3. Typed'
  BY <1>0, <1>1, <1>2 DEF Typed
<1>4. Called(t)' /\ Loaded(t)' /\ Placed(t)'
  BY <1>0, <1>1, <1>2
     DEF Called, Loaded, Placed, Locking, Unlocking, Creating, Starting, Joining
<1>5. \A l \in Lock : Holding(t, l)' <=> Holding(t, l)
  BY <1>1, <1>2 DEF Holding
<1>6. OnceState'
  BY <1>1, <1>2, OnceKept DEF IInv, Once
<1>7. threads'[t].state # "futex"
  BY <1>1, <1>2
<1> QED BY <1>1, <1>2, <1>3, <1>4, <1>5, <1>6, <1>7, KernelStep

(* pthread_once: the first caller runs the routine, the others wait for it. *)
LEMMA OnceSteps ==
  ASSUME IInv, NEW t \in Thread,
         pthread_once(t) \/ once_run(t) \/ once_wake(t) \/ once_check(t) \/ once_wait(t)
  PROVE  IInv'
<1>0. Typed /\ Called(t) /\ Loaded(t) /\ Placed(t) /\ OnceState
  BY DEF IInv, Threading
<1>1. /\ threads[t].state = "runnable"
      /\ pc[t] \in {"client", "once_run", "once_wake", "once_check", "once_wait"}
      /\ UNCHANGED <<word, record, self, children>>
  BY DEF pthread_once, once_run, once_wake, once_check, once_wait, At, shared, client
<1>2. /\ pc' \in [Thread -> Place] /\ frame' = frame /\ Others(t)
      /\ pc'[t] \in {"client", "once_run", "once_wake", "once_check", "once_wait"}
  <2>1. \A p \in Place : Goto(t, p) => /\ pc' \in [Thread -> Place]
                                       /\ frame' = frame /\ Others(t)
                                       /\ pc'[t] = p
    BY <1>0, GotoMoves
  <2>2. \E p \in {"client", "once_run", "once_wake", "once_check", "once_wait"} :
          Goto(t, p)
    BY DEF pthread_once, once_run, once_wake, once_check, once_wait
  <2> QED BY <2>1, <2>2, PlaceFacts
<1>3. Called(t)' /\ Loaded(t)'
  BY <1>2 DEF Called, Loaded, Locking, Unlocking, Creating, Starting, Joining
<1>4. \A l \in Lock : Holding(t, l)' <=> Holding(t, l)
  BY <1>1, <1>2 DEF Holding
<1>5. CASE once_wait(t)
  <2>1. pc[t] = "once_wait" /\ pc'[t] = "once_check" /\ once' = once /\ passed' = passed
    BY <1>0, <1>5, GotoMoves, PlaceFacts DEF once_wait, At, shared, client
  <2>2. \/ threads' = threads
        \/ /\ threads' \in [Thread -> Control]
           /\ threads'[t].state = "futex" /\ threads'[t].on = <<"once">>
           /\ \A v \in Thread \ {t} : threads'[v] = threads[v]
    <3>1. \/ threads' = threads
          \/ threads' = futex_wait(threads, t, "once", NoDeadline)
      BY <1>5 DEF once_wait
    <3>2. "once" \in Address
      BY DEF Address
    <3> QED BY <1>0, <3>1, <3>2, WaitMoves
  <2>3. Typed' /\ threads' \in [Thread -> Control]
    BY <1>0, <1>1, <1>2, <2>1, <2>2 DEF Typed
  <2>4. Placed(t)'
    BY <1>1, <2>1, <2>2 DEF Placed
  <2>5. \/ threads'[t].state # "futex"
        \/ \A l \in Lock : threads'[t].on # <<l>>
    BY <1>1, <2>2 DEF Lock
  <2>6. OnceState'
    BY <1>0, <1>2, <2>1 DEF OnceState, Others
  <2> QED BY <1>1, <1>2, <1>3, <1>4, <2>2, <2>3, <2>4, <2>5, <2>6, KernelStep
<1>6. CASE once_wake(t)
  <2>1. pc[t] = "once_wake" /\ pc'[t] = "client" /\ once' = once /\ passed'
    BY <1>0, <1>6, GotoMoves, PlaceFacts DEF once_wake, At, shared
  <2>2. /\ threads' \in [Thread -> Control]
        /\ \A v \in Thread :
             \/ threads'[v] = threads[v]
             \/ v \in FutexWaiters(threads, "once") /\ threads'[v] = Runnable
    BY <1>0, <1>6, WakeMoves, ThreadAssumption DEF once_wake
  <2>3. Typed'
    BY <1>0, <1>1, <1>2, <1>6, <2>1, <2>2 DEF Typed, once_wake
  <2>4. threads'[t] = threads[t]
    BY <1>1, <2>2 DEF FutexWaiters
  <2>5. Placed(t)'
    BY <1>1, <2>1, <2>4 DEF Placed
  <2>6. \A v \in Thread \ {t} : \/ threads'[v] = threads[v]
                                \/ threads[v].state \in {"futex", "join"}
                                   /\ threads'[v] = Runnable
    BY <2>2 DEF FutexWaiters
  <2>7. OnceState'
    BY <1>0, <1>2, <2>1 DEF OnceState, Others
  <2> QED BY <1>1, <1>2, <1>3, <1>4, <2>2, <2>3, <2>4, <2>5, <2>6, <2>7, KernelStep
<1>7. CASE pthread_once(t) \/ once_run(t) \/ once_check(t)
  <2>1. threads' = threads
    BY <1>7 DEF pthread_once, once_run, once_check
  <2>2. Typed'
    <3>1. once' \in 0..2 /\ passed' \in BOOLEAN
      <4>1. once \in 0..2 /\ passed \in BOOLEAN
        BY <1>0 DEF Typed
      <4>2. CASE pthread_once(t)
        BY <4>1, <4>2 DEF pthread_once, client
      <4>3. CASE once_run(t)
        BY <4>1, <4>3 DEF once_run, client
      <4>4. CASE once_check(t)
        <5>1. once' = once /\ passed' = (passed \/ once = 2)
          BY <4>4 DEF once_check, shared
        <5>2. passed' \in BOOLEAN
          BY <5>1
        <5> QED BY <4>1, <5>1, <5>2
      <4> QED BY <1>7, <4>2, <4>3, <4>4
    <3> QED BY <1>0, <1>1, <1>2, <2>1, <3>1 DEF Typed
  <2>3. Placed(t)'
    BY <1>1, <1>2, <2>1 DEF Placed
  <2>4. OnceState'
    <3>1. CASE pthread_once(t)
      <4>1. /\ once' = IF once = 0 THEN 1 ELSE once
            /\ pc'[t] = IF once = 0 THEN "once_run" ELSE "once_check"
            /\ passed' = passed
        BY <1>0, <3>1, GotoMoves, PlaceFacts DEF pthread_once, client
      <4> QED BY <1>0, <1>2, <4>1 DEF OnceState, Others
    <3>2. CASE once_run(t)
      <4>1. once' = 2 /\ pc[t] = "once_run" /\ pc'[t] = "once_wake" /\ passed' = passed
        BY <1>0, <3>2, GotoMoves, PlaceFacts DEF once_run, client, At
      <4> QED BY <1>0, <1>2, <4>1 DEF OnceState, Others
    <3>3. CASE once_check(t)
      <4>1. /\ once' = once /\ pc'[t] = IF once = 2 THEN "client" ELSE "once_wait"
            /\ passed' = (passed \/ once = 2) /\ pc[t] = "once_check"
        BY <1>0, <3>3, GotoMoves, PlaceFacts DEF once_check, shared, At
      <4> QED BY <1>0, <1>2, <4>1 DEF OnceState, Others
    <3> QED BY <1>7, <3>1, <3>2, <3>3
  <2>5. Typed /\ threads' \in [Thread -> Control]
    BY <1>0, <2>1 DEF Typed
  <2>6. \A v \in Thread \ {t} : threads'[v] = threads[v]
    BY <2>1
  <2> QED BY <1>1, <1>2, <1>3, <1>4, <2>1, <2>2, <2>3, <2>4, <2>5, <2>6, KernelStep
<1> QED BY <1>5, <1>6, <1>7

(* update_waiting_threads lets a joiner go on. *)
LEMMA JoinedStep ==
  ASSUME IInv, update_waiting_threads
  PROVE  IInv'
<1>0. Typed
  BY DEF IInv, Threading
<1>1. PICK t \in Thread :
        /\ threads[t].state = "join"
        /\ threads' = [threads EXCEPT ![t] = Runnable]
        /\ UNCHANGED <<pc, frame, word, once, record, self, children, passed>>
  BY DEF update_waiting_threads, joined, user, shared, client
<1>2. /\ threads' \in [Thread -> Control] /\ threads'[t] = Runnable
      /\ \A v \in Thread \ {t} : threads'[v] = threads[v]
  BY <1>0, <1>1, ControlFacts DEF Typed
<1>3. Others(t) /\ pc'[t] = "join_result" /\ pc[t] = "join_result"
  <2>1. Placed(t)
    BY DEF IInv, Threading
  <2> QED BY <1>1, <2>1 DEF Others, Placed
<1>4. Typed'
  BY <1>0, <1>1, <1>2 DEF Typed
<1>5. Called(t)' /\ Loaded(t)' /\ Placed(t)'
  <2>1. Called(t) /\ Loaded(t)
    BY DEF IInv, Threading
  <2>2. Called(t)' /\ Loaded(t)'
    BY <1>1, <2>1 DEF Called, Loaded
  <2>3. Placed(t)'
    BY <1>2, <1>3, ControlFacts DEF Placed
  <2> QED BY <2>2, <2>3
<1>6. OnceState'
  BY <1>1 DEF IInv, OnceState
<1>7. \A l \in Lock : Holding(t, l)' <=> Holding(t, l)
  BY <1>1 DEF Holding
<1> QED BY <1>1, <1>2, <1>3, <1>4, <1>5, <1>6, <1>7, ControlFacts, KernelStep

LEMMA InitIInv == Init => IInv
<1> SUFFICES ASSUME Init PROVE IInv
  OBVIOUS
<1>1. Typed
  <2>1. threads \in [Thread -> Control]
    BY ControlFacts DEF Init
  <2>2. pc \in [Thread -> Place]
    BY PlaceFacts DEF Init
  <2>3. Empty \in Frame
    BY PlaceFacts DEF Empty, Frame
  <2>4. record \in [Record -> RecordType]
    BY ClearedTyped DEF Init
  <2>5. frame \in [Thread -> Frame]
    BY <2>3 DEF Init
  <2>6. word \in [Lock -> 0..1] /\ once \in 0..2
    BY DEF Init
  <2>7. /\ self \in [Thread -> Thread \cup {NoHandle}]
        /\ children \in [Thread -> SUBSET Thread]
    BY DEF Init
  <2>8. passed \in BOOLEAN
    BY DEF Init
  <2> QED BY <2>1, <2>2, <2>4, <2>5, <2>6, <2>7, <2>8 DEF Typed
<1>2. \A t \in Thread : Called(t) /\ Loaded(t) /\ Placed(t)
  BY ControlFacts DEF Init, Called, Loaded, Placed, Locking, Unlocking, Creating,
                      Starting, Joining
<1>3. Locks
  BY DEF Init, Locks, Holding, Empty
<1>4. \A l \in Lock : FutexWaiters(threads, l) = {}
  BY ControlFacts DEF Init, FutexWaiters
<1>5. NoLostWakeup
  BY <1>4 DEF NoLostWakeup
<1>6. OnceState
  BY DEF Init, OnceState
<1> QED BY <1>1, <1>2, <1>3, <1>5, <1>6 DEF IInv, Threading

LEMMA StepIInv ==
  ASSUME IInv, [Next]_vars
  PROVE  IInv'
<1>1. ASSUME NEW t \in Thread, Operation(t)
      PROVE  IInv'
  BY <1>1, ClientCalls, TrylockStep, JoinSteps, OnceSteps, InnerSteps, ScanSteps
     DEF Operation
<1>2. ASSUME NEW t \in Thread, Inside(t)
      PROVE  IInv'
  BY <1>2, ExchangeStep, LockWaitStep, UnlockStep, UnlockWakeStep, ClientCalls,
     ClaimStep, LastCalls, SpawnStep, InnerSteps, ScanSteps, CreateWakeStep,
     TrampolineWaitStep, ExitAndJoinSteps, JoinSteps, OnceSteps DEF Inside
<1>3. ASSUME UNCHANGED vars
      PROVE  IInv'
  BY <1>3 DEF vars, user, shared, client, IInv, Threading, Typed, Called, Loaded,
              Placed, Locks, Holding, NoLostWakeup, OnceState, FutexWaiters
<1> QED BY <1>1, <1>2, <1>3, JoinedStep DEF Next, ended

(* The locks and pthread_once of sdk/src/thread.c keep their invariant in  *)
(* every reachable state, whatever the number of threads and records.      *)
THEOREM LibraryInductive == Spec => []IInv
<1>1. IInv /\ [Next]_vars => IInv'
  BY StepIInv
<1> QED BY InitIInv, <1>1, PTL DEF Spec

(* sapote_runtime_lock admits one thread at a time, and the lock word is   *)
(* zero only when nobody holds the lock.                                   *)
THEOREM Exclusion == Spec => []MutualExclusion
<1>1. IInv => MutualExclusion
  <2> SUFFICES ASSUME IInv PROVE MutualExclusion
    OBVIOUS
  <2>1. Typed /\ Locks
    BY DEF IInv, Threading
  <2>2. \A t \in Thread : threads[t].state \in State /\ threads[t].left = NoDeadline
    BY <2>1, ControlFacts DEF Typed, State, Parked, Terminated
  <2>3. TypeOK
    BY <2>1, <2>2 DEF TypeOK, Typed, RecordType
  <2> QED BY <2>1, <2>3 DEF MutualExclusion, Locks
<1> QED BY LibraryInductive, <1>1, PTL

(* sapote_runtime_unlock loses no wake-up: between the store and the wake, *)
(* and after it, somebody is always left who will wake or retry.           *)
THEOREM WakeupKept == Spec => []NoLostWakeup
<1>1. IInv => NoLostWakeup
  BY DEF IInv
<1> QED BY LibraryInductive, <1>1, PTL

(* pthread_once runs its routine in one thread and nobody returns before   *)
(* it has finished.                                                        *)
THEOREM OnceExact == Spec => []OnceBarrier
<1>1. IInv => OnceBarrier
  <2> SUFFICES ASSUME IInv PROVE OnceBarrier
    OBVIOUS
  <2> DEFINE S == {t \in Thread : pc[t] = "once_run"}
  <2>1. \A t, u \in S : t = u
    BY DEF IInv, OnceState
  <2>2. Cardinality(S) <= 1
    <3>1. CASE S = {}
      BY <3>1, FS_EmptySet
    <3>2. CASE S # {}
      <4>1. PICK t \in S : TRUE
        BY <3>2
      <4>2. S = {t}
        BY <2>1, <4>1
      <4>3. Cardinality({t}) = 1
        BY FS_Singleton
      <4> QED BY <4>2, <4>3
    <3> QED BY <3>1, <3>2
  <2>3. passed => once = 2
    BY DEF IInv, OnceState
  <2> QED BY <2>2, <2>3 DEF OnceBarrier
<1> QED BY LibraryInductive, <1>1, PTL

-----------------------------------------------------------------------------
(* The ownership of the records.  Taking and releasing the lock on the way *)
(* does not change how far a thread is in pthread_create or pthread_join.  *)
Stage(t) ==
  IF pc[t] \in Locking \cup Unlocking
  THEN IF frame[t].ret \in Joining THEN frame[t].ret ELSE "idle"
  ELSE IF pc[t] \in Creating \cup Joining THEN pc[t] ELSE "idle"

(* How far a thread is in its life: not created, waiting for its record,   *)
(* told its handle, running, with its result stored, ended.                *)
Life(t) ==
  CASE pc[t] = "none"            -> threads[t].state
    [] pc[t] = "trampoline_self" -> "named"
    [] pc[t] \in Starting \ {"trampoline_self"} -> "starting"
    [] pc[t] = "exit"            -> "exit"
    [] OTHER                     -> "running"

Waits(t) == threads[t].state = "join"

(* Thread t answers for thread u: it is creating it, holds its handle, or  *)
(* is joining it.                                                          *)
Claims(t, u) == u \in children[t] \/ frame[t].other = u
Claimed(u) == \E t \in Thread : Claims(t, u)
Own(u) == frame[u].own

(* What each stage of a call knows about the record it works on. *)
StageOK(t) ==
  /\ frame[t].other # NoHandle <=> Stage(t) \notin {"idle", "create_syscall"}
  /\ Stage(t) = "create_syscall" =>
       /\ record[frame[t].record].active
       /\ record[frame[t].record].handle = NoHandle
       /\ \A u \in Thread : Claimed(u) => Own(u) # frame[t].record
  /\ Stage(t) \in (Creating \cup Joining) \ {"create_syscall", "join_find"} =>
       frame[t].record = Own(frame[t].other)
  /\ Stage(t) = "create_handle" => record[frame[t].record].handle = NoHandle
  /\ Stage(t) = "create_ready" => record[frame[t].record].handle = frame[t].other
  /\ Stage(t) \in {"create_syscall", "create_handle", "create_ready"} =>
       record[frame[t].record].ready = 0
  /\ Stage(t) = "join_clear" \/ (Stage(t) = "join_result" /\ ~Waits(t)) =>
       Life(frame[t].other) = "exited"

(* A thread somebody answers for has an active record that names it, and   *)
(* holds its value when it has ended, unless the main thread's came over.  *)
ClaimOK(t, u) ==
  Claims(t, u) =>
    /\ u # 0 /\ Life(u) # "unused"
    /\ Own(u) \in Record /\ record[Own(u)].active
    /\ \/ frame[t].other = u /\ Stage(t) \in {"create_handle", "create_ready"}
       \/ record[Own(u)].handle = u /\ record[Own(u)].ready = 1
    /\ Life(u) \in {"exit", "exited"} => record[Own(u)].result \in {u, 0}
    /\ Life(u) \in {"named", "running", "exit", "exited"} => record[Own(u)].ready = 1
    /\ frame[t].other = u => u \notin children[t]

(* Every thread alive is answered for, and knows its own handle. *)
LifeOK(u) ==
  /\ u # 0 /\ Life(u) \notin {"unused", "exited"} => Claimed(u)
  /\ u = 0 => self[u] = NoHandle /\ Life(u) \notin {"unused", "starting", "named"}
  /\ Life(u) \in {"unused", "starting", "named"} => self[u] = NoHandle
  /\ u # 0 /\ Life(u) \in {"running", "exit"} => self[u] = u

Exclusive ==
  /\ \A t, v, u \in Thread : Claims(t, u) /\ Claims(v, u) => t = v
  /\ \A u, w \in Thread : Claimed(u) /\ Claimed(w) /\ Own(u) = Own(w) => u = w
  /\ \A r \in Record : record[r].active =>
       \/ \E t \in Thread : Stage(t) = "create_syscall" /\ frame[t].record = r
       \/ \E u \in Thread : Claimed(u) /\ Own(u) = r

Books ==
  /\ \A t \in Thread : StageOK(t) /\ LifeOK(t)
  /\ \A t, u \in Thread : ClaimOK(t, u)
  /\ Exclusive

-----------------------------------------------------------------------------
(* What the books say of a thread does not change when another one moves   *)
(* or wakes it.                                                            *)
LEMMA OthersView ==
  ASSUME IInv, NEW t \in Thread, Others(t),
         \A v \in Thread \ {t} : \/ threads'[v] = threads[v]
                                 \/ threads[v].state = "futex"
                                    /\ threads'[v] = Runnable
  PROVE  \A v \in Thread \ {t} :
           /\ Stage(v)' = Stage(v) /\ Life(v)' = Life(v) /\ Waits(v)' = Waits(v)
           /\ frame'[v] = frame[v] /\ Own(v)' = Own(v)
<1> TAKE v \in Thread \ {t}
<1>1. CASE threads'[v] = threads[v]
  BY <1>1 DEF Others, Stage, Life, Waits, Own
<1>2. CASE threads[v].state = "futex" /\ threads'[v] = Runnable
  <2>1. pc[v] # "none"
    BY <1>2 DEF IInv, Threading, Placed
  <2> QED BY <1>2, <2>1, ControlFacts DEF Others, Stage, Life, Waits, Own
<1> QED BY <1>1, <1>2

(* The books are undisturbed by the steps of the locks, of pthread_once    *)
(* and of the client.                                                      *)
LEMMA BooksKept ==
  ASSUME Books, Typed,
         \A v \in Thread : /\ Stage(v)' = Stage(v) /\ Life(v)' = Life(v)
                           /\ Waits(v)' = Waits(v) /\ Own(v)' = Own(v)
                           /\ frame'[v].other = frame[v].other
                           /\ \/ Stage(v) = "idle"
                              \/ frame'[v].record = frame[v].record,
         record' = record, self' = self, children' = children
  PROVE  Books'
<1>1. \A t, u \in Thread : Claims(t, u)' <=> Claims(t, u)
  BY DEF Claims
<1>2. \A u \in Thread : Claimed(u)' <=> Claimed(u)
  BY <1>1 DEF Claimed
<1>3. ASSUME NEW t \in Thread PROVE StageOK(t)' /\ LifeOK(t)'
  <2>1. StageOK(t) /\ LifeOK(t)
    BY DEF Books
  <2>2. LifeOK(t)'
    BY <1>2, <2>1 DEF LifeOK
  <2>3. StageOK(t)'
    <3>1. CASE frame[t].other = NoHandle
      BY <1>2, <2>1, <3>1 DEF StageOK, Creating, Joining
    <3>2. CASE frame[t].other # NoHandle
      <4>1. PICK u \in Thread : u = frame[t].other
        BY <3>2 DEF Typed, Frame
      <4>2. Stage(t) \notin {"idle", "create_syscall"}
        BY <2>1, <3>2 DEF StageOK
      <4>3. /\ frame'[t].other = u /\ frame'[t].record = frame[t].record
            /\ Stage(t)' = Stage(t) /\ Waits(t)' = Waits(t)
            /\ Life(u)' = Life(u) /\ Own(u)' = Own(u)
        BY <4>1, <4>2
      <4> QED BY <2>1, <4>1, <4>2, <4>3 DEF StageOK
    <3> QED BY <3>1, <3>2
  <2> QED BY <2>2, <2>3
<1>4. ASSUME NEW t \in Thread, NEW u \in Thread PROVE ClaimOK(t, u)'
  <2>1. ClaimOK(t, u)
    BY DEF Books
  <2> QED BY <1>1, <2>1 DEF ClaimOK
<1>5. Exclusive'
  BY <1>1, <1>2 DEF Books, Exclusive
<1> QED BY <1>3, <1>4, <1>5 DEF Books

LEMMA QuietBooks ==
  ASSUME IInv, Books, NEW t \in Thread, Others(t),
         threads[t].state = "runnable", threads'[t].state \in {"runnable", "futex"},
         \A v \in Thread \ {t} : \/ threads'[v] = threads[v]
                                 \/ threads[v].state = "futex"
                                    /\ threads'[v] = Runnable,
         pc'[t] # "none", Stage(t)' = Stage(t), Life(t)' = Life(t),
         frame'[t].other = frame[t].other, frame'[t].own = frame[t].own,
         Stage(t) = "idle" \/ frame'[t].record = frame[t].record,
         record' = record, self' = self, children' = children
  PROVE  Books'
<1>1. ASSUME NEW v \in Thread
      PROVE  /\ Stage(v)' = Stage(v) /\ Life(v)' = Life(v)
             /\ Waits(v)' = Waits(v) /\ Own(v)' = Own(v)
             /\ frame'[v].other = frame[v].other
             /\ Stage(v) = "idle" \/ frame'[v].record = frame[v].record
  <2>1. CASE v = t
    BY <2>1 DEF Waits, Own
  <2>2. CASE v # t
    BY <2>2, OthersView
  <2> QED BY <2>1, <2>2
<1> QED BY <1>1, BooksKept DEF IInv, Threading

(* The lock routines, between the steps of an operation. *)
LEMMA LockBooks ==
  ASSUME IInv, Books, NEW t \in Thread,
         lock_exchange(t) \/ lock_wait(t) \/ unlock_store(t) \/ unlock_wake(t)
  PROVE  Books'
<1>0. Typed /\ Called(t) /\ Loaded(t) /\ Placed(t)
  BY DEF IInv, Threading
<1>1. /\ threads[t].state = "runnable" /\ pc[t] \in Locking \cup Unlocking
      /\ UNCHANGED <<record, self, children>>
  BY DEF lock_exchange, lock_wait, unlock_store, unlock_wake, At, shared, client,
         Locking, Unlocking
<1>2. PICK l \in Lock : l = frame[t].lock /\ l \in Address
  BY <1>0, <1>1, PlaceFacts DEF Called
<1>3. /\ threads'[t].state \in {"runnable", "futex"}
      /\ \A v \in Thread \ {t} : \/ threads'[v] = threads[v]
                                 \/ threads[v].state = "futex"
                                    /\ threads'[v] = Runnable
  <2>1. CASE lock_exchange(t) \/ unlock_store(t)
    BY <1>1, <2>1 DEF lock_exchange, unlock_store
  <2>2. CASE lock_wait(t)
    <3>1. threads' = threads \/ threads' = futex_wait(threads, t, l, NoDeadline)
      BY <1>2, <2>2 DEF lock_wait
    <3> QED BY <1>0, <1>1, <1>2, <3>1, WaitMoves
  <2>3. CASE unlock_wake(t)
    <3>1. \A v \in Thread :
             \/ threads'[v] = threads[v]
             \/ v \in FutexWaiters(threads, l) /\ threads'[v] = Runnable
      BY <1>0, <1>2, <2>3, WakeMoves DEF unlock_wake
    <3> QED BY <1>1, <3>1 DEF FutexWaiters
  <2> QED BY <2>1, <2>2, <2>3
<1>4. /\ Others(t) /\ frame'[t].other = frame[t].other
      /\ frame'[t].record = frame[t].record /\ frame'[t].own = frame[t].own
      /\ \/ pc'[t] \in Locking \cup Unlocking /\ frame'[t].ret = frame[t].ret
         \/ pc'[t] = frame[t].ret /\ frame'[t].ret = "none"
  <2>1. \/ Return(t)
        \/ \E p \in Locking \cup Unlocking : Goto(t, p)
    BY DEF lock_exchange, lock_wait, unlock_store, unlock_wake, Locking, Unlocking
  <2>2. Locking \cup Unlocking \subseteq Place
    BY DEF Place
  <2>3. CASE Return(t)
    BY <1>0, <2>3, ReturnMoves
  <2>4. CASE \E p \in Locking \cup Unlocking : Goto(t, p)
    BY <1>0, <2>2, <2>4, GotoMoves
  <2> QED BY <2>1, <2>3, <2>4
<1>5. Stage(t)' = Stage(t) /\ Life(t)' = "running" /\ Life(t) = "running" /\ pc'[t] # "none"
  <2>1. frame[t].ret \in {"critical", "create", "client"} \cup Joining
    BY <1>0, <1>1 DEF Called, Joining
  <2>2. Life(t) = "running"
    BY <1>1 DEF Life, Locking, Unlocking, Starting
  <2>3. CASE pc'[t] \in Locking \cup Unlocking /\ frame'[t].ret = frame[t].ret
    BY <1>1, <2>2, <2>3 DEF Stage, Life, Locking, Unlocking, Starting
  <2>4. CASE pc'[t] = frame[t].ret /\ frame'[t].ret = "none"
    BY <1>1, <2>1, <2>2, <2>4
       DEF Stage, Life, Locking, Unlocking, Starting, Joining, Creating
  <2> QED BY <1>4, <2>2, <2>3, <2>4
<1> QED BY <1>1, <1>3, <1>4, <1>5, QuietBooks

(* pthread_once, and the client's calls up to the lock. *)
LEMMA ClientBooks ==
  ASSUME IInv, Books, NEW t \in Thread,
         \/ pthread_mutex_lock(t) \/ pthread_mutex_unlock(t)
         \/ pthread_mutex_trylock(t) \/ pthread_create(t)
         \/ pthread_once(t) \/ once_run(t) \/ once_check(t)
         \/ once_wait(t) \/ once_wake(t)
  PROVE  Books'
<1>0. Typed /\ StageOK(t)
  BY DEF IInv, Threading, Books
<1>1. /\ threads[t].state = "runnable"
      /\ pc[t] \in {"client", "critical", "once_run", "once_wake", "once_check", "once_wait"}
      /\ UNCHANGED <<record, self, children>>
  BY DEF pthread_mutex_lock, pthread_mutex_unlock, pthread_mutex_trylock,
         pthread_create, pthread_once, once_run, once_check, once_wait, once_wake,
         At, shared, client
<1>2. /\ threads'[t].state \in {"runnable", "futex"}
      /\ \A v \in Thread \ {t} : \/ threads'[v] = threads[v]
                                 \/ threads[v].state = "futex"
                                    /\ threads'[v] = Runnable
  <2>1. \/ threads' = threads
        \/ threads' = futex_wait(threads, t, "once", NoDeadline)
        \/ threads' = futex_wake(threads, "once", ThreadLimit)
    BY DEF pthread_mutex_lock, pthread_mutex_unlock, pthread_mutex_trylock,
           pthread_create, pthread_once, once_run, once_check, once_wait, once_wake
  <2>2. CASE threads' = threads
    BY <1>1, <2>2
  <2>3. CASE threads' = futex_wait(threads, t, "once", NoDeadline)
    <3>1. "once" \in Address
      BY DEF Address
    <3> QED BY <1>0, <2>3, <3>1, WaitMoves
  <2>4. CASE threads' = futex_wake(threads, "once", ThreadLimit)
    <3>1. \A v \in Thread :
             \/ threads'[v] = threads[v]
             \/ v \in FutexWaiters(threads, "once") /\ threads'[v] = Runnable
      BY <1>0, <2>4, WakeMoves, ThreadAssumption
    <3> QED BY <1>1, <3>1 DEF FutexWaiters
  <2> QED BY <2>1, <2>2, <2>3, <2>4
<1> DEFINE Aside == {"client", "critical", "once_run", "once_wake", "once_check",
                     "once_wait"}
<1>3. /\ Others(t) /\ frame'[t].other = frame[t].other
      /\ frame'[t].record = frame[t].record /\ frame'[t].own = frame[t].own
      /\ \/ pc'[t] \in Aside
         \/ /\ pc'[t] \in Locking \cup Unlocking
            /\ frame'[t].ret \in {"critical", "client", "create"}
  <2>1. \/ \E p \in Aside : Goto(t, p)
        \/ Call(t, "lock", "mutex", "critical")
        \/ Call(t, "unlock", "mutex", "client")
        \/ Call(t, "lock", "records", "create")
    BY DEF pthread_mutex_lock, pthread_mutex_unlock, pthread_mutex_trylock,
           pthread_create, pthread_once, once_run, once_check, once_wait, once_wake
  <2>2. Aside \subseteq Place
    BY PlaceFacts
  <2>3. CASE \E p \in Aside : Goto(t, p)
    BY <1>0, <2>2, <2>3, GotoMoves
  <2>4. CASE Call(t, "lock", "mutex", "critical")
    BY <1>0, <2>4, CallMoves, PlaceFacts DEF Locking
  <2>5. CASE Call(t, "unlock", "mutex", "client")
    BY <1>0, <2>5, CallMoves, PlaceFacts DEF Unlocking
  <2>6. CASE Call(t, "lock", "records", "create")
    BY <1>0, <2>6, CallMoves, PlaceFacts DEF Locking
  <2> QED BY <2>1, <2>3, <2>4, <2>5, <2>6
<1>4. Stage(t) = "idle" /\ Stage(t)' = "idle" /\ Life(t) = "running"
      /\ Life(t)' = "running" /\ pc'[t] # "none"
  BY <1>1, <1>3 DEF Stage, Life, Locking, Unlocking, Starting, Joining, Creating
<1> QED BY <1>1, <1>2, <1>3, <1>4, QuietBooks

(* The record of the thread somebody works on is in use. *)
LEMMA StageKnows ==
  ASSUME Books, Typed, NEW v \in Thread, frame[v].other # NoHandle
  PROVE  /\ frame[v].other \in Thread /\ Claims(v, frame[v].other)
         /\ Claimed(frame[v].other) /\ Own(frame[v].other) \in Record
         /\ record[Own(frame[v].other)].active
<1>1. frame[v].other \in Thread
  BY DEF Typed, Frame
<1>2. Claims(v, frame[v].other)
  BY DEF Claims
<1>3. ClaimOK(v, frame[v].other)
  BY <1>1 DEF Books
<1> QED BY <1>1, <1>2, <1>3 DEF Claimed, ClaimOK

(* A creator before THREAD_CREATE has a record in its frame. *)
LEMMA StageLoaded ==
  ASSUME IInv, NEW v \in Thread, Stage(v) = "create_syscall"
  PROVE  pc[v] = "create_syscall" /\ frame[v].record \in Record
BY DEF Stage, IInv, Threading, Loaded, Creating, Joining

(* A record that thread t may write: nobody else works on it. *)
Mine(t, x) ==
  /\ \A u \in Thread : Claimed(u) /\ Own(u) = x => Claims(t, u)
  /\ \A v \in Thread \ {t} : Stage(v) = "create_syscall" => frame[v].record # x

(* A step of thread t that answers for the same threads as before and      *)
(* writes no record but its own needs only be checked for t.               *)
LEMMA OwnStep ==
  ASSUME IInv, Books, NEW t \in Thread,
         \A v \in Thread \ {t} :
           /\ Stage(v)' = Stage(v) /\ Life(v)' = Life(v) /\ Waits(v)' = Waits(v)
           /\ frame'[v] = frame[v] /\ self'[v] = self[v]
           /\ children'[v] = children[v],
         \A v \in Thread : Own(v)' = Own(v),
         \A v, u \in Thread : Claims(v, u)' <=> Claims(v, u),
         Life(t) = "exited" => Life(t)' = "exited",
         \A x \in Record : record'[x] = record[x] \/ Mine(t, x),
         \A x \in Record : record'[x].active =>
           \/ record[x].active
           \/ Stage(t)' = "create_syscall" /\ frame'[t].record = x,
         \A x \in Record : Stage(t) = "create_syscall" /\ frame[t].record = x =>
           \/ ~record'[x].active
           \/ Stage(t)' = "create_syscall" /\ frame'[t].record = x,
         StageOK(t)', LifeOK(t)', \A u \in Thread : ClaimOK(t, u)',
         Life(t)' = Life(t) \/ \A v \in Thread : ClaimOK(v, t)'
  PROVE  Books'
<1>0. Typed
  BY DEF IInv, Threading
<1>1. \A u \in Thread : Claimed(u)' <=> Claimed(u)
  BY DEF Claimed
<1>2. ASSUME NEW v \in Thread \ {t}, NEW u \in Thread, Claims(v, u)
      PROVE  Own(u) \in Record /\ record'[Own(u)] = record[Own(u)]
  <2>1. ClaimOK(v, u) /\ Exclusive
    BY DEF Books
  <2>2. Own(u) \in Record
    BY <1>2, <2>1 DEF ClaimOK
  <2>3. ~Claims(t, u)
    BY <1>2, <2>1 DEF Exclusive
  <2> QED BY <1>2, <2>2, <2>3 DEF Mine, Claimed
<1>3. ASSUME NEW v \in Thread, NEW u \in Thread PROVE ClaimOK(v, u)'
  <2>1. ClaimOK(v, u)
    BY DEF Books
  <2>2. CASE v = t
    BY <2>2
  <2>3. CASE v # t /\ Life(u)' = Life(u)
    <3>1. CASE Claims(v, u)
      <4>1. record'[Own(u)] = record[Own(u)]
        BY <1>2, <2>3, <3>1
      <4> QED BY <2>1, <2>3, <3>1, <4>1 DEF ClaimOK
    <3>2. CASE ~Claims(v, u)
      BY <3>2 DEF ClaimOK
    <3> QED BY <3>1, <3>2
  <2>4. CASE v # t /\ Life(u)' # Life(u)
    BY <2>4
  <2> QED BY <2>2, <2>3, <2>4
<1>4. ASSUME NEW v \in Thread PROVE LifeOK(v)'
  <2>1. LifeOK(v)
    BY DEF Books
  <2> QED BY <1>1, <2>1 DEF LifeOK
<1>5. ASSUME NEW v \in Thread PROVE StageOK(v)'
  <2>1. StageOK(v)
    BY DEF Books
  <2>2. CASE v # t /\ frame[v].other = NoHandle
    <3>1. CASE Stage(v) = "idle"
      BY <2>1, <2>2, <3>1 DEF StageOK, Creating, Joining
    <3>2. CASE Stage(v) = "create_syscall"
      <4>1. frame[v].record \in Record
        BY <3>2, StageLoaded
      <4>2. record'[frame[v].record] = record[frame[v].record]
        BY <2>2, <3>2, <4>1 DEF Mine
      <4> QED BY <1>1, <2>1, <2>2, <3>2, <4>2 DEF StageOK, Creating, Joining
    <3> QED BY <2>1, <2>2, <3>1, <3>2 DEF StageOK
  <2>3. CASE v # t /\ frame[v].other # NoHandle
    <3>1. PICK u \in Thread : u = frame[v].other /\ Claims(v, u)
      BY <1>0, <2>3, StageKnows
    <3>2. Stage(v) \notin {"idle", "create_syscall"}
      BY <2>1, <2>3 DEF StageOK
    <3>3. /\ frame'[v].other = u /\ frame'[v].record = frame[v].record
          /\ Stage(v)' = Stage(v) /\ Waits(v)' = Waits(v)
          /\ Own(u)' = Own(u) /\ Life(u) = "exited" => Life(u)' = "exited"
          /\ record'[Own(u)] = record[Own(u)]
      BY <1>2, <2>3, <3>1
    <3> QED BY <2>1, <3>1, <3>2, <3>3 DEF StageOK, Creating, Joining
  <2> QED BY <2>2, <2>3
<1>6. Exclusive'
  <2>1. Exclusive
    BY DEF Books
  <2>2. ASSUME NEW x \in Record, record'[x].active
        PROVE  \/ \E v \in Thread : Stage(v)' = "create_syscall" /\ frame'[v].record = x
               \/ \E u \in Thread : Claimed(u)' /\ Own(u)' = x
    <3>1. CASE ~record[x].active
      BY <2>2, <3>1
    <3>2. CASE record[x].active
      BY <1>1, <2>1, <2>2, <3>2 DEF Exclusive
    <3> QED BY <3>1, <3>2
  <2> QED BY <1>1, <2>1, <2>2 DEF Exclusive
<1> QED BY <1>3, <1>4, <1>5, <1>6 DEF Books

(* pthread_create claims a free record: nobody's. *)
LEMMA ClaimBooks ==
  ASSUME IInv, Books, NEW t \in Thread, create_claim(t)
  PROVE  Books'
<1>0. Typed /\ StageOK(t) /\ LifeOK(t)
  BY DEF IInv, Threading, Books
<1>1. PICK r \in Record :
        /\ ~record[r].active
        /\ threads[t].state = "runnable" /\ pc[t] = "create"
        /\ record' = [record EXCEPT ![r] = [Cleared EXCEPT !.active = TRUE]]
        /\ pc' = [pc EXCEPT ![t] = "create_syscall"]
        /\ frame' = [frame EXCEPT ![t].record = r]
        /\ UNCHANGED <<threads, self, children>>
  BY DEF create_claim, At, client
<1>2. /\ Others(t) /\ pc'[t] = "create_syscall" /\ frame'[t].record = r
      /\ frame'[t].other = frame[t].other /\ frame'[t].own = frame[t].own
      /\ \A x \in Record \ {r} : record'[x] = record[x]
      /\ record'[r].active /\ record'[r].handle = NoHandle /\ record'[r].ready = 0
  BY <1>0, <1>1 DEF Typed, Frame, Others, Cleared
<1>3. \A v \in Thread \ {t} :
        /\ Stage(v)' = Stage(v) /\ Life(v)' = Life(v) /\ Waits(v)' = Waits(v)
        /\ frame'[v] = frame[v]
  BY <1>1, <1>2, OthersView
<1>4. /\ Stage(t) = "idle" /\ Stage(t)' = "create_syscall"
      /\ Life(t) = "running" /\ Life(t)' = "running"
  BY <1>1, <1>2 DEF Stage, Life, Locking, Unlocking, Starting, Joining, Creating
<1>5. /\ \A v, u \in Thread : Claims(v, u)' <=> Claims(v, u)
      /\ \A u \in Thread : (Claimed(u)' <=> Claimed(u)) /\ Own(u)' = Own(u)
  BY <1>1, <1>2, <1>3 DEF Claims, Claimed, Own
<1>6. \A u \in Thread : Claimed(u) => Own(u) \in Record \ {r}
  BY <1>1 DEF Claimed, Books, ClaimOK
<1>7. frame[t].other = NoHandle /\ \A u \in Thread : frame[t].other # u
  BY <1>0, <1>4 DEF StageOK, Thread, NoHandle
<1>8. \A x \in Record : record'[x] = record[x] \/ Mine(t, x)
  <2>1. Mine(t, r)
    BY <1>1, <1>6, StageLoaded DEF Mine, Books, StageOK
  <2> QED BY <1>2, <2>1
<1>9. StageOK(t)' /\ LifeOK(t)'
  BY <1>0, <1>1, <1>2, <1>4, <1>5, <1>6, <1>7 DEF StageOK, LifeOK, Creating, Joining
<1>10. ASSUME NEW u \in Thread PROVE ClaimOK(t, u)'
  <2>1. ClaimOK(t, u)
    BY DEF Books
  <2>2. Claims(t, u) => record'[Own(u)] = record[Own(u)]
    BY <1>2, <1>6 DEF Claimed
  <2>3. Life(u)' = Life(u)
    BY <1>3, <1>4
  <2> QED BY <1>1, <1>2, <1>5, <1>7, <2>1, <2>2, <2>3 DEF ClaimOK
<1> QED BY <1>1, <1>2, <1>3, <1>4, <1>5, <1>8, <1>9, <1>10, OwnStep

(* A thread that is not in the middle of a call answers for nobody in its  *)
(* frame.                                                                  *)
LEMMA IdleFrame ==
  ASSUME Books, Typed, NEW t \in Thread, Stage(t) \in {"idle", "create_syscall"}
  PROVE  frame[t].other = NoHandle /\ \A u \in Thread : frame[t].other # u
<1>1. StageOK(t)
  BY DEF Books
<1> QED BY <1>1 DEF StageOK, Thread, NoHandle

(* Only one thread is between the scan of the records and the unlock. *)
LEMMA OneCreator ==
  ASSUME IInv, NEW t \in Thread, pc[t] \in Creating, NEW v \in Thread \ {t}
  PROVE  Stage(v) \notin Creating
<1>1. Holding(t, "records")
  BY DEF Holding, Creating
<1>2. ~Holding(v, "records")
  BY <1>1, PlaceFacts DEF IInv, Locks
<1> QED BY <1>2 DEF Holding, Stage, Creating, Joining

(* THREAD_CREATE refuses: the record is free again. *)
LEMMA FailBooks ==
  ASSUME IInv, Books, NEW t \in Thread, create_fails(t)
  PROVE  Books'
<1>0. Typed /\ StageOK(t) /\ LifeOK(t)
  BY DEF IInv, Threading, Books
<1>a. PICK r \in Record : r = frame[t].record
  BY DEF create_fails, At, IInv, Threading, Loaded, Creating
<1>1. /\ threads[t].state = "runnable" /\ pc[t] = "create_syscall"
      /\ record' = [record EXCEPT ![r].active = FALSE]
      /\ UNCHANGED <<threads, self, children>>
  BY <1>a DEF create_fails, At, client
<1>2. /\ Others(t) /\ pc'[t] = "unlock" /\ frame'[t].ret = "client"
      /\ frame'[t].other = NoHandle /\ frame'[t].own = frame[t].own
  BY <1>0, FinishMoves DEF create_fails
<1>3. \A v \in Thread \ {t} :
        /\ Stage(v)' = Stage(v) /\ Life(v)' = Life(v) /\ Waits(v)' = Waits(v)
        /\ frame'[v] = frame[v]
  BY <1>1, <1>2, OthersView
<1>4. /\ Stage(t) = "create_syscall" /\ Stage(t)' = "idle"
      /\ Life(t) = "running" /\ Life(t)' = "running"
  BY <1>1, <1>2 DEF Stage, Life, Locking, Unlocking, Starting, Joining, Creating
<1>5. frame[t].other = NoHandle /\ \A u \in Thread : frame[t].other # u
  BY <1>0, <1>4, IdleFrame
<1>6. /\ \A v, u \in Thread : Claims(v, u)' <=> Claims(v, u)
      /\ \A u \in Thread : (Claimed(u)' <=> Claimed(u)) /\ Own(u)' = Own(u)
  BY <1>1, <1>2, <1>3, <1>5 DEF Claims, Claimed, Own
<1>7. /\ \A x \in Record \ {r} : record'[x] = record[x]
      /\ ~record'[r].active
  BY <1>0, <1>1 DEF Typed, RecordType
<1>8. \A x \in Record : record'[x] = record[x] \/ Mine(t, x)
  <2>1. Mine(t, r)
    BY <1>0, <1>1, <1>4, <1>a, OneCreator DEF Mine, StageOK, Creating
  <2> QED BY <1>7, <2>1
<1>9. StageOK(t)' /\ LifeOK(t)'
  BY <1>0, <1>1, <1>2, <1>4, <1>6 DEF StageOK, LifeOK, Creating, Joining
<1>10. ASSUME NEW u \in Thread PROVE ClaimOK(t, u)'
  <2>1. ClaimOK(t, u)
    BY DEF Books
  <2>2. Claims(t, u) => record'[Own(u)] = record[Own(u)]
    BY <1>0, <1>4, <1>7, <1>a, <2>1 DEF Claimed, StageOK, ClaimOK
  <2>3. Life(u)' = Life(u)
    BY <1>3, <1>4
  <2> QED BY <1>1, <1>2, <1>5, <1>6, <2>1, <2>2, <2>3 DEF ClaimOK
<1>11. \A x \in Record : record'[x].active => record[x].active
  BY <1>7
<1>12. \A x \in Record : frame[t].record = x => ~record'[x].active
  BY <1>7, <1>a
<1> QED BY <1>1, <1>3, <1>4, <1>6, <1>8, <1>9, <1>10, <1>11, <1>12, OwnStep

(* pthread_create stores the handle, then the ready word. *)
LEMMA PublishBooks ==
  ASSUME IInv, Books, NEW t \in Thread, create_handle(t) \/ create_ready(t)
  PROVE  Books'
<1>0. Typed /\ StageOK(t) /\ LifeOK(t) /\ Exclusive
  BY DEF IInv, Threading, Books
<1>a. threads[t].state = "runnable" /\ pc[t] \in {"create_handle", "create_ready"}
  BY DEF create_handle, create_ready, At
<1>b. frame[t].other # NoHandle /\ frame[t].record = Own(frame[t].other)
  BY <1>0, <1>a DEF StageOK, Stage, Locking, Unlocking, Creating, Joining
<1>c. PICK u \in Thread : u = frame[t].other
  BY <1>0, <1>b, StageKnows
<1>d. PICK r \in Record : r = frame[t].record
  BY <1>0, <1>b, StageKnows
<1>1. /\ threads[t].state = "runnable" /\ UNCHANGED <<threads, self, children>>
      /\ \/ /\ pc[t] = "create_handle"
            /\ record' = [record EXCEPT ![r].handle = u]
         \/ /\ pc[t] = "create_ready"
            /\ record' = [record EXCEPT ![r].ready = 1]
  BY <1>a, <1>c, <1>d DEF create_handle, create_ready, At, client
<1>2. /\ Others(t) /\ frame' = frame
      /\ \/ pc[t] = "create_handle" /\ pc'[t] = "create_ready"
         \/ pc[t] = "create_ready" /\ pc'[t] = "create_wake"
  <2>1. CASE create_handle(t)
    BY <1>0, <2>1, GotoMoves, PlaceFacts DEF create_handle, At
  <2>2. CASE create_ready(t)
    BY <1>0, <2>2, GotoMoves, PlaceFacts DEF create_ready, At
  <2> QED BY <2>1, <2>2
<1>3. \A v \in Thread \ {t} :
        /\ Stage(v)' = Stage(v) /\ Life(v)' = Life(v) /\ Waits(v)' = Waits(v)
        /\ frame'[v] = frame[v]
  BY <1>1, <1>2, OthersView
<1>4. /\ Stage(t) = pc[t] /\ Stage(t)' = pc'[t] /\ ~Waits(t)
      /\ Life(t) = "running" /\ Life(t)' = "running"
  BY <1>1, <1>2 DEF Stage, Life, Waits, Locking, Unlocking, Starting, Joining, Creating
<1>5. /\ \A v, w \in Thread : Claims(v, w)' <=> Claims(v, w)
      /\ \A w \in Thread : (Claimed(w)' <=> Claimed(w)) /\ Own(w)' = Own(w)
  BY <1>1, <1>2 DEF Claims, Claimed, Own
<1>6. /\ Claims(t, u) /\ Claimed(u) /\ r = Own(u) /\ record[r].active /\ u # NoHandle
  BY <1>0, <1>b, <1>c, <1>d, StageKnows
<1>7. /\ \A x \in Record \ {r} : record'[x] = record[x]
      /\ record'[r].active /\ record'[r].result = record[r].result
      /\ \/ pc[t] = "create_handle" /\ record'[r].handle = u /\ record'[r].ready = record[r].ready
         \/ /\ pc[t] = "create_ready" /\ record'[r].handle = record[r].handle
            /\ record'[r].ready = 1
  BY <1>0, <1>1, <1>6 DEF Typed, RecordType
<1>8. \A x \in Record : record'[x] = record[x] \/ Mine(t, x)
  <2>1. Mine(t, r)
    BY <1>0, <1>1, <1>6, OneCreator DEF Mine, Exclusive, Creating
  <2> QED BY <1>7, <2>1
<1>9. /\ record[r].ready = 0
      /\ pc[t] = "create_ready" => record[r].handle = u
  BY <1>0, <1>1, <1>4, <1>c, <1>d DEF StageOK
<1>10. StageOK(t)'
  BY <1>0, <1>1, <1>2, <1>4, <1>5, <1>6, <1>7, <1>9, <1>c, <1>d DEF StageOK, Creating, Joining
<1>11. LifeOK(t)'
  BY <1>0, <1>1, <1>4, <1>5 DEF LifeOK
<1>12. ASSUME NEW w \in Thread PROVE ClaimOK(t, w)'
  <2>1. ClaimOK(t, w) /\ Life(w)' = Life(w)
    BY <1>3, <1>4 DEF Books
  <2>2. CASE w = u
    <3>1. Life(u) \notin {"named", "running", "exit", "exited"}
      BY <1>6, <1>9, <2>1, <2>2 DEF ClaimOK
    <3>2. u # 0 /\ Life(u) # "unused" /\ u \notin children[t]
      BY <1>6, <1>c, <2>1, <2>2 DEF ClaimOK
    <3>3. \/ Stage(t)' \in {"create_handle", "create_ready"}
          \/ record'[r].handle = u /\ record'[r].ready = 1
      BY <1>1, <1>2, <1>4, <1>7, <1>9
    <3>4. frame'[t].other = u /\ Own(u)' = r
      BY <1>2, <1>5, <1>6, <1>c
    <3> QED BY <1>1, <1>6, <1>7, <2>1, <2>2, <3>1, <3>2, <3>3, <3>4 DEF ClaimOK
  <2>3. CASE w # u /\ Claims(t, w)
    <3>1. Own(w) \in Record /\ Own(w) # r
      BY <1>0, <1>6, <2>1, <2>3 DEF ClaimOK, Exclusive, Claimed
    <3>2. record'[Own(w)] = record[Own(w)] /\ frame[t].other # w
      BY <1>7, <1>c, <2>3, <3>1
    <3> QED BY <1>1, <1>2, <1>5, <2>1, <2>3, <3>2 DEF ClaimOK
  <2>4. CASE ~Claims(t, w)
    BY <1>5, <2>4 DEF ClaimOK
  <2> QED BY <2>2, <2>3, <2>4
<1>13. \A x \in Record : record'[x].active => record[x].active
  BY <1>6, <1>7
<1>14. Stage(t) # "create_syscall" /\ Life(t)' = Life(t)
  BY <1>1, <1>4
<1> QED BY <1>1, <1>3, <1>5, <1>8, <1>10, <1>11, <1>12, <1>13, <1>14, OwnStep

(* OwnStep for a step that writes no record. *)
LEMMA ReadStep ==
  ASSUME IInv, Books, NEW t \in Thread, Stage(t) # "create_syscall",
         \A v \in Thread \ {t} :
           /\ Stage(v)' = Stage(v) /\ Life(v)' = Life(v) /\ Waits(v)' = Waits(v)
           /\ frame'[v] = frame[v] /\ self'[v] = self[v]
           /\ children'[v] = children[v],
         frame'[t].own = frame[t].own, record' = record,
         \A u \in Thread : Claims(t, u)' <=> Claims(t, u),
         Life(t) = "exited" => Life(t)' = "exited",
         StageOK(t)', LifeOK(t)', \A u \in Thread : ClaimOK(t, u)',
         Life(t)' = Life(t) \/ \A v \in Thread : ClaimOK(v, t)'
  PROVE  Books'
<1>1. \A v \in Thread : Own(v)' = Own(v)
  BY DEF Own
<1>2. \A v, u \in Thread : Claims(v, u)' <=> Claims(v, u)
  <2> TAKE v, u \in Thread
  <2>1. CASE v = t
    BY <2>1
  <2>2. CASE v # t
    BY <2>2 DEF Claims
  <2> QED BY <2>1, <2>2
<1> QED BY <1>1, <1>2, OwnStep

(* Every record is in use. *)
LEMMA NoRecordBooks ==
  ASSUME IInv, Books, NEW t \in Thread, create_no_record(t)
  PROVE  Books'
<1>0. Typed
  BY DEF IInv, Threading
<1>1. /\ threads[t].state = "runnable" /\ pc[t] = "create"
      /\ UNCHANGED <<threads, record, self, children>>
  BY DEF create_no_record, At, shared, client
<1>2. /\ Others(t) /\ pc'[t] = "unlock" /\ frame'[t].ret = "client"
      /\ frame'[t].other = NoHandle /\ frame'[t].own = frame[t].own
  BY <1>0, FinishMoves DEF create_no_record
<1>3. /\ Stage(t) = "idle" /\ Stage(t)' = "idle"
      /\ Life(t) = "running" /\ Life(t)' = "running"
  BY <1>1, <1>2 DEF Stage, Life, Locking, Unlocking, Starting, Joining, Creating
<1>4. frame[t].other = NoHandle
  BY <1>0, <1>3, IdleFrame
<1> QED BY <1>1, <1>2, <1>3, <1>4, QuietBooks

(* pthread_create returns the handle: the thread is the caller's child. *)
LEMMA ReturnedBooks ==
  ASSUME IInv, Books, NEW t \in Thread, create_wake(t)
  PROVE  Books'
<1>0. Typed /\ Loaded(t) /\ StageOK(t) /\ LifeOK(t)
  BY DEF IInv, Threading, Books
<1>1. /\ threads[t].state = "runnable" /\ pc[t] = "create_wake"
      /\ children' = [children EXCEPT ![t] = @ \cup {frame[t].other}]
      /\ UNCHANGED <<record, self>>
  BY DEF create_wake, At, shared
<1>2. PICK u \in Thread : u = frame[t].other
  BY <1>0, <1>1 DEF Loaded, Creating
<1>3. /\ Others(t) /\ pc'[t] = "unlock" /\ frame'[t].ret = "client"
      /\ frame'[t].other = NoHandle /\ frame'[t].own = frame[t].own
  BY <1>0, FinishMoves DEF create_wake
<1>4. \A v \in Thread :
        \/ threads'[v] = threads[v]
        \/ v \in FutexWaiters(threads, frame[t].record) /\ threads'[v] = Runnable
  BY <1>0, WakeMoves DEF create_wake
<1>5. \A v \in Thread \ {t} :
        /\ Stage(v)' = Stage(v) /\ Life(v)' = Life(v) /\ Waits(v)' = Waits(v)
        /\ frame'[v] = frame[v] /\ children'[v] = children[v]
  <2>1. \A v \in Thread \ {t} : \/ threads'[v] = threads[v]
                                \/ threads[v].state = "futex" /\ threads'[v] = Runnable
    BY <1>4 DEF FutexWaiters
  <2>2. \A v \in Thread \ {t} : children'[v] = children[v]
    BY <1>0, <1>1 DEF Typed
  <2> QED BY <1>3, <2>1, <2>2, OthersView
<1>6. children'[t] = children[t] \cup {u}
  BY <1>0, <1>1, <1>2 DEF Typed
<1>7. /\ Stage(t) = "create_wake" /\ Stage(t)' = "idle"
      /\ Life(t) = "running" /\ Life(t)' = "running"
  BY <1>1, <1>3 DEF Stage, Life, Locking, Unlocking, Starting, Joining, Creating
<1>8. \A w \in Thread : NoHandle # w
  BY DEF NoHandle, Thread
<1>9. \A w \in Thread : Claims(t, w)' <=> Claims(t, w)
  BY <1>2, <1>3, <1>6, <1>8 DEF Claims
<1>10. StageOK(t)'
  BY <1>3, <1>7 DEF StageOK, Creating, Joining
<1>11. LifeOK(t)'
  <2>1. Claimed(t) => Claimed(t)'
    BY <1>5, <1>9 DEF Claimed, Claims
  <2> QED BY <1>0, <1>1, <1>7, <2>1 DEF LifeOK
<1>12. ASSUME NEW w \in Thread PROVE ClaimOK(t, w)'
  <2>1. ClaimOK(t, w) /\ Life(w)' = Life(w) /\ Own(w)' = Own(w)
    BY <1>3, <1>5, <1>7 DEF Books, Own
  <2>2. Claims(t, w) => record[Own(w)].handle = w /\ record[Own(w)].ready = 1
    BY <1>7, <2>1 DEF ClaimOK
  <2>3. frame'[t].other # w
    BY <1>3, <1>8
  <2> QED BY <1>1, <1>9, <2>1, <2>2, <2>3 DEF ClaimOK
<1> QED BY <1>1, <1>3, <1>5, <1>7, <1>9, <1>10, <1>11, <1>12, ReadStep

(* A thread that only goes on in its life: its creator or parent must find *)
(* the record as the new stage of its life promises.                       *)
LEMMA LifeStep ==
  ASSUME IInv, Books, NEW t \in Thread, Others(t), frame' = frame,
         \A v \in Thread \ {t} : threads'[v] = threads[v] /\ self'[v] = self[v],
         children' = children, record' = record,
         Stage(t) = "idle", Stage(t)' = "idle",
         Life(t) # "exited", Life(t)' # "unused", LifeOK(t)',
         Claimed(t) =>
           /\ Life(t)' \in {"exit", "exited"} => record[Own(t)].result \in {t, 0}
           /\ Life(t)' \in {"named", "running", "exit", "exited"} =>
                record[Own(t)].ready = 1
  PROVE  Books'
<1>0. Typed
  BY DEF IInv, Threading
<1>1. \A v \in Thread \ {t} :
        /\ Stage(v)' = Stage(v) /\ Life(v)' = Life(v) /\ Waits(v)' = Waits(v)
  BY OthersView
<1>2. \A v, u \in Thread : Claims(v, u)' <=> Claims(v, u)
  BY DEF Claims
<1>3. frame[t].other = NoHandle
  BY <1>0, IdleFrame
<1>4. StageOK(t)'
  BY <1>3 DEF StageOK, Creating, Joining
<1>5. ASSUME NEW v \in Thread, NEW u \in Thread, v = t \/ u = t
      PROVE  ClaimOK(v, u)'
  <2>1. ClaimOK(v, u) /\ Own(u)' = Own(u)
    BY DEF Books, Own
  <2>2. CASE ~Claims(v, u)
    BY <1>2, <2>2 DEF ClaimOK
  <2>3. CASE Claims(v, u)
    <3>1. Stage(v)' = Stage(v)
      BY <1>1
    <3>2. Claimed(u)
      BY <2>3 DEF Claimed
    <3>3. CASE u = t
      BY <1>2, <2>1, <2>3, <3>1, <3>2, <3>3 DEF ClaimOK
    <3>4. CASE u # t
      <4>1. Life(u)' = Life(u)
        BY <1>1, <3>4
      <4> QED BY <1>2, <2>1, <2>3, <3>1, <4>1 DEF ClaimOK
    <3> QED BY <3>3, <3>4
  <2> QED BY <2>2, <2>3
<1> QED BY <1>1, <1>2, <1>4, <1>5, ReadStep

(* A thread somebody answers for whose ready word is set finds its handle  *)
(* in its record.                                                          *)
LEMMA ReadyNames ==
  ASSUME Books, Typed, NEW u \in Thread, Claimed(u), record[Own(u)].ready = 1
  PROVE  record[Own(u)].handle = u
<1>1. PICK v \in Thread : Claims(v, u)
  BY DEF Claimed
<1>2. ClaimOK(v, u) /\ StageOK(v)
  BY DEF Books
<1>3. ~(frame[v].other = u /\ Stage(v) \in {"create_handle", "create_ready"})
  BY <1>2 DEF StageOK, Creating
<1> QED BY <1>1, <1>2, <1>3 DEF ClaimOK

(* The trampoline: it waits for the ready word, then takes its handle. *)
LEMMA TrampolineBooks ==
  ASSUME IInv, Books, NEW t \in Thread,
         trampoline(t) \/ trampoline_wait(t) \/ trampoline_self(t)
  PROVE  Books'
<1>0. Typed /\ Loaded(t) /\ LifeOK(t)
  BY DEF IInv, Threading, Books
<1>1. /\ threads[t].state = "runnable" /\ pc[t] \in Starting
      /\ UNCHANGED <<record, children>>
  BY DEF trampoline, trampoline_wait, trampoline_self, At, Starting, shared, client
<1>2. PICK r \in Record : r = frame[t].own
  BY <1>0, <1>1 DEF Loaded
<1>3. /\ Stage(t) = "idle" /\ Life(t) \in {"starting", "named"}
      /\ Claimed(t) /\ t # 0 /\ self[t] = NoHandle
  <2>1. Stage(t) = "idle" /\ Life(t) \in {"starting", "named"}
    BY <1>1 DEF Stage, Life, Starting, Locking, Unlocking, Creating, Joining
  <2> QED BY <1>0, <2>1 DEF LifeOK
<1>4. CASE trampoline_wait(t)
  <2>1. /\ Others(t) /\ frame' = frame /\ pc'[t] = "trampoline" /\ self' = self
        /\ pc[t] = "trampoline_wait"
    BY <1>0, <1>4, GotoMoves, PlaceFacts DEF trampoline_wait, At, client
  <2>2. threads' = threads \/ threads' = futex_wait(threads, t, r, NoDeadline)
    BY <1>2, <1>4 DEF trampoline_wait
  <2>3. /\ threads'[t].state \in {"runnable", "futex"}
        /\ \A v \in Thread \ {t} : threads'[v] = threads[v]
    BY <1>0, <1>1, <2>2, WaitMoves DEF Address
  <2>4. Stage(t)' = "idle" /\ Life(t) = "starting" /\ Life(t)' = "starting"
    BY <2>1 DEF Stage, Life, Starting, Locking, Unlocking, Creating, Joining
  <2> QED BY <1>1, <1>3, <2>1, <2>3, <2>4, QuietBooks
<1>5. CASE trampoline(t)
  <2>1. /\ Others(t) /\ frame' = frame /\ self' = self /\ threads' = threads
        /\ pc[t] = "trampoline"
        /\ \/ pc'[t] = "trampoline_wait"
           \/ pc'[t] = "trampoline_self" /\ record[r].ready # 0
    BY <1>0, <1>2, <1>5, GotoMoves, PlaceFacts DEF trampoline, At, client
  <2>2. CASE pc'[t] = "trampoline_wait"
    <3>1. Stage(t)' = "idle" /\ Life(t) = "starting" /\ Life(t)' = "starting"
      BY <2>1, <2>2 DEF Stage, Life, Starting, Locking, Unlocking, Creating, Joining
    <3> QED BY <1>1, <1>3, <2>1, <2>2, <3>1, QuietBooks
  <2>3. CASE pc'[t] = "trampoline_self" /\ record[r].ready # 0
    <3>1. Stage(t)' = "idle" /\ Life(t) = "starting" /\ Life(t)' = "named"
      BY <2>1, <2>3 DEF Stage, Life, Starting, Locking, Unlocking, Creating, Joining
    <3>2. record[Own(t)].ready = 1
      BY <1>0, <1>2, <2>3 DEF Typed, RecordType, Own
    <3>3. Claimed(t)'
      BY <1>1, <1>3, <2>1 DEF Claimed, Claims
    <3>4. LifeOK(t)'
      BY <1>3, <2>1, <3>1, <3>3 DEF LifeOK
    <3> QED BY <1>1, <1>3, <2>1, <3>1, <3>2, <3>4, LifeStep
  <2> QED BY <2>1, <2>2, <2>3
<1>6. CASE trampoline_self(t)
  <2>1. /\ Others(t) /\ frame' = frame /\ threads' = threads
        /\ pc[t] = "trampoline_self" /\ pc'[t] = "client"
        /\ self' = [self EXCEPT ![t] = record[r].handle]
    BY <1>0, <1>2, <1>6, GotoMoves, PlaceFacts DEF trampoline_self, At, shared
  <2>2. Stage(t)' = "idle" /\ Life(t) = "named" /\ Life(t)' = "running"
    BY <1>1, <2>1 DEF Stage, Life, Starting, Locking, Unlocking, Creating, Joining
  <2>3. record[Own(t)].ready = 1
    BY <1>3, <2>2 DEF Claimed, Books, ClaimOK
  <2>4. record[r].handle = t
    BY <1>0, <1>2, <1>3, <2>3, ReadyNames DEF Own
  <2>5. self'[t] = t /\ \A v \in Thread \ {t} : self'[v] = self[v]
    BY <1>0, <2>1, <2>4 DEF Typed
  <2>6. Claimed(t)'
    BY <1>1, <1>3, <2>1 DEF Claimed, Claims
  <2>7. LifeOK(t)'
    BY <1>3, <2>2, <2>5, <2>6 DEF LifeOK
  <2> QED BY <1>1, <1>3, <2>1, <2>2, <2>3, <2>5, <2>7, LifeStep
<1> QED BY <1>4, <1>5, <1>6

(* THREAD_EXIT ends the thread; its record and its value stay. *)
LEMMA ExitBooks ==
  ASSUME IInv, Books, NEW t \in Thread, exit_syscall(t)
  PROVE  Books'
<1>0. Typed /\ LifeOK(t)
  BY DEF IInv, Threading, Books
<1>1. /\ pc[t] = "exit" /\ UNCHANGED <<record, self, children>>
      /\ threads' = [threads EXCEPT ![t] = Exited]
  BY DEF exit_syscall, thread_exit, At, shared, client
<1>2. Others(t) /\ frame' = frame /\ pc'[t] = "none"
  BY <1>0, GotoMoves, PlaceFacts DEF exit_syscall
<1>3. /\ threads'[t].state = "exited"
      /\ \A v \in Thread \ {t} : threads'[v] = threads[v]
  BY <1>0, <1>1, ControlFacts DEF Typed
<1>4. /\ Stage(t) = "idle" /\ Stage(t)' = "idle"
      /\ Life(t) = "exit" /\ Life(t)' = "exited"
  BY <1>1, <1>2, <1>3 DEF Stage, Life, Starting, Locking, Unlocking, Creating, Joining
<1>5. LifeOK(t)'
  BY <1>0, <1>1, <1>4 DEF LifeOK
<1>6. Claimed(t) => record[Own(t)].result \in {t, 0} /\ record[Own(t)].ready = 1
  BY <1>4 DEF Claimed, Books, ClaimOK
<1> QED BY <1>1, <1>2, <1>3, <1>4, <1>5, <1>6, LifeStep

(* An active record that names a thread is that thread's own. *)
LEMMA NamedRecord ==
  ASSUME Books, Typed, NEW u \in Thread, NEW x \in Record,
         record[x].active, record[x].handle = u
  PROVE  Claimed(u) /\ Own(u) = x
<1>1. u # NoHandle
  BY DEF NoHandle, Thread
<1>2. ~\E v \in Thread : Stage(v) = "create_syscall" /\ frame[v].record = x
  BY <1>1 DEF Books, StageOK
<1>3. PICK w \in Thread : Claimed(w) /\ Own(w) = x
  BY <1>2 DEF Books, Exclusive
<1>4. PICK v \in Thread : Claims(v, w)
  BY <1>3 DEF Claimed
<1>5. ClaimOK(v, w) /\ StageOK(v)
  BY DEF Books
<1>6. record[x].handle = w
  BY <1>1, <1>3, <1>4, <1>5 DEF ClaimOK, StageOK, Creating, Joining
<1> QED BY <1>3, <1>6

(* pthread_join takes one of the caller's children into its frame. *)
LEMMA JoinBooks ==
  ASSUME IInv, Books, NEW t \in Thread, pthread_join(t)
  PROVE  Books'
<1>0. Typed /\ StageOK(t) /\ LifeOK(t)
  BY DEF IInv, Threading, Books
<1>1. PICK u \in children[t] :
        /\ threads[t].state = "runnable" /\ pc[t] = "client"
        /\ children' = [children EXCEPT ![t] = @ \ {u}]
        /\ pc' = [pc EXCEPT ![t] = "lock"]
        /\ frame' = [frame EXCEPT ![t].lock = "records", ![t].ret = "join_find",
                                  ![t].other = u]
        /\ UNCHANGED <<threads, record, self>>
  BY DEF pthread_join, At, shared
<1>2. u \in Thread
  BY <1>0 DEF Typed
<1>3. /\ Others(t) /\ pc'[t] = "lock" /\ frame'[t].ret = "join_find"
      /\ frame'[t].other = u /\ frame'[t].own = frame[t].own
  BY <1>0, <1>1 DEF Typed, Frame, Others
<1>4. /\ children'[t] = children[t] \ {u}
      /\ \A v \in Thread \ {t} : children'[v] = children[v]
  BY <1>0, <1>1 DEF Typed
<1>5. \A v \in Thread \ {t} :
        /\ Stage(v)' = Stage(v) /\ Life(v)' = Life(v) /\ Waits(v)' = Waits(v)
        /\ frame'[v] = frame[v]
  BY <1>1, <1>3, OthersView
<1>6. /\ Stage(t) = "idle" /\ Stage(t)' = "join_find"
      /\ Life(t) = "running" /\ Life(t)' = "running"
  BY <1>1, <1>3 DEF Stage, Life, Starting, Locking, Unlocking, Creating, Joining
<1>7. frame[t].other = NoHandle /\ \A w \in Thread : frame[t].other # w
  BY <1>0, <1>6, IdleFrame
<1>8. \A w \in Thread : Claims(t, w)' <=> Claims(t, w)
  BY <1>1, <1>3, <1>4, <1>7 DEF Claims
<1>9. StageOK(t)'
  BY <1>2, <1>3, <1>6, <1>7 DEF StageOK, Creating, Joining, NoHandle, Thread
<1>10. LifeOK(t)'
  <2>1. Claimed(t) => Claimed(t)'
    BY <1>4, <1>5, <1>8 DEF Claimed, Claims
  <2> QED BY <1>0, <1>1, <1>6, <2>1 DEF LifeOK
<1>11. ASSUME NEW w \in Thread PROVE ClaimOK(t, w)'
  <2>1. ClaimOK(t, w) /\ Life(w)' = Life(w) /\ Own(w)' = Own(w)
    BY <1>3, <1>5, <1>6 DEF Books, Own
  <2>2. Claims(t, w) => record[Own(w)].handle = w /\ record[Own(w)].ready = 1
    BY <1>6, <2>1 DEF ClaimOK
  <2>3. frame'[t].other = w => w \notin children'[t]
    BY <1>3, <1>4
  <2> QED BY <1>1, <1>8, <2>1, <2>2, <2>3 DEF ClaimOK
<1> QED BY <1>1, <1>3, <1>4, <1>5, <1>6, <1>8, <1>9, <1>10, <1>11, ReadStep

LEMMA ExitedLife ==
  ASSUME IInv, NEW u \in Thread, threads[u].state = "exited"
  PROVE  Life(u) = "exited"
<1>1. Placed(u)
  BY DEF IInv, Threading
<1>2. pc[u] = "none"
  BY <1>1 DEF Placed
<1> QED BY <1>2 DEF Life, Starting

(* The steps of pthread_join that keep the joined thread in the frame and  *)
(* only go on: its next stage must find what it promises.                  *)
LEMMA JoinOn ==
  ASSUME IInv, Books, NEW t \in Thread, Others(t),
         \A v \in Thread \ {t} : threads'[v] = threads[v],
         record' = record, self' = self, children' = children,
         Life(t) = "running", Life(t)' = "running",
         Stage(t) \in Joining, Stage(t)' \in Joining \ {"join_find"},
         frame'[t].other = frame[t].other, frame'[t].own = frame[t].own,
         frame'[t].record = Own(frame[t].other),
         Stage(t)' = "join_clear" \/ (Stage(t)' = "join_result" /\ ~Waits(t)') =>
           Life(frame[t].other) = "exited"
  PROVE  Books'
<1>0. Typed /\ StageOK(t) /\ LifeOK(t)
  BY DEF IInv, Threading, Books
<1>1. \A v \in Thread \ {t} :
        /\ Stage(v)' = Stage(v) /\ Life(v)' = Life(v) /\ Waits(v)' = Waits(v)
        /\ frame'[v] = frame[v]
  BY OthersView
<1>2. \A w \in Thread : (Claims(t, w)' <=> Claims(t, w)) /\ Own(w)' = Own(w)
  BY <1>1 DEF Claims, Own
<1>3. PICK u \in Thread : u = frame[t].other /\ u # NoHandle
  BY <1>0 DEF StageOK, Joining, Typed, Frame
<1>4. Life(u)' = Life(u) /\ frame'[t].record = Own(u) /\ Own(u)' = Own(u)
  BY <1>1, <1>2, <1>3
<1>5. StageOK(t)'
  BY <1>2, <1>3, <1>4 DEF StageOK, Creating, Joining
<1>6. LifeOK(t)'
  <2>1. Claimed(t) => Claimed(t)'
    BY <1>1, <1>2 DEF Claimed, Claims
  <2> QED BY <1>0, <2>1 DEF LifeOK
<1>7. ASSUME NEW w \in Thread PROVE ClaimOK(t, w)'
  <2>1. ClaimOK(t, w) /\ Life(w)' = Life(w)
    BY <1>1 DEF Books
  <2>2. Claims(t, w) => record[Own(w)].handle = w /\ record[Own(w)].ready = 1
    BY <2>1 DEF ClaimOK, Joining
  <2> QED BY <1>2, <2>1, <2>2 DEF ClaimOK
<1>8. Stage(t) # "create_syscall"
  BY DEF Joining
<1> QED BY <1>1, <1>2, <1>5, <1>6, <1>7, <1>8, ReadStep

(* pthread_join finds the record of the thread it joins. *)
LEMMA FindBooks ==
  ASSUME IInv, Books, NEW t \in Thread, join_find(t)
  PROVE  Books'
<1>0. Typed /\ Loaded(t)
  BY DEF IInv, Threading, Books
<1>1. PICK x \in Record :
        /\ threads[t].state = "runnable" /\ pc[t] = "join_find"
        /\ record[x].active /\ record[x].handle = frame[t].other
        /\ pc' = [pc EXCEPT ![t] = "unlock"]
        /\ frame' = [frame EXCEPT ![t].lock = "records", ![t].ret = "join_syscall",
                                  ![t].record = x]
        /\ UNCHANGED <<threads, record, self, children>>
  BY DEF join_find, At, shared, client
<1>2. frame[t].other \in Thread
  BY <1>0, <1>1 DEF Loaded, Joining
<1>3. Own(frame[t].other) = x
  BY <1>0, <1>1, <1>2, NamedRecord
<1>4. /\ Others(t) /\ pc'[t] = "unlock" /\ frame'[t].ret = "join_syscall"
      /\ frame'[t].other = frame[t].other /\ frame'[t].own = frame[t].own
      /\ frame'[t].record = x
  BY <1>0, <1>1 DEF Typed, Frame, Others
<1>5. /\ Stage(t) = "join_find" /\ Stage(t)' = "join_syscall"
      /\ Life(t) = "running" /\ Life(t)' = "running"
  BY <1>1, <1>4 DEF Stage, Life, Starting, Locking, Unlocking, Creating, Joining
<1> QED BY <1>1, <1>3, <1>4, <1>5, JoinOn DEF Joining

(* The thread waits for the end of the joined one, is let go by the kernel *)
(* when that one has ended, and takes the lock again.                      *)
LEMMA WaitBooks ==
  ASSUME IInv, Books, NEW t \in Thread, join_syscall(t) \/ join_result(t)
  PROVE  Books'
<1>0. Typed /\ Loaded(t) /\ StageOK(t)
  BY DEF IInv, Threading, Books
<1>1. /\ threads[t].state = "runnable" /\ pc[t] \in {"join_syscall", "join_result"}
      /\ UNCHANGED <<record, self, children>>
  BY DEF join_syscall, join_result, At, shared, client
<1>2. PICK u \in Thread : u = frame[t].other
  BY <1>0, <1>1 DEF Loaded, Joining
<1>3. /\ Stage(t) = pc[t] /\ Life(t) = "running" /\ ~Waits(t)
      /\ frame[t].record = Own(u)
  <2>1. Stage(t) = pc[t] /\ Life(t) = "running" /\ ~Waits(t)
    BY <1>1 DEF Stage, Life, Waits, Starting, Locking, Unlocking, Creating, Joining
  <2> QED BY <1>0, <1>1, <1>2, <2>1 DEF StageOK, Joining
<1>4. CASE join_syscall(t)
  <2>1. /\ Others(t) /\ frame' = frame /\ pc'[t] = "join_result"
        /\ pc[t] = "join_syscall"
    BY <1>0, <1>4, GotoMoves, PlaceFacts DEF join_syscall, At
  <2>2. \/ threads' = threads /\ threads[u].state = "exited"
        \/ threads' = [threads EXCEPT ![t] = ParkedOn("join", <<u>>, NoDeadline)]
    BY <1>0, <1>2, <1>4, ControlFacts DEF join_syscall, thread_join, Terminated, Typed
  <2>3. Life(u) = "exited" \/ Waits(t)'
    <3>1. threads[u].state = "exited" => Life(u) = "exited"
      BY ExitedLife
    <3> QED BY <1>0, <2>2, <3>1, ControlFacts DEF Waits, Typed
  <2>4. \A v \in Thread \ {t} : threads'[v] = threads[v]
    BY <1>0, <2>2 DEF Typed
  <2>5. Stage(t)' = "join_result" /\ Life(t)' = "running"
    BY <2>1 DEF Stage, Life, Starting, Locking, Unlocking, Creating, Joining
  <2> QED BY <1>1, <1>2, <1>3, <2>1, <2>3, <2>4, <2>5, JoinOn DEF Joining
<1>5. CASE join_result(t)
  <2>1. /\ Others(t) /\ pc'[t] = "lock" /\ frame'[t].ret = "join_clear"
        /\ frame'[t].record = frame[t].record /\ threads' = threads
        /\ frame'[t].other = frame[t].other /\ frame'[t].own = frame[t].own
        /\ pc[t] = "join_result"
    BY <1>0, <1>5, CallMoves, PlaceFacts DEF join_result, At
  <2>2. Stage(t)' = "join_clear" /\ Life(t)' = "running"
    BY <2>1 DEF Stage, Life, Starting, Locking, Unlocking, Creating, Joining
  <2>3. Life(u) = "exited"
    BY <1>0, <1>2, <1>3, <2>1 DEF StageOK
  <2> QED BY <1>1, <1>2, <1>3, <2>1, <2>2, <2>3, JoinOn DEF Joining
<1> QED BY <1>4, <1>5

LEMMA JoinedBooks ==
  ASSUME IInv, Books, update_waiting_threads
  PROVE  Books'
<1>0. Typed
  BY DEF IInv, Threading
<1>1. PICK t \in Thread :
        /\ threads[t].state = "join" /\ threads[Head(threads[t].on)].state \in Terminated
        /\ threads' = [threads EXCEPT ![t] = Runnable]
        /\ UNCHANGED <<pc, frame, record, self, children>>
  BY DEF update_waiting_threads, joined, user, shared, client
<1>2. Placed(t) /\ Loaded(t) /\ StageOK(t)
  BY DEF IInv, Threading, Books
<1>3. pc[t] = "join_result" /\ threads[t].on = <<frame[t].other>>
  BY <1>1, <1>2 DEF Placed
<1>4. PICK u \in Thread : u = frame[t].other
  BY <1>2, <1>3 DEF Loaded, Joining
<1>5. threads[u].state = "exited"
  <2>1. Head(<<u>>) = u
    OBVIOUS
  <2> QED BY <1>0, <1>1, <1>3, <1>4, <2>1, ControlFacts DEF Terminated, Typed
<1>6. Life(u) = "exited"
  BY <1>5, ExitedLife
<1>7. /\ Stage(t) = "join_result" /\ Stage(t)' = "join_result"
      /\ Life(t) = "running" /\ Life(t)' = "running"
  BY <1>1, <1>3 DEF Stage, Life, Starting, Locking, Unlocking, Creating, Joining
<1>8. Others(t) /\ \A v \in Thread \ {t} : threads'[v] = threads[v]
  BY <1>0, <1>1 DEF Others, Typed
<1>9. frame[t].record = Own(frame[t].other)
  BY <1>2, <1>7 DEF StageOK, Joining
<1> QED BY <1>1, <1>4, <1>6, <1>7, <1>8, <1>9, JoinOn DEF Joining

(* THREAD_CREATE: the new thread is answered for by its creator alone, and *)
(* the record the creator claimed becomes its own.                         *)
LEMMA SpawnBooks ==
  ASSUME IInv, Books, NEW t \in Thread, create_syscall(t)
  PROVE  Books'
<1>0. Typed /\ StageOK(t) /\ LifeOK(t) /\ Exclusive
  BY DEF IInv, Threading, Books
<1>a. PICK r \in Record : r = frame[t].record
  BY DEF create_syscall, At, IInv, Threading, Loaded, Creating
<1>1. PICK u \in Thread :
        /\ threads[t].state = "runnable" /\ pc[t] = "create_syscall"
        /\ threads[u].state = "unused"
        /\ threads' = [threads EXCEPT ![u] = Runnable]
        /\ pc' = [pc EXCEPT ![t] = "create_handle", ![u] = "trampoline"]
        /\ frame' = [frame EXCEPT ![t].other = u, ![u].own = r]
        /\ UNCHANGED <<record, self, children>>
  BY <1>a DEF create_syscall, At, FirstUnused, thread_create, shared, client
<1>2. u # t /\ pc[u] = "none"
  <2>1. Placed(u)
    BY DEF IInv, Threading
  <2> QED BY <1>1, <2>1 DEF Placed
<1>3. /\ pc'[t] = "create_handle" /\ pc'[u] = "trampoline"
      /\ threads'[t] = threads[t] /\ threads'[u].state = "runnable"
      /\ \A v \in Thread \ {t, u} : pc'[v] = pc[v] /\ threads'[v] = threads[v]
  BY <1>0, <1>1, <1>2, ControlFacts DEF Typed
<1>4. /\ frame'[t].other = u /\ frame'[t].record = r /\ frame'[t].own = frame[t].own
      /\ frame'[u].own = r /\ frame'[u].other = frame[u].other
      /\ \A v \in Thread \ {t, u} : frame'[v] = frame[v]
  <2>1. frame \in [Thread -> Frame]
    BY <1>0 DEF Typed
  <2> DEFINE f == [frame EXCEPT ![t].other = u]
  <2>2. /\ f \in [Thread -> Frame] /\ f[t].other = u /\ f[t].record = r
        /\ f[t].own = frame[t].own
        /\ \A v \in Thread \ {t} : f[v] = frame[v]
    BY <1>a, <2>1 DEF Frame
  <2>3. frame' = [f EXCEPT ![u].own = r]
    BY <1>1
  <2> HIDE DEF f
  <2> QED BY <1>2, <2>2, <2>3 DEF Frame
<1>5. /\ Stage(t) = "create_syscall" /\ Stage(t)' = "create_handle"
      /\ Life(t) = "running" /\ Life(t)' = "running"
      /\ Stage(u) = "idle" /\ Stage(u)' = "idle"
      /\ Life(u) = "unused" /\ Life(u)' = "starting"
  BY <1>1, <1>2, <1>3 DEF Stage, Life, Starting, Locking, Unlocking, Creating, Joining
<1>6. \A v \in Thread \ {t, u} :
        Stage(v)' = Stage(v) /\ Life(v)' = Life(v) /\ Waits(v)' = Waits(v)
  BY <1>3, <1>4 DEF Stage, Life, Waits
<1>7. /\ frame[t].other = NoHandle /\ frame[u].other = NoHandle
      /\ \A w \in Thread : NoHandle # w
  <2>1. frame[t].other = NoHandle /\ frame[u].other = NoHandle
    BY <1>0, <1>5, IdleFrame
  <2> QED BY <2>1 DEF NoHandle, Thread
<1>8. ~Claimed(u) /\ u # 0 /\ self[u] = NoHandle
  <2>1. ~Claimed(u)
    BY <1>5 DEF Claimed, Books, ClaimOK
  <2>2. LifeOK(u)
    BY DEF Books
  <2> QED BY <1>5, <2>1, <2>2 DEF LifeOK
<1>9. /\ \A v \in Thread \ {t}, w \in Thread : Claims(v, w)' <=> Claims(v, w)
      /\ \A w \in Thread : Claims(t, w)' <=> Claims(t, w) \/ w = u
  <2>1. \A v \in Thread \ {t} : frame'[v].other = frame[v].other
    BY <1>4
  <2> QED BY <1>1, <1>4, <1>7, <2>1 DEF Claims
<1>10. /\ \A w \in Thread : Claimed(w)' <=> Claimed(w) \/ w = u
       /\ \A w \in Thread \ {u} : Own(w)' = Own(w)
       /\ Own(u)' = r
  <2>1. \A w \in Thread : Claimed(w)' <=> Claimed(w) \/ w = u
    BY <1>9 DEF Claimed
  <2> QED BY <1>4, <2>1 DEF Own
<1>11. /\ record[r].active /\ record[r].handle = NoHandle /\ record[r].ready = 0
       /\ \A w \in Thread : Claimed(w) => Own(w) # r
  BY <1>0, <1>5, <1>a DEF StageOK
<1>12. \A w \in Thread \ {u} : Life(w)' = Life(w)
  BY <1>5, <1>6
<1>13. ASSUME NEW v \in Thread PROVE StageOK(v)'
  <2>1. CASE v = t
    BY <1>1, <1>4, <1>5, <1>7, <1>10, <1>11, <2>1 DEF StageOK, Creating, Joining
  <2>2. CASE v = u
    BY <1>4, <1>5, <1>7, <2>2 DEF StageOK, Creating, Joining
  <2>3. CASE v \notin {t, u} /\ frame[v].other = NoHandle
    <3>1. Stage(v) # "create_syscall"
      BY <1>1, <2>3, OneCreator DEF Creating
    <3>2. Stage(v) = "idle"
      BY <2>3, <3>1 DEF Books, StageOK
    <3> QED BY <1>4, <1>6, <2>3, <3>2 DEF StageOK, Creating, Joining
  <2>4. CASE v \notin {t, u} /\ frame[v].other # NoHandle
    <3>1. PICK w \in Thread : w = frame[v].other /\ Claimed(w)
      BY <1>0, <2>4, StageKnows
    <3>2. StageOK(v) /\ Stage(v) # "create_syscall"
      BY <2>4 DEF Books, StageOK
    <3>3. /\ frame'[v].other = w /\ frame'[v].record = frame[v].record
          /\ Stage(v)' = Stage(v) /\ Waits(v)' = Waits(v)
          /\ Life(w)' = Life(w) /\ Own(w)' = Own(w)
      BY <1>4, <1>6, <1>8, <1>10, <1>12, <2>4, <3>1
    <3> QED BY <1>1, <3>1, <3>2, <3>3 DEF StageOK, Creating, Joining
  <2> QED BY <2>1, <2>2, <2>3, <2>4
<1>14. ASSUME NEW v \in Thread PROVE LifeOK(v)'
  <2>1. CASE v = u
    BY <1>1, <1>5, <1>8, <1>10, <2>1 DEF LifeOK
  <2>2. CASE v # u
    <3>1. LifeOK(v)
      BY DEF Books
    <3> QED BY <1>1, <1>10, <1>12, <2>2, <3>1 DEF LifeOK
  <2> QED BY <2>1, <2>2
<1>15. ASSUME NEW v \in Thread, NEW w \in Thread PROVE ClaimOK(v, w)'
  <2>1. ClaimOK(v, w)
    BY DEF Books
  <2>2. CASE w = u /\ v # t
    BY <1>8, <1>9, <2>2 DEF ClaimOK, Claimed
  <2>3. CASE w = u /\ v = t
    <3>1. u \notin children'[t]
      BY <1>1, <1>8 DEF Claimed, Claims
    <3> QED BY <1>1, <1>4, <1>5, <1>8, <1>10, <1>11, <2>3, <3>1 DEF ClaimOK
  <2>4. CASE w # u /\ v = t
    BY <1>1, <1>4, <1>5, <1>9, <1>10, <1>12, <2>1, <2>4 DEF ClaimOK
  <2>5. CASE w # u /\ v # t
    <3>1. frame'[v].other = frame[v].other /\ Stage(v)' = Stage(v)
      BY <1>4, <1>5, <1>6, <2>5
    <3> QED BY <1>1, <1>9, <1>10, <1>12, <2>1, <2>5, <3>1 DEF ClaimOK
  <2> QED BY <2>2, <2>3, <2>4, <2>5
<1>16. Exclusive'
  <2>1. \A v, x, w \in Thread : Claims(v, w)' /\ Claims(x, w)' => v = x
    BY <1>0, <1>8, <1>9 DEF Exclusive, Claimed
  <2>2. \A w, x \in Thread : Claimed(w)' /\ Claimed(x)' /\ Own(w)' = Own(x)' => w = x
    BY <1>0, <1>8, <1>10, <1>11 DEF Exclusive
  <2>3. ASSUME NEW x \in Record, record'[x].active
        PROVE  \/ \E v \in Thread : Stage(v)' = "create_syscall" /\ frame'[v].record = x
               \/ \E w \in Thread : Claimed(w)' /\ Own(w)' = x
    <3>1. \/ \E v \in Thread : Stage(v) = "create_syscall" /\ frame[v].record = x
          \/ \E w \in Thread : Claimed(w) /\ Own(w) = x
      BY <1>0, <1>1, <2>3 DEF Exclusive
    <3>2. ASSUME NEW v \in Thread, Stage(v) = "create_syscall", frame[v].record = x
          PROVE  x = r
      BY <1>1, <1>a, <3>2, OneCreator DEF Creating
    <3> QED BY <1>8, <1>10, <3>1, <3>2
  <2> QED BY <2>1, <2>2, <2>3 DEF Exclusive
<1> QED BY <1>13, <1>14, <1>15, <1>16 DEF Books

(* pthread_join clears the record: nobody answers for the ended thread any *)
(* more, and no other thread works on its record.                          *)
LEMMA ClearBooks ==
  ASSUME IInv, Books, NEW t \in Thread, join_clear(t)
  PROVE  Books'
<1>0. Typed /\ StageOK(t) /\ LifeOK(t) /\ Exclusive /\ Loaded(t)
  BY DEF IInv, Threading, Books
<1>1. threads[t].state = "runnable" /\ pc[t] = "join_clear"
  BY DEF join_clear, At
<1>a. PICK u \in Thread : u = frame[t].other /\ u # NoHandle
  BY <1>0, <1>1 DEF Loaded, Joining, NoHandle, Thread
<1>2. /\ Others(t) /\ pc'[t] = "unlock" /\ frame'[t].ret = "client"
      /\ frame'[t].other = NoHandle /\ frame'[t].own = frame[t].own
  BY <1>0, FinishMoves DEF join_clear
<1>3. /\ Stage(t) = "join_clear" /\ Stage(t)' = "idle"
      /\ Life(t) = "running" /\ Life(t)' = "running"
  BY <1>1, <1>2 DEF Stage, Life, Starting, Locking, Unlocking, Creating, Joining
<1>b. PICK r \in Record : r = frame[t].record /\ r = Own(u)
  BY <1>0, <1>3, <1>a, StageKnows DEF StageOK, Joining
<1>4. /\ record' = [record EXCEPT ![r] = Cleared]
      /\ UNCHANGED <<threads, self, children>>
  BY <1>b DEF join_clear, client
<1>5. /\ \A x \in Record \ {r} : record'[x] = record[x]
      /\ ~record'[r].active
  BY <1>0, <1>4 DEF Typed, Cleared
<1>6. \A v \in Thread \ {t} :
        /\ Stage(v)' = Stage(v) /\ Life(v)' = Life(v) /\ Waits(v)' = Waits(v)
        /\ frame'[v] = frame[v] /\ Own(v)' = Own(v)
  BY <1>2, <1>4, OthersView
<1>7. \A v \in Thread : Life(v)' = Life(v) /\ Own(v)' = Own(v)
  BY <1>2, <1>3, <1>6 DEF Own
<1>8. /\ Life(u) = "exited" /\ u \notin children[t] /\ Claims(t, u) /\ Claimed(u)
      /\ \A v \in Thread \ {t} : ~Claims(v, u)
  <2>1. Claims(t, u) /\ ClaimOK(t, u)
    BY <1>a DEF Claims, Books
  <2> QED BY <1>0, <1>3, <1>a, <2>1 DEF StageOK, ClaimOK, Claimed, Exclusive
<1>9. \A v, w \in Thread : Claims(v, w)' <=> Claims(v, w) /\ w # u
  <2> TAKE v, w \in Thread
  <2>1. CASE v = t
    <3>1. NoHandle # w
      BY DEF NoHandle, Thread
    <3> QED BY <1>2, <1>4, <1>8, <1>a, <2>1, <3>1 DEF Claims
  <2>2. CASE v # t
    BY <1>4, <1>6, <1>8, <2>2 DEF Claims
  <2> QED BY <2>1, <2>2
<1>10. \A w \in Thread : Claimed(w)' <=> Claimed(w) /\ w # u
  BY <1>9 DEF Claimed
<1>11. \A w \in Thread : Claimed(w) /\ w # u =>
         Own(w) \in Record /\ Own(w) # r /\ record'[Own(w)] = record[Own(w)]
  <2> SUFFICES ASSUME NEW w \in Thread, Claimed(w), w # u
               PROVE  Own(w) \in Record /\ Own(w) # r
    BY <1>5
  <2>1. Own(w) \in Record
    BY DEF Claimed, Books, ClaimOK
  <2> QED BY <1>0, <1>8, <1>b, <2>1 DEF Exclusive
<1>12. ASSUME NEW v \in Thread PROVE StageOK(v)'
  <2>1. StageOK(v)
    BY DEF Books
  <2>2. CASE v = t
    BY <1>2, <1>3, <2>2 DEF StageOK, Creating, Joining
  <2>3. CASE v # t /\ frame[v].other = NoHandle
    <3>1. CASE Stage(v) = "idle"
      BY <1>6, <2>3, <3>1 DEF StageOK, Creating, Joining
    <3>2. CASE Stage(v) = "create_syscall"
      <4>1. frame[v].record \in Record
        BY <3>2, StageLoaded
      <4>2. frame[v].record # r
        BY <1>8, <1>b, <2>1, <3>2 DEF StageOK
      <4>3. record'[frame[v].record] = record[frame[v].record]
        BY <1>5, <4>1, <4>2
      <4> QED BY <1>6, <1>7, <1>10, <2>1, <2>3, <3>2, <4>3 DEF StageOK, Creating, Joining
    <3> QED BY <2>1, <2>3, <3>1, <3>2 DEF StageOK
  <2>4. CASE v # t /\ frame[v].other # NoHandle
    <3>1. PICK w \in Thread : w = frame[v].other /\ Claims(v, w) /\ Claimed(w)
      BY <1>0, <2>4, StageKnows
    <3>2. Stage(v) \notin {"idle", "create_syscall"}
      BY <2>1, <2>4 DEF StageOK
    <3>3. w # u
      BY <1>8, <2>4, <3>1
    <3>4. /\ frame'[v].other = w /\ frame'[v].record = frame[v].record
          /\ Stage(v)' = Stage(v) /\ Waits(v)' = Waits(v)
          /\ Own(w)' = Own(w) /\ Life(w)' = Life(w)
          /\ record'[Own(w)] = record[Own(w)]
      BY <1>6, <1>7, <1>11, <2>4, <3>1, <3>3
    <3> QED BY <2>1, <3>1, <3>2, <3>4 DEF StageOK, Creating, Joining
  <2> QED BY <2>2, <2>3, <2>4
<1>13. ASSUME NEW v \in Thread PROVE LifeOK(v)'
  <2>1. LifeOK(v)
    BY DEF Books
  <2>2. CASE v = u
    BY <1>4, <1>7, <1>8, <2>1, <2>2 DEF LifeOK
  <2>3. CASE v # u
    BY <1>4, <1>7, <1>10, <2>1, <2>3 DEF LifeOK
  <2> QED BY <2>2, <2>3
<1>14. ASSUME NEW v \in Thread, NEW w \in Thread PROVE ClaimOK(v, w)'
  <2>1. ClaimOK(v, w)
    BY DEF Books
  <2>2. CASE ~Claims(v, w) \/ w = u
    BY <1>9, <2>2 DEF ClaimOK
  <2>3. CASE Claims(v, w) /\ w # u
    <3>1. record'[Own(w)] = record[Own(w)]
      BY <1>11, <2>3 DEF Claimed
    <3>2. CASE v = t
      <4>1. frame'[t].other # w
        BY <1>2 DEF NoHandle, Thread
      <4>2. record[Own(w)].handle = w /\ record[Own(w)].ready = 1
        BY <1>3, <2>1, <2>3, <3>2 DEF ClaimOK
      <4> QED BY <1>7, <2>1, <2>3, <3>1, <3>2, <4>1, <4>2 DEF ClaimOK
    <3>3. CASE v # t
      BY <1>4, <1>6, <1>7, <2>1, <2>3, <3>1, <3>3 DEF ClaimOK
    <3> QED BY <3>2, <3>3
  <2> QED BY <2>2, <2>3
<1>15. Exclusive'
  <2>1. \A v, x, w \in Thread : Claims(v, w)' /\ Claims(x, w)' => v = x
    BY <1>0, <1>9 DEF Exclusive
  <2>2. \A w, x \in Thread : Claimed(w)' /\ Claimed(x)' /\ Own(w)' = Own(x)' => w = x
    BY <1>0, <1>7, <1>10 DEF Exclusive
  <2>3. ASSUME NEW x \in Record, record'[x].active
        PROVE  \/ \E v \in Thread : Stage(v)' = "create_syscall" /\ frame'[v].record = x
               \/ \E w \in Thread : Claimed(w)' /\ Own(w)' = x
    <3>1. x # r /\ record[x].active
      BY <1>5, <2>3
    <3>2. \/ \E v \in Thread : Stage(v) = "create_syscall" /\ frame[v].record = x
          \/ \E w \in Thread : Claimed(w) /\ Own(w) = x
      BY <1>0, <3>1 DEF Exclusive
    <3>3. CASE \E v \in Thread : Stage(v) = "create_syscall" /\ frame[v].record = x
      BY <1>3, <1>6, <3>3
    <3>4. CASE \E w \in Thread : Claimed(w) /\ Own(w) = x
      BY <1>7, <1>10, <1>b, <3>1, <3>4
    <3> QED BY <3>2, <3>3, <3>4
  <2> QED BY <2>1, <2>2, <2>3 DEF Exclusive
<1> QED BY <1>12, <1>13, <1>14, <1>15 DEF Books

(* A thread leaves its value in a record: its own, or for the main thread, *)
(* which has none, any.                                                    *)
LEMMA ResultStep ==
  ASSUME IInv, Books, NEW t \in Thread, NEW x \in Record,
         threads[t].state = "runnable", pc[t] \in {"client", "exit_store"},
         pc'[t] = "exit",
         Others(t), frame' = frame, UNCHANGED <<threads, self, children>>,
         record' = [record EXCEPT ![x].result = t],
         t # 0 => x = Own(t)
  PROVE  Books'
<1>0. Typed /\ LifeOK(t) /\ Exclusive
  BY DEF IInv, Threading, Books
<1>1. /\ Stage(t) = "idle" /\ Stage(t)' = "idle"
      /\ Life(t) = "running" /\ Life(t)' = "exit"
  BY DEF Stage, Life, Starting, Locking, Unlocking, Creating, Joining
<1>2. \A v \in Thread \ {t} :
        Stage(v)' = Stage(v) /\ Life(v)' = Life(v) /\ Waits(v)' = Waits(v)
  BY OthersView
<1>3. \A v \in Thread : Stage(v)' = Stage(v) /\ Waits(v)' = Waits(v) /\ Own(v)' = Own(v)
  BY <1>1, <1>2 DEF Waits, Own
<1>4. \A v, w \in Thread : Claims(v, w)' <=> Claims(v, w)
  BY DEF Claims
<1>5. \A w \in Thread : Claimed(w)' <=> Claimed(w)
  BY <1>4 DEF Claimed
<1>6. /\ \A y \in Record : /\ record'[y].active = record[y].active
                           /\ record'[y].handle = record[y].handle
                           /\ record'[y].ready = record[y].ready
      /\ \A y \in Record \ {x} : record'[y].result = record[y].result
      /\ record'[x].result = t
  BY <1>0 DEF Typed, RecordType
<1>7. ASSUME NEW v \in Thread PROVE StageOK(v)'
  <2>1. StageOK(v)
    BY DEF Books
  <2>2. CASE frame[v].other = NoHandle
    <3>1. CASE Stage(v) = "idle"
      BY <1>3, <2>2, <3>1 DEF StageOK, Creating, Joining
    <3>2. CASE Stage(v) = "create_syscall"
      <4>1. PICK y \in Record : y = frame[v].record
        BY <3>2, StageLoaded
      <4>2. /\ record'[y].active = record[y].active
            /\ record'[y].handle = record[y].handle
            /\ record'[y].ready = record[y].ready
        BY <1>6
      <4> QED BY <1>3, <1>5, <2>1, <2>2, <3>2, <4>1, <4>2 DEF StageOK, Creating, Joining
    <3> QED BY <2>1, <2>2, <3>1, <3>2 DEF StageOK
  <2>3. CASE frame[v].other # NoHandle
    <3>1. PICK w \in Thread : w = frame[v].other /\ Own(w) \in Record
      BY <1>0, <2>3, StageKnows
    <3>2. PICK y \in Record : y = Own(w)
      BY <3>1
    <3>3. Stage(v) \notin {"idle", "create_syscall"}
      BY <2>1, <2>3 DEF StageOK
    <3>4. /\ Stage(v)' = Stage(v) /\ Waits(v)' = Waits(v) /\ Own(w)' = y
          /\ record'[y].handle = record[y].handle
          /\ record'[y].ready = record[y].ready
      BY <1>3, <1>6, <3>2
    <3>5. Life(w) = "exited" => Life(w)' = "exited"
      BY <1>1, <1>2
    <3> QED BY <2>1, <3>1, <3>2, <3>3, <3>4, <3>5 DEF StageOK, Creating, Joining
  <2> QED BY <2>2, <2>3
<1>8. ASSUME NEW v \in Thread PROVE LifeOK(v)'
  <2>1. LifeOK(v)
    BY DEF Books
  <2>2. CASE v = t
    BY <1>1, <1>5, <2>1, <2>2 DEF LifeOK
  <2>3. CASE v # t
    BY <1>2, <1>5, <2>1, <2>3 DEF LifeOK
  <2> QED BY <2>2, <2>3
<1>9. ASSUME NEW v \in Thread, NEW w \in Thread PROVE ClaimOK(v, w)'
  <2>1. ClaimOK(v, w)
    BY DEF Books
  <2>2. CASE ~Claims(v, w)
    BY <1>4, <2>2 DEF ClaimOK
  <2>3. CASE Claims(v, w)
    <3>1. PICK y \in Record : y = Own(w) /\ Claimed(w)
      BY <2>1, <2>3 DEF ClaimOK, Claimed
    <3>2. /\ record'[y].active = record[y].active
          /\ record'[y].handle = record[y].handle
          /\ record'[y].ready = record[y].ready
      BY <1>6
    <3>3. CASE w = t
      <4>1. record'[y].result = t
        BY <1>6, <2>1, <2>3, <3>1, <3>3 DEF ClaimOK
      <4> QED BY <1>1, <1>3, <1>4, <2>1, <2>3, <3>1, <3>2, <3>3, <4>1 DEF ClaimOK
    <3>4. CASE w # t
      <4>1. Life(w) \in {"exit", "exited"} => record'[y].result \in {w, 0}
        <5> SUFFICES ASSUME Life(w) \in {"exit", "exited"}
                     PROVE  record'[y].result \in {w, 0}
          OBVIOUS
        <5>1. record[y].result \in {w, 0}
          BY <2>1, <2>3, <3>1 DEF ClaimOK
        <5>2. CASE t = 0
          BY <1>6, <5>1, <5>2
        <5>3. CASE t # 0
          <6>1. Claimed(t)
            BY <1>0, <1>1, <5>3 DEF LifeOK
          <6>2. y # x
            BY <1>0, <3>1, <3>4, <5>3, <6>1 DEF Exclusive
          <6> QED BY <1>6, <5>1, <6>2
        <5> QED BY <5>2, <5>3
      <4>2. Life(w)' = Life(w)
        BY <1>2, <3>4
      <4> QED BY <1>3, <1>4, <2>1, <2>3, <3>1, <3>2, <4>1, <4>2 DEF ClaimOK
    <3> QED BY <3>3, <3>4
  <2> QED BY <2>2, <2>3
<1>10. Exclusive'
  <2>1. \A v, y, w \in Thread : Claims(v, w)' /\ Claims(y, w)' => v = y
    BY <1>0, <1>4 DEF Exclusive
  <2>2. \A w, y \in Thread : Claimed(w)' /\ Claimed(y)' /\ Own(w)' = Own(y)' => w = y
    BY <1>0, <1>3, <1>5 DEF Exclusive
  <2>3. ASSUME NEW y \in Record, record'[y].active
        PROVE  \/ \E v \in Thread : Stage(v)' = "create_syscall" /\ frame'[v].record = y
               \/ \E w \in Thread : Claimed(w)' /\ Own(w)' = y
    <3>1. record[y].active
      BY <1>6, <2>3
    <3> QED BY <1>0, <1>3, <1>5, <3>1 DEF Exclusive
  <2> QED BY <2>1, <2>2, <2>3 DEF Exclusive
<1> QED BY <1>7, <1>8, <1>9, <1>10 DEF Books

-----------------------------------------------------------------------------
(* The scan of pthread_exit: a thread with a record of its own has not     *)
(* passed it yet, and what it stores goes there.  A record not in use      *)
(* names nobody.                                                           *)
ScanOK(t) ==
  /\ pc[t] \in {"exit_handle", "exit_store"} => frame[t].record \in Record
  /\ t # 0 =>
       /\ pc[t] = "exit_active" => Own(t) \in frame[t].left
       /\ pc[t] = "exit_handle" => Own(t) \in frame[t].left \cup {frame[t].record}
       /\ pc[t] = "exit_store" => frame[t].record = Own(t)

Vacant == \A r \in Record : ~record[r].active => record[r].handle = NoHandle

Scans == Vacant /\ \A t \in Thread : ScanOK(t)

(* A running thread other than the main one finds its handle in its own    *)
(* record, and in no other.                                                *)
LEMMA OwnHandle ==
  ASSUME IInv, Books, Scans, NEW t \in Thread, t # 0, Life(t) = "running"
  PROVE  /\ self[t] = t /\ Own(t) \in Record
         /\ record[Own(t)].active /\ record[Own(t)].handle = t
         /\ \A x \in Record : record[x].handle = t => x = Own(t)
<1>0. Typed
  BY DEF IInv, Threading
<1>1. Claimed(t) /\ self[t] = t
  BY DEF Books, LifeOK
<1>2. /\ Own(t) \in Record /\ record[Own(t)].active
      /\ record[Own(t)].ready = 1
  BY <1>1 DEF Claimed, Books, ClaimOK
<1>3. record[Own(t)].handle = t
  BY <1>0, <1>1, <1>2, ReadyNames
<1>4. ASSUME NEW x \in Record, record[x].handle = t
      PROVE  x = Own(t)
  <2>1. record[x].active
    BY <1>4 DEF Scans, Vacant, NoHandle, Thread
  <2> QED BY <1>0, <1>4, <2>1, NamedRecord
<1> QED BY <1>1, <1>2, <1>3, <1>4

(* The end of a thread: its entry returns, or it calls pthread_exit, which *)
(* looks for the record by the handle.                                     *)
LEMMA ResultBooks ==
  ASSUME IInv, Books, Scans, NEW t \in Thread, entry_returns(t) \/ exit_store(t)
  PROVE  Books'
<1>0. Typed /\ ScanOK(t)
  BY DEF IInv, Threading, Scans
<1>1. /\ threads[t].state = "runnable" /\ pc[t] \in {"client", "exit_store"}
      /\ UNCHANGED <<threads, self, children>>
  BY DEF entry_returns, exit_store, At, client
<1>2. Others(t) /\ frame' = frame /\ pc'[t] = "exit"
  BY <1>0, GotoMoves, PlaceFacts DEF entry_returns, exit_store
<1>3. Life(t) = "running"
  BY <1>1 DEF Life, Starting
<1>4. CASE entry_returns(t)
  <2>1. t # 0 /\ record' = [record EXCEPT ![Own(t)].result = t]
    BY <1>4 DEF entry_returns, Own
  <2>2. Own(t) \in Record
    BY <1>3, <2>1, OwnHandle
  <2> QED BY <1>1, <1>2, <2>1, <2>2, ResultStep
<1>5. CASE exit_store(t)
  <2>1. /\ pc[t] = "exit_store"
        /\ record' = [record EXCEPT ![frame[t].record].result = t]
    BY <1>5 DEF exit_store, At
  <2>2. frame[t].record \in Record /\ (t # 0 => frame[t].record = Own(t))
    BY <1>0, <2>1 DEF ScanOK
  <2> QED BY <1>1, <1>2, <2>1, <2>2, ResultStep
<1> QED BY <1>4, <1>5

(* The scan itself changes no record. *)
LEMMA ScanBooks ==
  ASSUME IInv, Books, Scans, NEW t \in Thread,
         \/ pthread_exit(t) \/ exit_active(t) \/ exit_no_record(t) \/ exit_handle(t)
  PROVE  Books'
<1>0. Typed /\ ScanOK(t) /\ LifeOK(t)
  BY DEF IInv, Threading, Scans, Books
<1>1. /\ threads[t].state = "runnable"
      /\ pc[t] \in {"client", "exit_active", "exit_handle"}
      /\ UNCHANGED <<threads, record, self, children>>
  BY DEF pthread_exit, exit_active, exit_no_record, exit_handle, At, shared, client
<1>2. Stage(t) = "idle" /\ Life(t) = "running"
  BY <1>1 DEF Stage, Life, Starting, Locking, Unlocking, Creating, Joining
<1>3. CASE pthread_exit(t) \/ exit_active(t) \/ exit_handle(t)
  <2>1. /\ Others(t) /\ pc'[t] \in Scanning
        /\ frame'[t].other = frame[t].other /\ frame'[t].own = frame[t].own
    <3>1. CASE pthread_exit(t) \/ exit_active(t)
      BY <1>0, <3>1, ScanStarts, ScanReads DEF Scanning
    <3>2. CASE exit_handle(t)
      BY <1>0, <3>2, GotoMoves, PlaceFacts DEF exit_handle, Scanning
    <3> QED BY <1>3, <3>1, <3>2
  <2>2. Stage(t)' = "idle" /\ Life(t)' = "running" /\ pc'[t] # "none"
    BY <2>1 DEF Stage, Life, Starting, Locking, Unlocking, Creating, Joining, Scanning
  <2> QED BY <1>1, <1>2, <2>1, <2>2, QuietBooks
<1>4. CASE exit_no_record(t)
  <2>1. Others(t) /\ frame' = frame /\ pc'[t] = "exit"
    BY <1>0, <1>4, GotoMoves, PlaceFacts DEF exit_no_record
  <2>2. pc[t] = "exit_active" /\ frame[t].left = {}
    BY <1>4 DEF exit_no_record, At
  <2>3. t = 0
    BY <1>0, <2>2 DEF ScanOK
  <2>4. Stage(t)' = "idle" /\ Life(t)' = "exit"
    BY <2>1 DEF Stage, Life, Starting, Locking, Unlocking, Creating, Joining
  <2>5. LifeOK(t)'
    BY <1>0, <1>1, <2>3, <2>4 DEF LifeOK
  <2>6. ~Claimed(t)
    BY <2>3 DEF Claimed, Books, ClaimOK
  <2> QED BY <1>1, <1>2, <2>1, <2>4, <2>5, <2>6, LifeStep
<1> QED BY <1>3, <1>4

(* A step of a thread that is not scanning when it is over. *)
LEMMA ScansKept ==
  ASSUME Scans, Vacant',
         \A v \in Thread : \/ pc'[v] \notin Scanning
                           \/ pc'[v] = pc[v] /\ frame'[v] = frame[v]
  PROVE  Scans'
BY DEF Scans, ScanOK, Own, Scanning

LEMMA ScansMoved ==
  ASSUME Scans, Vacant', NEW t \in Thread, Others(t), pc'[t] \notin Scanning
  PROVE  Scans'
<1>1. \A v \in Thread : \/ pc'[v] \notin Scanning
                        \/ pc'[v] = pc[v] /\ frame'[v] = frame[v]
  BY DEF Others
<1> QED BY <1>1, ScansKept

LEMMA ClientScans ==
  ASSUME IInv, Scans, NEW t \in Thread,
         \/ lock_exchange(t) \/ lock_wait(t) \/ unlock_store(t) \/ unlock_wake(t)
         \/ pthread_mutex_lock(t) \/ pthread_mutex_unlock(t)
         \/ pthread_mutex_trylock(t) \/ pthread_create(t) \/ pthread_join(t)
         \/ pthread_once(t) \/ once_run(t) \/ once_wake(t) \/ once_check(t)
         \/ once_wait(t)
  PROVE  Scans'
<1>0. Typed /\ Called(t)
  BY DEF IInv, Threading
<1>1. record' = record
  BY DEF lock_exchange, lock_wait, unlock_store, unlock_wake, pthread_mutex_lock,
         pthread_mutex_unlock, pthread_mutex_trylock, pthread_create, pthread_join,
         pthread_once, once_run, once_wake, once_check, once_wait, shared
<1>2. Vacant'
  BY <1>1 DEF Scans, Vacant
<1>3. Others(t) /\ pc'[t] \notin Scanning
  <2>1. CASE lock_exchange(t) \/ unlock_wake(t)
    <3>1. pc[t] \in Locking \cup Unlocking
      BY <2>1 DEF lock_exchange, unlock_wake, At, Locking, Unlocking
    <3>2. frame[t].ret \notin Scanning
      BY <1>0, <3>1 DEF Called, Scanning
    <3> QED BY <1>0, <2>1, <3>2
            DEF lock_exchange, unlock_wake, Goto, Return, Others, Typed, Scanning
  <2>2. CASE \/ lock_wait(t) \/ unlock_store(t) \/ pthread_mutex_trylock(t)
             \/ pthread_once(t) \/ once_run(t) \/ once_wake(t) \/ once_check(t)
             \/ once_wait(t)
    BY <1>0, <2>2 DEF lock_wait, unlock_store, pthread_mutex_trylock, pthread_once,
                      once_run, once_wake, once_check, once_wait, Goto, Others,
                      Typed, Scanning
  <2>3. CASE \/ pthread_mutex_lock(t) \/ pthread_mutex_unlock(t)
             \/ pthread_create(t) \/ pthread_join(t)
    BY <1>0, <2>3 DEF pthread_mutex_lock, pthread_mutex_unlock, pthread_create,
                      pthread_join, Call, Others, Typed, Scanning
  <2> QED BY <2>1, <2>2, <2>3
<1> QED BY <1>2, <1>3, ScansMoved

LEMMA RecordScans ==
  ASSUME IInv, Books, Scans, NEW t \in Thread,
         \/ create_claim(t) \/ create_no_record(t) \/ create_fails(t)
         \/ create_syscall(t) \/ create_handle(t) \/ create_ready(t)
         \/ create_wake(t) \/ join_find(t) \/ join_syscall(t) \/ join_result(t)
         \/ join_clear(t)
  PROVE  Scans'
<1>0. Typed /\ Loaded(t) /\ StageOK(t) /\ Vacant
  BY DEF IInv, Threading, Books, Scans
<1>1. Vacant'
  <2>1. CASE create_claim(t)
    <3>1. PICK r \in Record :
            record' = [record EXCEPT ![r] = [Cleared EXCEPT !.active = TRUE]]
      BY <2>1 DEF create_claim
    <3> QED BY <1>0, <3>1 DEF Vacant, Cleared, Typed
  <2>2. CASE create_fails(t)
    <3>1. Stage(t) = "create_syscall" /\ frame[t].record \in Record
      BY <1>0, <2>2 DEF create_fails, At, Stage, Loaded, Locking, Unlocking, Creating
    <3> QED BY <1>0, <2>2, <3>1 DEF create_fails, StageOK, Vacant, Typed, RecordType
  <2>3. CASE create_handle(t)
    <3>1. /\ Stage(t) = "create_handle" /\ frame[t].other \in Thread
      BY <1>0, <2>3 DEF create_handle, At, Stage, Loaded, Locking, Unlocking, Creating
    <3>2. frame[t].record = Own(frame[t].other) /\ record[Own(frame[t].other)].active
      BY <1>0, <3>1, StageKnows DEF StageOK, Creating, NoHandle, Thread
    <3> QED BY <1>0, <2>3, <3>2 DEF create_handle, Vacant, Typed, RecordType
  <2>4. CASE create_ready(t)
    BY <1>0, <2>4 DEF create_ready, Vacant, Typed, RecordType
  <2>5. CASE \/ create_no_record(t) \/ create_syscall(t) \/ create_wake(t)
             \/ join_find(t) \/ join_syscall(t) \/ join_result(t)
    BY <1>0, <2>5 DEF create_no_record, create_syscall, create_wake, join_find,
                      join_syscall, join_result, shared, Vacant
  <2>6. CASE join_clear(t)
    BY <1>0, <2>6 DEF join_clear, Vacant, Cleared, Typed
  <2> QED BY <2>1, <2>2, <2>3, <2>4, <2>5, <2>6
<1>2. CASE create_syscall(t)
  <2>1. PICK u \in Thread :
          /\ pc' = [pc EXCEPT ![t] = "create_handle", ![u] = "trampoline"]
          /\ frame' = [frame EXCEPT ![t].other = u, ![u].own = frame[t].record]
    BY <1>2 DEF create_syscall
  <2>2. \A v \in Thread : \/ pc'[v] \in {"create_handle", "trampoline"}
                          \/ pc'[v] = pc[v] /\ frame'[v] = frame[v]
    BY <1>0, <2>1 DEF Typed
  <2> QED BY <1>1, <2>2, ScansKept DEF Scanning
<1>3. CASE \/ create_claim(t) \/ create_no_record(t) \/ create_fails(t)
           \/ create_handle(t) \/ create_ready(t) \/ create_wake(t)
           \/ join_find(t) \/ join_syscall(t) \/ join_result(t) \/ join_clear(t)
  <2>1. Others(t) /\ pc'[t] \notin Scanning
    BY <1>0, <1>3 DEF create_claim, create_no_record, create_fails, create_handle,
                      create_ready, create_wake, join_find, join_syscall,
                      join_result, join_clear, Goto, Call, Finish, Others, Typed,
                      Scanning
  <2> QED BY <1>1, <2>1, ScansMoved
<1> QED BY <1>2, <1>3

LEMMA LifeScans ==
  ASSUME IInv, Books, Scans, NEW t \in Thread,
         \/ trampoline(t) \/ trampoline_wait(t) \/ trampoline_self(t)
         \/ entry_returns(t) \/ exit_no_record(t) \/ exit_store(t) \/ exit_syscall(t)
  PROVE  Scans'
<1>0. Typed /\ Vacant
  BY DEF IInv, Threading, Scans
<1>1. Others(t) /\ pc'[t] \notin Scanning
  BY <1>0 DEF trampoline, trampoline_wait, trampoline_self, entry_returns,
              exit_no_record, exit_store, exit_syscall, Goto, Others, Typed, Scanning
<1>2. Vacant'
  <2>1. CASE entry_returns(t) \/ exit_store(t)
    BY <1>0, <2>1 DEF entry_returns, exit_store, Vacant, Typed, RecordType
  <2>2. CASE ~(entry_returns(t) \/ exit_store(t))
    BY <1>0, <2>2 DEF trampoline, trampoline_wait, trampoline_self, exit_no_record,
                      exit_syscall, shared, Vacant
  <2> QED BY <2>1, <2>2
<1> QED BY <1>1, <1>2, ScansMoved

(* One access of the scan: the record of the thread itself is never passed *)
(* over, as it is active and names the thread.                             *)
LEMMA AccessScans ==
  ASSUME IInv, Books, Scans, NEW t \in Thread,
         pthread_exit(t) \/ exit_active(t) \/ exit_handle(t)
  PROVE  Scans'
<1>0. Typed /\ ScanOK(t) /\ Vacant
  BY DEF IInv, Threading, Scans
<1>1. Others(t) /\ record' = record /\ Own(t)' = Own(t)
  <2>1. record' = record
    BY DEF pthread_exit, exit_active, exit_handle, shared
  <2>2. CASE pthread_exit(t) \/ exit_active(t)
    BY <1>0, <2>1, <2>2, ScanStarts, ScanReads DEF Own
  <2>3. CASE exit_handle(t)
    BY <1>0, <2>1, <2>3, GotoMoves, PlaceFacts DEF exit_handle, Own
  <2> QED BY <2>2, <2>3
<1>2. Vacant'
  BY <1>0, <1>1 DEF Vacant
<1>3. ASSUME t # 0
      PROVE  /\ self[t] = t /\ Own(t) \in Record
             /\ record[Own(t)].active /\ record[Own(t)].handle = t
             /\ \A x \in Record : record[x].handle = t => x = Own(t)
  <2>1. Life(t) = "running"
    BY DEF pthread_exit, exit_active, exit_handle, At, Life, Starting
  <2> QED BY <1>3, <2>1, OwnHandle
<1>4. ScanOK(t)'
  <2>1. CASE pthread_exit(t)
    <3>1. pc'[t] = "exit_active" /\ frame'[t].left = Record
      BY <1>0, <2>1, ScanStarts
    <3> QED BY <1>1, <1>3, <3>1 DEF ScanOK
  <2>2. CASE exit_active(t)
    <3>1. PICK r \in Record :
            /\ frame'[t].record = r /\ frame'[t].left = frame[t].left \ {r}
            /\ pc'[t] = IF record[r].active THEN "exit_handle" ELSE "exit_active"
      BY <1>0, <2>2, ScanReads
    <3>2. pc[t] = "exit_active"
      BY <2>2 DEF exit_active, At
    <3> QED BY <1>0, <1>1, <1>3, <3>1, <3>2 DEF ScanOK
  <2>3. CASE exit_handle(t)
    <3>1. /\ frame' = frame /\ pc[t] = "exit_handle"
          /\ pc'[t] = IF record[frame[t].record].handle = self[t] THEN "exit_store"
                                                                 ELSE "exit_active"
      BY <1>0, <2>3 DEF exit_handle, Goto, At, Typed
    <3> QED BY <1>0, <1>1, <1>3, <3>1 DEF ScanOK
  <2> QED BY <2>1, <2>2, <2>3
<1>5. ASSUME NEW v \in Thread \ {t} PROVE ScanOK(v)'
  BY <1>1 DEF Scans, ScanOK, Others, Own
<1> QED BY <1>2, <1>4, <1>5 DEF Scans

LEMMA InitScans == Init => Scans
BY DEF Init, Scans, Vacant, ScanOK, Cleared

LEMMA StepScans ==
  ASSUME IInv, Books, Scans, [Next]_vars
  PROVE  Scans'
<1>1. ASSUME NEW t \in Thread, Operation(t)
      PROVE  Scans'
  BY <1>1, ClientScans, LifeScans, AccessScans DEF Operation
<1>2. ASSUME NEW t \in Thread, Inside(t)
      PROVE  Scans'
  BY <1>2, ClientScans, RecordScans, LifeScans, AccessScans DEF Inside
<1>3. CASE update_waiting_threads \/ UNCHANGED vars
  <2>1. UNCHANGED <<pc, frame, record>>
    BY <1>3 DEF update_waiting_threads, vars, user, shared
  <2> QED BY <2>1 DEF Scans, Vacant, ScanOK, Own
<1> QED BY <1>1, <1>2, <1>3 DEF Next, ended

LEMMA InitBooks == Init => Books
<1> SUFFICES ASSUME Init PROVE Books
  OBVIOUS
<1>1. \A t \in Thread : /\ frame[t].other = NoHandle /\ children[t] = {}
                        /\ self[t] = NoHandle /\ NoHandle # t
                        /\ Stage(t) = "idle"
  BY DEF Init, Empty, NoHandle, Thread, Stage, Locking, Unlocking, Creating, Joining
<1>2. \A t, u \in Thread : ~Claims(t, u)
  BY <1>1 DEF Claims
<1>3. \A x \in Record : ~record[x].active
  BY DEF Init, Cleared
<1>4. \A t \in Thread : IF t = 0 THEN Life(t) = "running" ELSE Life(t) = "unused"
  <2> TAKE t \in Thread
  <2>1. CASE t = 0
    <3>1. pc[t] = "client"
      BY <2>1 DEF Init
    <3> QED BY <2>1, <3>1 DEF Life, Starting
  <2>2. CASE t # 0
    <3>1. pc[t] = "none" /\ threads[t].state = "unused"
      BY <2>2, ControlFacts DEF Init
    <3> QED BY <2>2, <3>1 DEF Life, Starting
  <2> QED BY <2>1, <2>2
<1>5. ASSUME NEW t \in Thread PROVE StageOK(t) /\ LifeOK(t)
  BY <1>1, <1>4 DEF StageOK, LifeOK, Creating, Joining
<1>6. ASSUME NEW t \in Thread, NEW u \in Thread PROVE ClaimOK(t, u)
  BY <1>2 DEF ClaimOK
<1>7. Exclusive
  BY <1>2, <1>3 DEF Exclusive, Claimed
<1> QED BY <1>5, <1>6, <1>7 DEF Books

LEMMA StepBooks ==
  ASSUME IInv, Books, Scans, [Next]_vars
  PROVE  Books'
<1>1. ASSUME NEW t \in Thread, Operation(t)
      PROVE  Books'
  BY <1>1, ClientBooks, JoinBooks, ResultBooks, ScanBooks DEF Operation
<1>2. ASSUME NEW t \in Thread, Inside(t)
      PROVE  Books'
  BY <1>2, LockBooks, ClientBooks, ClaimBooks, NoRecordBooks, FailBooks, SpawnBooks,
     PublishBooks, ReturnedBooks, TrampolineBooks, ExitBooks, FindBooks, WaitBooks,
     ClearBooks, ResultBooks, ScanBooks DEF Inside
<1>3. ASSUME UNCHANGED vars
      PROVE  Books'
  <2>1. UNCHANGED <<threads, pc, frame, record, self, children>>
    BY <1>3 DEF vars, user, shared, client
  <2>2. \A v \in Thread : /\ Stage(v)' = Stage(v) /\ Life(v)' = Life(v)
                          /\ Waits(v)' = Waits(v) /\ Own(v)' = Own(v)
    BY <2>1 DEF Stage, Life, Waits, Own
  <2> QED BY <2>1, <2>2, BooksKept DEF IInv, Threading
<1> QED BY <1>1, <1>2, <1>3, JoinedBooks DEF Next, ended

(* The books of the records array of sdk/src/thread.c: who answers for     *)
(* which thread, what its record holds at each stage of its life, and      *)
(* where the unlocked scan of pthread_exit has got to.                     *)
THEOREM RecordsInductive == Spec => [](IInv /\ Books /\ Scans)
<1>1. Init => IInv /\ Books /\ Scans
  BY InitIInv, InitBooks, InitScans
<1>2. IInv /\ Books /\ Scans /\ [Next]_vars => IInv' /\ Books' /\ Scans'
  BY StepIInv, StepBooks, StepScans
<1> QED BY <1>1, <1>2, PTL DEF Spec

(* A record serves one thread from its creation to its join, although its  *)
(* creator, its thread and its joiner do not all take the records lock,    *)
(* and pthread_join hands out the value that thread left, or the one the   *)
(* main thread's pthread_exit put over it.                                 *)
THEOREM RecordsKept == Spec => []RecordsOwned
<1>1. ASSUME IInv, Books, NEW t \in Thread, At(t, "join_result")
      PROVE  record[frame[t].record].result \in {frame[t].other, 0}
  <2>1. StageOK(t) /\ Loaded(t)
    BY <1>1 DEF Books, IInv, Threading
  <2>2. PICK u \in Thread : u = frame[t].other
    BY <1>1, <2>1 DEF At, Loaded, Joining
  <2>3. Stage(t) = "join_result" /\ ~Waits(t)
    BY <1>1 DEF At, Stage, Waits, Locking, Unlocking, Joining
  <2>4. Life(u) = "exited" /\ frame[t].record = Own(u)
    BY <2>1, <2>2, <2>3 DEF StageOK, Joining
  <2>5. ClaimOK(t, u) /\ Claims(t, u)
    BY <1>1, <2>2 DEF Books, Claims
  <2> QED BY <2>2, <2>4, <2>5 DEF ClaimOK
<1>2. ASSUME IInv, Books, NEW t \in Live(threads) \ {0}
      PROVE  /\ record[frame[t].own].active
             /\ self[t] # NoHandle => self[t] = t /\ record[frame[t].own].handle = t
  <2>1. /\ t \in Thread /\ threads[t].state \notin {"unused", "exited"}
        /\ Typed /\ Placed(t) /\ LifeOK(t)
    BY <1>2 DEF Live, Terminated, IInv, Threading, Typed, Books
  <2>2. pc[t] # "none"
    BY <2>1 DEF Placed
  <2>3. Life(t) \in {"starting", "named", "running", "exit"}
    BY <2>2 DEF Life, Starting
  <2>4. Claimed(t)
    BY <2>1, <2>3 DEF LifeOK
  <2>5. PICK v \in Thread : Claims(v, t) /\ ClaimOK(v, t)
    BY <1>2, <2>1, <2>4 DEF Claimed, Books
  <2>6. record[Own(t)].active
    BY <2>5 DEF ClaimOK
  <2>7. ASSUME self[t] # NoHandle
        PROVE  self[t] = t /\ record[Own(t)].handle = t
    <3>1. Life(t) \in {"running", "exit"}
      BY <2>1, <2>3, <2>7 DEF LifeOK
    <3>2. self[t] = t
      BY <2>1, <3>1 DEF LifeOK
    <3>3. record[Own(t)].ready = 1
      BY <2>5, <3>1 DEF ClaimOK
    <3> QED BY <1>2, <2>1, <2>4, <3>2, <3>3, ReadyNames
  <2> QED BY <2>6, <2>7 DEF Own
<1>3. IInv /\ Books => RecordsOwned
  BY <1>1, <1>2 DEF RecordsOwned, JoinedOrMain, RecordKept
<1> QED BY RecordsInductive, <1>3, PTL
=============================================================================
