----------------------------- MODULE SdkThreads -----------------------------
(***************************************************************************)
(* The SDK's pthread library (sdk/src/thread.c, and sapote_runtime_lock    *)
(* and unlock of sdk/src/runtime.c) on the thread and futex system calls   *)
(* of the native kernel (NativeThreads), for one process.                  *)
(*                                                                         *)
(* Every atomic access to shared memory and every system call is a step of *)
(* its own, and any runnable thread may take the next one: a device        *)
(* interrupt can preempt user code anywhere.  A system call is atomic, as  *)
(* the kernel runs it to completion.                                       *)
(*                                                                         *)
(* The client is a program that uses the library correctly: it joins the   *)
(* threads it created, each once, and neither joins nor ends a thread      *)
(* inside a critical section.                                              *)
(***************************************************************************)
EXTENDS NativeThreads

CONSTANTS ThreadLimit,  \* threads of the process; thread 0 is the main thread
          Record,       \* the entries of records, also naming their ready words
          NoRecord

ASSUME ThreadAssumption == ThreadLimit \in Nat \ {0}
ASSUME RecordAssumption == Record # {} /\ IsFiniteSet(Record) /\ NoRecord \notin Record
\* The ready words and the other futex words lie at different addresses.
ASSUME AddressAssumption == Record \cap {"records", "mutex", "once"} = {}

VARIABLES
  threads,   \* the kernel's thread records
  pc,        \* where each thread is
  frame,     \* its local variables: lock and return address of a call of the
             \* lock routines, record, the other thread, the record its
             \* trampoline was given, and what is left of pthread_exit's scan
  word,      \* the lock words records_lock and mutex->value
  once,      \* pthread_once_t: state
  record,    \* records: active, handle, result, ready
  self,      \* the thread-local current_thread
  children,  \* handles pthread_create returned that have not been joined
  passed     \* history: some thread has returned from pthread_once

user == <<pc, frame>>
shared == <<word, once, record>>
client == <<self, children, passed>>
vars == <<threads, user, shared, client>>

Thread == 0..(ThreadLimit - 1)
Lock == {"records", "mutex"}
NoHandle == -1      \* SAPOTE_HANDLE_INVALID
NoValue == -1       \* a result that was never written

Cleared == [active |-> FALSE, handle |-> NoHandle, result |-> NoValue, ready |-> 0]

Empty == [lock |-> "none", ret |-> "none", record |-> NoRecord,
          other |-> NoHandle, own |-> NoRecord, left |-> {}]

Init ==
  /\ threads = [t \in Thread |-> IF t = 0 THEN Runnable ELSE Unused]
  /\ pc = [t \in Thread |-> IF t = 0 THEN "client" ELSE "none"]
  /\ frame = [t \in Thread |-> Empty]
  /\ word = [l \in Lock |-> 0]
  /\ once = 0
  /\ record = [r \in Record |-> Cleared]
  /\ self = [t \in Thread |-> NoHandle]
  /\ children = [t \in Thread |-> {}]
  /\ passed = FALSE

At(t, place) == threads[t].state = "runnable" /\ pc[t] = place
Goto(t, place) == pc' = [pc EXCEPT ![t] = place] /\ UNCHANGED frame

(* The array of records is scanned in one fixed order: r is the first of S. *)
IsFirst(r, S) == r = CHOOSE s \in S : TRUE

(* Call of sapote_runtime_lock or unlock; the caller goes on at ret. *)
Call(t, place, l, ret) ==
  /\ pc' = [pc EXCEPT ![t] = place]
  /\ frame' = [frame EXCEPT ![t].lock = l, ![t].ret = ret]

(* The last call of an operation: unlock, then back to the client. *)
Finish(t) ==
  /\ pc' = [pc EXCEPT ![t] = "unlock"]
  /\ frame' = [frame EXCEPT ![t] =
       [Empty EXCEPT !.lock = "records", !.ret = "client", !.own = frame[t].own]]

Return(t) ==
  /\ pc' = [pc EXCEPT ![t] = frame[t].ret]
  /\ frame' = [frame EXCEPT ![t].lock = "none", ![t].ret = "none"]

(***************************************************************************)
(* sapote_runtime_lock and sapote_runtime_unlock                           *)
(***************************************************************************)
lock_exchange(t) ==
  LET l == frame[t].lock
  IN /\ At(t, "lock")
     /\ word' = [word EXCEPT ![l] = 1]
     /\ IF word[l] = 0 THEN Return(t) ELSE Goto(t, "lock_wait")
     /\ UNCHANGED <<threads, once, record, client>>

(* FUTEX_WAIT with expected 1; either answer leads back to the exchange. *)
lock_wait_unchecked(t) ==
  /\ At(t, "lock_wait")
  /\ threads' = futex_wait(threads, t, frame[t].lock, NoDeadline)
  /\ Goto(t, "lock")
  /\ UNCHANGED <<shared, client>>

lock_wait(t) ==
  /\ At(t, "lock_wait")
  /\ threads' = IF word[frame[t].lock] = 1
                THEN futex_wait(threads, t, frame[t].lock, NoDeadline)
                ELSE threads
  /\ Goto(t, "lock")
  /\ UNCHANGED <<shared, client>>

unlock_store(t) ==
  /\ At(t, "unlock")
  /\ word' = [word EXCEPT ![frame[t].lock] = 0]
  /\ Goto(t, "unlock_wake")
  /\ UNCHANGED <<threads, once, record, client>>

unlock_wake(t) ==
  /\ At(t, "unlock_wake")
  /\ threads' = futex_wake(threads, frame[t].lock, 1)
  /\ Return(t)
  /\ UNCHANGED <<shared, client>>

(***************************************************************************)
(* pthread_mutex_lock, the critical section, pthread_mutex_unlock; and     *)
(* pthread_mutex_trylock.                                                  *)
(***************************************************************************)
pthread_mutex_lock(t) ==
  /\ At(t, "client")
  /\ Call(t, "lock", "mutex", "critical")
  /\ UNCHANGED <<threads, shared, client>>

pthread_mutex_trylock_torn(t) ==
  /\ At(t, "client")
  /\ Goto(t, IF word["mutex"] = 0 THEN "critical" ELSE "client")
  /\ UNCHANGED <<threads, shared, client>>

pthread_mutex_trylock(t) ==
  /\ At(t, "client") /\ word["mutex"] = 0
  /\ word' = [word EXCEPT !["mutex"] = 1]
  /\ Goto(t, "critical")
  /\ UNCHANGED <<threads, once, record, client>>

pthread_mutex_unlock(t) ==
  /\ At(t, "critical") /\ word["mutex"] # 0
  /\ Call(t, "unlock", "mutex", "client")
  /\ UNCHANGED <<threads, shared, client>>

(***************************************************************************)
(* pthread_create.  The records lock is held from the scan to the end.     *)
(***************************************************************************)
pthread_create(t) ==
  /\ At(t, "client")
  /\ Call(t, "lock", "records", "create")
  /\ UNCHANGED <<threads, shared, client>>

(* The first free record is claimed. *)
create_claim(t) ==
  /\ At(t, "create")
  /\ \E r \in Record :
       /\ ~record[r].active
       /\ IsFirst(r, {s \in Record : ~record[s].active})
       /\ record' = [record EXCEPT ![r] = [Cleared EXCEPT !.active = TRUE]]
       /\ pc' = [pc EXCEPT ![t] = "create_syscall"]
       /\ frame' = [frame EXCEPT ![t].record = r]
  /\ UNCHANGED <<threads, word, once, client>>

create_no_record(t) ==
  /\ At(t, "create")
  /\ \A r \in Record : record[r].active
  /\ Finish(t)
  /\ UNCHANGED <<threads, shared, client>>

(* prepare_tls or THREAD_CREATE refuses. *)
create_fails(t) ==
  /\ At(t, "create_syscall")
  /\ record' = [record EXCEPT ![frame[t].record].active = FALSE]
  /\ Finish(t)
  /\ UNCHANGED <<threads, word, once, client>>

create_syscall(t) ==
  /\ At(t, "create_syscall")
  /\ \E u \in Thread :
       /\ FirstUnused(threads, u)
       /\ threads' = thread_create(threads, u)
       /\ pc' = [pc EXCEPT ![t] = "create_handle", ![u] = "trampoline"]
       /\ frame' = [frame EXCEPT ![t].other = u, ![u].own = frame[t].record]
  /\ UNCHANGED <<shared, client>>

create_handle(t) ==
  /\ At(t, "create_handle")
  /\ record' = [record EXCEPT ![frame[t].record].handle = frame[t].other]
  /\ Goto(t, "create_ready")
  /\ UNCHANGED <<threads, word, once, client>>

create_ready(t) ==
  /\ At(t, "create_ready")
  /\ record' = [record EXCEPT ![frame[t].record].ready = 1]
  /\ Goto(t, "create_wake")
  /\ UNCHANGED <<threads, word, once, client>>

create_wake(t) ==
  /\ At(t, "create_wake")
  /\ threads' = futex_wake(threads, frame[t].record, 1)
  /\ children' = [children EXCEPT ![t] = @ \cup {frame[t].other}]
  /\ Finish(t)
  /\ UNCHANGED <<shared, self, passed>>

(***************************************************************************)
(* thread_trampoline: wait for the creator to publish the handle.          *)
(***************************************************************************)
trampoline_without_ready(t) ==
  /\ At(t, "trampoline")
  /\ Goto(t, "trampoline_self")
  /\ UNCHANGED <<threads, shared, client>>

trampoline(t) ==
  /\ At(t, "trampoline")
  /\ Goto(t, IF record[frame[t].own].ready = 0
             THEN "trampoline_wait" ELSE "trampoline_self")
  /\ UNCHANGED <<threads, shared, client>>

trampoline_wait(t) ==
  /\ At(t, "trampoline_wait")
  /\ threads' = IF record[frame[t].own].ready = 0
                THEN futex_wait(threads, t, frame[t].own, NoDeadline)
                ELSE threads
  /\ Goto(t, "trampoline")
  /\ UNCHANGED <<shared, client>>

trampoline_self(t) ==
  /\ At(t, "trampoline_self")
  /\ self' = [self EXCEPT ![t] = record[frame[t].own].handle]
  /\ Goto(t, "client")
  /\ UNCHANGED <<threads, shared, children, passed>>

(***************************************************************************)
(* The end of a thread: its entry returns (the trampoline stores the       *)
(* result), or it calls pthread_exit, which looks for its record by handle *)
(* without the lock.  The two reads of each record and the store are       *)
(* separate accesses, and the main thread's current_thread is the handle   *)
(* of a record that names nobody yet.  The value is the thread's number.   *)
(***************************************************************************)
entry_returns(t) ==
  /\ At(t, "client") /\ t # 0
  /\ record' = [record EXCEPT ![frame[t].own].result = t]
  /\ Goto(t, "exit")
  /\ UNCHANGED <<threads, word, once, client>>

pthread_exit(t) ==
  /\ At(t, "client")
  /\ pc' = [pc EXCEPT ![t] = "exit_active"]
  /\ frame' = [frame EXCEPT ![t].left = Record]
  /\ UNCHANGED <<threads, shared, client>>

exit_active(t) ==
  /\ At(t, "exit_active")
  /\ \E r \in frame[t].left :
       /\ IsFirst(r, frame[t].left)
       /\ frame' = [frame EXCEPT ![t].left = @ \ {r}, ![t].record = r]
       /\ pc' = [pc EXCEPT ![t] = IF record[r].active THEN "exit_handle"
                                                     ELSE "exit_active"]
  /\ UNCHANGED <<threads, shared, client>>

exit_no_record(t) ==
  /\ At(t, "exit_active") /\ frame[t].left = {}
  /\ Goto(t, "exit")
  /\ UNCHANGED <<threads, shared, client>>

exit_handle(t) ==
  /\ At(t, "exit_handle")
  /\ Goto(t, IF record[frame[t].record].handle = self[t] THEN "exit_store"
                                                        ELSE "exit_active")
  /\ UNCHANGED <<threads, shared, client>>

exit_store(t) ==
  /\ At(t, "exit_store")
  /\ record' = [record EXCEPT ![frame[t].record].result = t]
  /\ Goto(t, "exit")
  /\ UNCHANGED <<threads, word, once, client>>

exit_syscall(t) ==
  /\ At(t, "exit")
  /\ threads' = thread_exit(threads, t)
  /\ Goto(t, "none")
  /\ UNCHANGED <<shared, client>>

(***************************************************************************)
(* pthread_join.  The record is found under the lock, which is released    *)
(* for the wait and taken again to clear the record.                       *)
(***************************************************************************)
pthread_join(t) ==
  /\ At(t, "client")
  /\ \E u \in children[t] :
       /\ children' = [children EXCEPT ![t] = @ \ {u}]
       /\ pc' = [pc EXCEPT ![t] = "lock"]
       /\ frame' = [frame EXCEPT ![t].lock = "records", ![t].ret = "join_find",
                                 ![t].other = u]
  /\ UNCHANGED <<threads, shared, self, passed>>

join_find(t) ==
  /\ At(t, "join_find")
  /\ \E r \in Record :
       /\ record[r].active /\ record[r].handle = frame[t].other
       /\ frame' = [frame EXCEPT ![t].lock = "records", ![t].ret = "join_syscall",
                                 ![t].record = r]
  /\ pc' = [pc EXCEPT ![t] = "unlock"]
  /\ UNCHANGED <<threads, shared, client>>

join_syscall(t) ==
  /\ At(t, "join_syscall")
  /\ threads' = thread_join(threads, t, frame[t].other)
  /\ Goto(t, "join_result")
  /\ UNCHANGED <<shared, client>>

(* *result = record->result; the handle is closed, the TLS block released. *)
join_result(t) ==
  /\ At(t, "join_result")
  /\ Call(t, "lock", "records", "join_clear")
  /\ UNCHANGED <<threads, shared, client>>

join_clear(t) ==
  /\ At(t, "join_clear")
  /\ record' = [record EXCEPT ![frame[t].record] = Cleared]
  /\ Finish(t)
  /\ UNCHANGED <<threads, word, once, client>>

(* update_waiting_threads, in the kernel: a join ends. *)
update_waiting_threads ==
  /\ \E t \in Thread : /\ joined(threads, t)
                       /\ threads' = [threads EXCEPT ![t] = Runnable]
  /\ UNCHANGED <<user, shared, client>>

(***************************************************************************)
(* pthread_once                                                            *)
(***************************************************************************)
pthread_once(t) ==
  /\ At(t, "client")
  /\ once' = IF once = 0 THEN 1 ELSE once
  /\ Goto(t, IF once = 0 THEN "once_run" ELSE "once_check")
  /\ UNCHANGED <<threads, word, record, client>>

once_run(t) ==
  /\ At(t, "once_run")
  /\ once' = 2
  /\ Goto(t, "once_wake")
  /\ UNCHANGED <<threads, word, record, client>>

once_wake(t) ==
  /\ At(t, "once_wake")
  /\ threads' = futex_wake(threads, "once", ThreadLimit)
  /\ passed' = TRUE
  /\ Goto(t, "client")
  /\ UNCHANGED <<shared, self, children>>

once_check_accepts_running(t) ==
  /\ At(t, "once_check")
  /\ Goto(t, IF once # 0 THEN "client" ELSE "once_wait")
  /\ passed' = (passed \/ once # 0)
  /\ UNCHANGED <<threads, shared, self, children>>

once_check_rejects_done(t) ==
  /\ At(t, "once_check")
  /\ Goto(t, IF once = 0 THEN "client" ELSE "once_wait")
  /\ passed' = (passed \/ once = 0)
  /\ UNCHANGED <<threads, shared, self, children>>

once_check(t) ==
  /\ At(t, "once_check")
  /\ Goto(t, IF once = 2 THEN "client" ELSE "once_wait")
  /\ passed' = (passed \/ once = 2)
  /\ UNCHANGED <<threads, shared, self, children>>

once_wait(t) ==
  /\ At(t, "once_wait")
  /\ threads' = IF once = 1 THEN futex_wait(threads, t, "once", NoDeadline)
                            ELSE threads
  /\ Goto(t, "once_check")
  /\ UNCHANGED <<shared, client>>

(* Every thread has ended: the kernel tears the process down. *)
ended == Live(threads) = {} /\ UNCHANGED vars

Operation(t) ==
  \/ pthread_mutex_lock(t) \/ pthread_mutex_trylock(t)
  \/ pthread_create(t) \/ pthread_join(t) \/ pthread_once(t)
  \/ entry_returns(t) \/ pthread_exit(t)

Inside(t) ==
  \/ lock_exchange(t) \/ lock_wait(t) \/ unlock_store(t) \/ unlock_wake(t)
  \/ pthread_mutex_unlock(t)
  \/ create_claim(t) \/ create_no_record(t) \/ create_fails(t)
  \/ create_syscall(t) \/ create_handle(t) \/ create_ready(t) \/ create_wake(t)
  \/ trampoline(t) \/ trampoline_wait(t) \/ trampoline_self(t)
  \/ exit_active(t) \/ exit_no_record(t) \/ exit_handle(t) \/ exit_store(t)
  \/ exit_syscall(t)
  \/ join_find(t) \/ join_syscall(t) \/ join_result(t) \/ join_clear(t)
  \/ once_run(t) \/ once_wake(t) \/ once_check(t) \/ once_wait(t)

Next ==
  \/ \E t \in Thread : Operation(t) \/ Inside(t)
  \/ update_waiting_threads
  \/ ended

(***************************************************************************)
(* Fairness: a thread that is runnable inside the library keeps being      *)
(* scheduled (ThreadRuns of NativeScheduler), and critical sections end.   *)
(* The client may do nothing.                                              *)
(***************************************************************************)
Fairness == \A t \in Thread : WF_vars(Inside(t))

Spec == Init /\ [][Next]_vars
FairSpec == Spec /\ Fairness

-----------------------------------------------------------------------------
(* Every variable stays in its range. *)
TypeOK ==
  /\ \A t \in Thread : threads[t].state \in State /\ threads[t].left = NoDeadline
  /\ word \in [Lock -> 0..1] /\ once \in 0..2
  /\ record \in [Record -> [active : BOOLEAN, handle : Thread \cup {NoHandle},
                            result : Thread \cup {NoValue}, ready : 0..1]]
  /\ self \in [Thread -> Thread \cup {NoHandle}]
  /\ children \in [Thread -> SUBSET Thread] /\ passed \in BOOLEAN

(* sapote_runtime_lock: at most one thread is between the exchange that    *)
(* took a lock and the store that frees it, and the word says so.          *)
Holding(t, l) ==
  \/ pc[t] = "critical" /\ l = "mutex"
  \/ pc[t] = "unlock" /\ frame[t].lock = l
  \/ /\ l = "records"
     /\ pc[t] \in {"create", "create_syscall", "create_handle", "create_ready",
                   "create_wake", "join_find", "join_clear"}

MutualExclusion ==
  /\ TypeOK
  /\ \A l \in Lock :
       /\ \A t, u \in Thread : Holding(t, l) /\ Holding(u, l) => t = u
       /\ word[l] = 0 => \A t \in Thread : ~Holding(t, l)

(* sapote_runtime_unlock: a thread is parked on a lock only while somebody *)
(* is still going to wake it: a holder, a thread between the store and the *)
(* wake, or a thread that is awake and about to try the exchange.          *)
NoLostWakeup ==
  \A l \in Lock :
    FutexWaiters(threads, l) # {} =>
      \E t \in Thread \ FutexWaiters(threads, l) :
        \/ Holding(t, l)
        \/ frame[t].lock = l /\ pc[t] \in {"unlock_wake", "lock", "lock_wait"}

(* pthread_join: the value read from the record is the one the joined      *)
(* thread left there, or the one the main thread passed to pthread_exit,   *)
(* which may find a record just cleared and marked active for another      *)
(* thread under its own handle 0, and store there later; it is never that  *)
(* of a third thread, of an earlier user of the record, or none.           *)
JoinedOrMain ==
  \A t \in Thread :
    At(t, "join_result") => record[frame[t].record].result \in {frame[t].other, 0}

(* records: a thread's record stays its own until the thread has ended.    *)
RecordKept ==
  \A t \in Live(threads) \ {0} :
    /\ record[frame[t].own].active
    /\ self[t] # NoHandle => self[t] = t /\ record[frame[t].own].handle = t

(* The records array is shared by creators, joiners and ending threads that *)
(* do not all take its lock: a record serves one thread from its creation   *)
(* to its join, and no ending thread but the main one, whose handle is that *)
(* of a record just cleared, can leave its value in another's record.       *)
RecordsOwned == JoinedOrMain /\ RecordKept

(* pthread_once: the function runs once, and nobody returns before it has. *)
OnceBarrier ==
  /\ Cardinality({t \in Thread : pc[t] = "once_run"}) <= 1
  /\ passed => once = 2

(* pthread_once returns in every thread that called it. *)
OnceReturns ==
  \A t \in Thread : pc[t] \in {"once_check", "once_wait"} ~> pc[t] = "client"
=============================================================================
