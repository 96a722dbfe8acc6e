---------------------------- MODULE NativeThreads ----------------------------
(***************************************************************************)
(* The thread records of one native process (struct native_thread in       *)
(* src/kernel/native_process.c) and what the thread system calls do to     *)
(* them, as functions from one array of records to the next.  The          *)
(* scheduler (NativeScheduler) and the SDK's pthread library (SdkThreads)  *)
(* are both built on these operators.                                      *)
(*                                                                         *)
(* A slot is never reused while its process lives, because thread_count    *)
(* only grows, so a thread's generation and its index identify the same    *)
(* thread and wait_generation is modelled as the index waited for.  The    *)
(* saved registers, the FPU image and the FS base are left out.            *)
(***************************************************************************)
EXTENDS Integers, Sequences, FiniteSets

NoDeadline == -1   \* deadline_ns = 0: the wait has no time limit

Terminated == {"exited", "faulted"}
Parked == {"sleep", "join", "futex", "console", "handle"}
State == {"unused", "runnable"} \cup Parked \cup Terminated

(* state; what a parked thread waits on (a thread, an address or a list of *)
(* handles, always as a sequence); ticks left to deadline_ns, 0 once it is *)
(* reached.                                                                *)
Unused == [state |-> "unused", on |-> <<>>, left |-> NoDeadline]
Runnable == [Unused EXCEPT !.state = "runnable"]
Exited == [Unused EXCEPT !.state = "exited"]
ParkedOn(how, what, n) == [state |-> how, on |-> what, left |-> n]

(* process_has_live_thread, process_has_runnable_thread *)
Live(th) == {t \in DOMAIN th : th[t].state \notin Terminated \cup {"unused"}}
Ready(th) == {t \in DOMAIN th : th[t].state = "runnable"}

(* The final stores of syscall_thread_create: the first unused record.     *)
thread_create(th, t) == [th EXCEPT ![t] = Runnable]
FirstUnused(th, t) ==
  /\ th[t].state = "unused"
  /\ \A u \in DOMAIN th : u < t => th[u].state # "unused"

(* SAPOTE_SYS_THREAD_EXIT *)
thread_exit(th, t) == [th EXCEPT ![t] = Exited]

(* syscall_thread_join by t of another thread u: a terminated target       *)
(* answers at once, otherwise the caller parks.                            *)
thread_join(th, t, u) ==
  IF th[u].state \in Terminated THEN th
  ELSE [th EXCEPT ![t] = ParkedOn("join", <<u>>, NoDeadline)]

(* syscall_futex_wait, once the word has been compared. *)
futex_wait(th, t, address, n) ==
  [th EXCEPT ![t] = ParkedOn("futex", <<address>>, n)]

(* syscall_futex_wake: the lowest-numbered count waiters on the address.   *)
FutexWaiters(th, address) ==
  {t \in DOMAIN th : th[t].state = "futex" /\ th[t].on = <<address>>}

Woken(th, address, n) ==
  {t \in FutexWaiters(th, address) :
     Cardinality({u \in FutexWaiters(th, address) : u < t}) < n}

futex_wake(th, address, n) ==
  [t \in DOMAIN th |-> IF t \in Woken(th, address, n) THEN Runnable ELSE th[t]]

(* terminate_process: every thread becomes EXITED unless it has FAULTED.   *)
(* Records past thread_count are not touched.                              *)
terminate(th) ==
  [t \in DOMAIN th |->
     IF th[t].state \in {"unused", "faulted"} THEN th[t] ELSE Exited]

(* update_waiting_threads: the waits it ends without asking a device.      *)
joined(th, t) == th[t].state = "join" /\ th[Head(th[t].on)].state \in Terminated
expired(th, t) == th[t].state \in {"sleep", "futex"} /\ th[t].left = 0
=============================================================================
