--------------------------- MODULE NativeScheduler ---------------------------
(***************************************************************************)
(* native_process_run of src/kernel/native_process.c: the loop that        *)
(* services devices, ends waits whose condition holds, picks one runnable  *)
(* thread of one process, runs it in user mode until it makes a system     *)
(* call, is interrupted or faults, and then reaps the newest process while *)
(* it is exiting.  Around it, native_process_spawn and the blocking system *)
(* calls.                                                                  *)
(*                                                                         *)
(* A round of the loop is two steps: service_native_devices, which runs    *)
(* with interrupts enabled, and the rest, which runs with them disabled up *)
(* to the entry into user mode or the halt.  The clock is read before the  *)
(* devices are serviced; the model reads it after, which ends a wait in    *)
(* the round in which its deadline passes.  What user code does is         *)
(* arbitrary.  Whether a futex word still has its expected value is left   *)
(* to the caller: a mismatch returns without a state change.  Processes    *)
(* are console processes without a window.                                 *)
(*                                                                         *)
(* The wait for the nearest deadline calls timer_sleep_ns with interrupts  *)
(* enabled; arming is refused in that state (apic_timer_arm_oneshot), so   *)
(* that wait returns at once and the loop goes round again.                *)
(*                                                                         *)
(* cleanup_ok, which only selects the status native_process_run returns,   *)
(* is left out.                                                            *)
(***************************************************************************)
EXTENDS NativeThreads, SequencesExt

CONSTANTS ProcessLimit,  \* NATIVE_PROCESS_LIMIT
          ThreadLimit,   \* NATIVE_THREAD_LIMIT
          Installed,     \* the lists of manifests whose programs are spawned in turn
          MaxInput,      \* NATIVE_CONSOLE_INPUT_CAPACITY
          MaxKeys,       \* bound: events in the keyboard's queue
          Address,       \* futex words of a process
          Item,          \* handles a thread may wait on
          Socket,        \* the ones that are streams or datagrams
          WaitLists,     \* the handle lists given to SAPOTE_SYS_WAIT
          Ticks          \* bound: longest deadline, in ticks

ASSUME LimitAssumption == ProcessLimit \in Nat \ {0} /\ ThreadLimit \in Nat \ {0}
ASSUME BoundAssumption ==
  /\ Ticks \in Nat
  /\ MaxInput \in Nat /\ MaxKeys \in Nat
ASSUME ItemAssumption == Socket \subseteq Item /\ WaitLists \subseteq Seq(Item)

(* What a manifest grants: max_threads, SAPOTE_CAP_CONSOLE, and the handles *)
(* its capabilities let the program open.                                   *)
Manifest == [threads : 1..ThreadLimit, console : BOOLEAN, items : SUBSET Item]

ASSUME ManifestAssumption == Installed \subseteq Seq(Manifest)

VARIABLES
  manifests,   \* the list of manifests being run; never changes
  process,     \* active, exiting, faulted, generation, current_thread per slot
  threads,     \* the thread records of each process
  keys,        \* key presses queued by the keyboard driver
  input,       \* console_input_count of each process
  open,        \* the handles of each process that still resolve
  ready,       \* the handles of each process that have something to report
  generation,  \* next_process_generation
  current,     \* current_process
  cursor,      \* scheduler_process_cursor
  pc,          \* where native_process_run is
  result       \* selected_result.generation, 0 for none

books == <<manifests, generation, result>>
devices == <<keys, input, open, ready>>
vars == <<process, threads, devices, current, cursor, pc, books>>

Slot == 0..(ProcessLimit - 1)
Thread == 0..(ThreadLimit - 1)

NoProcess == [active |-> FALSE, exiting |-> FALSE, faulted |-> FALSE,
              generation |-> 0, current_thread |-> 0]
MaxGeneration == Len(manifests)
ManifestOf(p) == manifests[process[p].generation]
NoThreads == [t \in Thread |-> Unused]

Active == {p \in Slot : process[p].active}
Running == {p \in Active : ~process[p].exiting}

(* thread_count *)
Count(th) == Cardinality({t \in Thread : th[t].state # "unused"})

Init ==
  /\ manifests \in Installed
  /\ process = [p \in Slot |-> NoProcess]
  /\ threads = [p \in Slot |-> NoThreads]
  /\ keys = 0
  /\ input = [p \in Slot |-> 0]
  /\ open = [p \in Slot |-> {}]
  /\ ready = [p \in Slot |-> {}]
  /\ generation = 1
  /\ current = 0 /\ cursor = 0
  /\ pc = "stopped"
  /\ result = 0

(***************************************************************************)
(* native_process_spawn with a load_process that succeeds; a failing load  *)
(* only consumes a generation.                                             *)
(***************************************************************************)
native_process_spawn ==
  /\ pc = "stopped"
  /\ generation <= MaxGeneration
  /\ generation' = generation + 1
  /\ \E p \in Slot :
       /\ process[p].generation = 0
       /\ \A q \in Slot : q < p => process[q].generation # 0
       /\ process' = [process EXCEPT ![p] =
            [NoProcess EXCEPT !.active = TRUE, !.generation = generation]]
       /\ threads' = [threads EXCEPT ![p] = thread_create(NoThreads, 0)]
       /\ open' = [open EXCEPT ![p] = manifests[generation].items]
  /\ UNCHANGED <<manifests, keys, input, ready, current, cursor, pc, result>>

native_process_run ==
  /\ pc = "stopped" /\ Active # {}
  /\ pc' = "loop"
  /\ result' = 0
  /\ UNCHANGED <<manifests, process, threads, devices, generation, current, cursor>>

(***************************************************************************)
(* service_native_devices: the keyboard's queue is emptied into the byte   *)
(* stream of the newest running process (console_input_target), which      *)
(* drops what does not fit, or into the UI when there is none.  Interrupts *)
(* stay enabled for the rest of the call, so a key may be queued again.    *)
(***************************************************************************)
Consoles == {p \in Running : ManifestOf(p).console}

console_input_target(p) ==
  /\ p \in Consoles
  /\ \A q \in Consoles : process[q].generation <= process[p].generation

Pushed(p) == IF input[p] + keys > MaxInput THEN MaxInput ELSE input[p] + keys

service_native_devices ==
  /\ pc = "loop"
  /\ keys' = 0
  /\ input' = [p \in Slot |-> IF console_input_target(p) THEN Pushed(p) ELSE input[p]]
  /\ pc' = "serviced"
  /\ UNCHANGED <<process, threads, open, ready, current, cursor, books>>

(***************************************************************************)
(* poll_wait_items: the first unresolvable handle ends the call with an    *)
(* error; files, timers and event queues report for themselves; sockets    *)
(* are collected into one network_poll.  network_poll writes result i for  *)
(* request i and counts the ready ones; only the first so many results are *)
(* then looked at.                                                         *)
(***************************************************************************)
poll_error(p, items) == Range(items) \ open[p] # {}

Sockets(items) == SelectSeq(items, LAMBDA i : i \in Socket)

NetworkResults(p, items) ==
  LET polled == Sockets(items)
      result_count == Cardinality({k \in DOMAIN polled : polled[k] \in ready[p]})
  IN {polled[k] : k \in {j \in DOMAIN polled :
                           j <= result_count /\ polled[j] \in ready[p]}}

poll_wait_items_without_network(p, items) ==
  ((Range(items) \ Socket) \cap ready[p])

poll_wait_items(p, items) ==
  ((Range(items) \ Socket) \cap ready[p]) \cup NetworkResults(p, items)

WaitEnds(p, thread) ==
  \/ poll_error(p, thread.on)
  \/ poll_wait_items(p, thread.on) # {}
  \/ thread.left = 0

(* Console waiters are served in thread order, a byte each. *)
ConsoleServed(p) ==
  {t \in Thread :
     /\ threads[p][t].state = "console"
     /\ Cardinality({u \in Thread : u < t /\ threads[p][u].state = "console"})
          < input[p]}

(* update_waiting_threads: the waits that end in this round. *)
Ending(p) ==
  {t \in Thread :
     \/ expired(threads[p], t)
     \/ joined(threads[p], t)
     \/ threads[p][t].state = "handle" /\ WaitEnds(p, threads[p][t])}
  \cup ConsoleServed(p)

Updated(p) ==
  [t \in Thread |-> IF t \in Ending(p) THEN Runnable ELSE threads[p][t]]

(* The end of update_waiting_threads: a process without a live thread ends. *)
Ends(p) == p \in Running /\ Live(Updated(p)) = {}

(***************************************************************************)
(* select_runnable_thread: round robin over processes from the cursor, and *)
(* within the process over threads from the one after current_thread.      *)
(***************************************************************************)
Distance(from, to, n) == (to - from + n) % n

Candidates == {p \in Running : ~Ends(p) /\ Ready(Updated(p)) # {}}

NextProcess(p) ==
  /\ p \in Candidates
  /\ \A q \in Candidates : Distance(cursor, p, ProcessLimit)
                             <= Distance(cursor, q, ProcessLimit)

NextThread_lowest(p, t) ==
  t \in Ready(Updated(p)) /\ \A u \in Ready(Updated(p)) : t <= u

NextThread(p, t) ==
  LET after == process[p].current_thread + 1
      n == Count(threads[p])
  IN /\ t \in Ready(Updated(p))
     /\ \A u \in Ready(Updated(p)) : Distance(after, t, n) <= Distance(after, u, n)

(* The bytes that update_waiting_threads hands to console waiters. *)
Delivered ==
  /\ input' = [p \in Slot |->
       IF p \in Running THEN input[p] - Cardinality(ConsoleServed(p)) ELSE input[p]]
  /\ UNCHANGED <<keys, open, ready>>

ThreadsAfterUpdate ==
  [p \in Slot |-> IF p \notin Running THEN threads[p]
                  ELSE IF Ends(p) THEN terminate(Updated(p)) ELSE Updated(p)]

ProcessesAfterUpdate ==
  [p \in Slot |-> IF Ends(p) THEN [process[p] EXCEPT !.exiting = TRUE]
                             ELSE process[p]]

(* A thread is selected and entered. *)
enter_user ==
  /\ pc = "serviced"
  /\ Delivered
  /\ threads' = ThreadsAfterUpdate
  /\ \E p \in Slot, t \in Thread :
       /\ NextProcess(p)
       /\ NextThread(p, t)
       /\ current' = p
       /\ cursor' = (p + 1) % ProcessLimit
       /\ process' = [ProcessesAfterUpdate EXCEPT ![p].current_thread = t]
  /\ pc' = "user"
  /\ UNCHANGED books

(* A thread is selected, but its gate, address space or FPU image refuses. *)
enter_user_fails ==
  /\ pc = "serviced"
  /\ Delivered
  /\ \E p \in Slot, t \in Thread :
       /\ NextProcess(p)
       /\ NextThread(p, t)
       /\ current' = p
       /\ cursor' = (p + 1) % ProcessLimit
       /\ process' = [ProcessesAfterUpdate EXCEPT ![p].current_thread = t,
                                                  ![p].exiting = TRUE]
       /\ threads' = [ThreadsAfterUpdate EXCEPT ![p] = terminate(@)]
  /\ pc' = "reap"
  /\ UNCHANGED books

(***************************************************************************)
(* Nothing is runnable.  With a deadline anywhere the loop goes round; an  *)
(* unbounded device wait halts the core; otherwise nothing can ever happen *)
(* and every running process is terminated.                                *)
(***************************************************************************)
StillRunning == {p \in Running : ~Ends(p)}
Waiting(how) == \E p \in StillRunning, t \in Thread : Updated(p)[t].state = how
nearest_deadline_of_sleepers ==
  \E p \in StillRunning, t \in Thread :
    Updated(p)[t].state = "sleep" /\ Updated(p)[t].left # NoDeadline

nearest_deadline ==
  \E p \in StillRunning, t \in Thread : Updated(p)[t].left # NoDeadline

idle ==
  /\ pc = "serviced" /\ Candidates = {}
  /\ Delivered
  /\ threads' = ThreadsAfterUpdate
  /\ process' = ProcessesAfterUpdate
  /\ nearest_deadline \/ Waiting("handle") \/ Waiting("console")
  /\ pc' = IF nearest_deadline THEN "reap" ELSE "halted"
  /\ UNCHANGED <<current, cursor, books>>

stall ==
  /\ pc = "serviced" /\ Candidates = {}
  /\ ~nearest_deadline /\ ~Waiting("handle") /\ ~Waiting("console")
  /\ Delivered
  /\ process' = [p \in Slot |->
       IF p \in StillRunning
       THEN [process[p] EXCEPT !.exiting = TRUE, !.faulted = TRUE]
       ELSE ProcessesAfterUpdate[p]]
  /\ threads' = [p \in Slot |->
       IF p \in StillRunning THEN terminate(Updated(p)) ELSE ThreadsAfterUpdate[p]]
  /\ pc' = "reap"
  /\ UNCHANGED <<current, cursor, books>>

(* Any device interrupt ends the halt. *)
halt_ends ==
  /\ pc = "halted"
  /\ pc' = "reap"
  /\ UNCHANGED <<process, threads, devices, current, cursor, books>>

(***************************************************************************)
(* The system calls that park, wake or end threads, by the thread running  *)
(* in user mode.  Every system call returns to the scheduler loop.         *)
(***************************************************************************)
Me == process[current].current_thread
Mine == threads[current]

Syscall(th) ==
  /\ pc = "user"
  /\ threads' = [threads EXCEPT ![current] = th]
  /\ pc' = "reap"
  /\ UNCHANGED <<process, devices, current, cursor, books>>

syscall_thread_create ==
  /\ pc = "user"
  /\ \E t \in Thread : /\ FirstUnused(Mine, t) /\ t < ManifestOf(current).threads
                       /\ Syscall(thread_create(Mine, t))

(* The handle table is full and the new stack cannot be released again.    *)
syscall_thread_create_unwind_fails ==
  /\ pc = "user"
  /\ Count(Mine) < ManifestOf(current).threads
  /\ process' = [process EXCEPT ![current].exiting = TRUE,
                                ![current].faulted = TRUE]
  /\ pc' = "reap"
  /\ UNCHANGED <<threads, devices, current, cursor, books>>

syscall_thread_exit == Syscall(thread_exit(Mine, Me))

syscall_thread_join ==
  \E u \in Thread : /\ u # Me /\ Mine[u].state # "unused"
                    /\ Syscall(thread_join(Mine, Me, u))

syscall_futex_wait ==
  \E a \in Address, n \in {NoDeadline} \cup 0..Ticks :
    Syscall(futex_wait(Mine, Me, a, n))

syscall_futex_wake ==
  \E a \in Address, n \in 1..ThreadLimit : Syscall(futex_wake(Mine, a, n))

syscall_sleep_until ==
  \E n \in 1..Ticks : Syscall([Mine EXCEPT ![Me] = ParkedOn("sleep", <<>>, n)])

(* Parks only when no handle is ready and the deadline lies ahead.         *)
syscall_wait ==
  \E items \in WaitLists, n \in 1..Ticks :
    /\ ~poll_error(current, items)
    /\ poll_wait_items(current, items) = {}
    /\ Syscall([Mine EXCEPT ![Me] = ParkedOn("handle", items, n)])

(* Buffered input is taken at once, otherwise the caller parks. *)
syscall_console_read ==
  \/ /\ pc = "user" /\ ManifestOf(current).console /\ input[current] = 0
     /\ Syscall([Mine EXCEPT ![Me] = ParkedOn("console", <<>>, NoDeadline)])
  \/ /\ pc = "user" /\ input[current] > 0
     /\ input' = [input EXCEPT ![current] = @ - 1]
     /\ pc' = "reap"
     /\ UNCHANGED <<process, threads, keys, open, ready, current, cursor, books>>

(* Reading a socket or an event queue, or setting or cancelling a timer.   *)
syscall_consume ==
  /\ pc = "user"
  /\ \E i \in open[current] \cap ready[current] :
       ready' = [ready EXCEPT ![current] = @ \ {i}]
  /\ pc' = "reap"
  /\ UNCHANGED <<process, threads, keys, input, open, current, cursor, books>>

syscall_handle_close ==
  /\ pc = "user"
  /\ \E i \in open[current] :
       /\ open' = [open EXCEPT ![current] = @ \ {i}]
       /\ ready' = [ready EXCEPT ![current] = @ \ {i}]
  /\ pc' = "reap"
  /\ UNCHANGED <<process, threads, keys, input, current, cursor, books>>

(* SAPOTE_SYS_EXIT *)
syscall_exit ==
  /\ pc = "user"
  /\ threads' = [threads EXCEPT ![current] = terminate(Mine)]
  /\ process' = [process EXCEPT ![current].exiting = TRUE]
  /\ pc' = "reap"
  /\ UNCHANGED <<devices, current, cursor, books>>

(* native_process_on_interrupt: a device interrupt preempts, an exception  *)
(* (or a boundary that cannot be saved) ends the process.                  *)
on_interrupt ==
  /\ pc = "user"
  /\ pc' = "reap"
  /\ UNCHANGED <<process, threads, devices, current, cursor, books>>

on_exception ==
  /\ pc = "user"
  /\ threads' = [threads EXCEPT ![current] =
       terminate([Mine EXCEPT ![Me] = [Unused EXCEPT !.state = "faulted"]])]
  /\ process' = [process EXCEPT ![current].exiting = TRUE,
                                ![current].faulted = TRUE]
  /\ pc' = "reap"
  /\ UNCHANGED <<devices, current, cursor, books>>

(***************************************************************************)
(* The reap loop: the newest active process, while it is exiting.  Cleanup *)
(* zeroes the record whether or not every step of it succeeded; a failure  *)
(* leaves the reap loop.                                                   *)
(***************************************************************************)
newest(p) == /\ p \in Active
             /\ \A q \in Active : process[q].generation <= process[p].generation

Reapable(p) == newest(p) /\ process[p].exiting

Return(active) == IF active = {} THEN "stopped" ELSE "loop"

reap_keeps_last ==
  /\ pc = "reap"
  /\ \E p \in Slot :
       /\ Reapable(p)
       /\ result' = process[p].generation
       /\ process' = [process EXCEPT ![p] = NoProcess]
       /\ threads' = [threads EXCEPT ![p] = NoThreads]
       /\ input' = [input EXCEPT ![p] = 0]
       /\ open' = [open EXCEPT ![p] = {}]
       /\ ready' = [ready EXCEPT ![p] = {}]
  /\ UNCHANGED <<manifests, keys, generation, current, cursor, pc>>

reap ==
  /\ pc = "reap"
  /\ \E p \in Slot, success \in BOOLEAN :
       /\ Reapable(p)
       /\ result' = IF process[p].generation > result
                    THEN process[p].generation ELSE result
       /\ process' = [process EXCEPT ![p] = NoProcess]
       /\ threads' = [threads EXCEPT ![p] = NoThreads]
       /\ input' = [input EXCEPT ![p] = 0]
       /\ open' = [open EXCEPT ![p] = {}]
       /\ ready' = [ready EXCEPT ![p] = {}]
       /\ pc' = IF success THEN "reap" ELSE Return(Active \ {p})
  /\ UNCHANGED <<manifests, keys, generation, current, cursor>>

reap_done ==
  /\ pc = "reap"
  /\ ~\E p \in Slot : Reapable(p)
  /\ pc' = Return(Active)
  /\ UNCHANGED <<process, threads, devices, current, cursor, books>>

(***************************************************************************)
(* The environment: a key, a handle that has something to report, time.    *)
(* An interrupt ends a halt and preempts user code.                        *)
(***************************************************************************)
Interrupted == IF pc \in {"halted", "user"} THEN "reap" ELSE pc

keyboard_interrupt ==
  /\ keys < MaxKeys
  /\ keys' = keys + 1
  /\ pc' = Interrupted
  /\ UNCHANGED <<process, threads, input, open, ready, current, cursor, books>>

device_interrupt ==
  /\ \E p \in Running : \E i \in open[p] \ ready[p] :
       ready' = [ready EXCEPT ![p] = @ \cup {i}]
  /\ pc' = Interrupted
  /\ UNCHANGED <<process, threads, keys, input, open, current, cursor, books>>

tick ==
  /\ threads' = [p \in Slot |-> [t \in Thread |->
       [threads[p][t] EXCEPT !.left = IF @ > 0 THEN @ - 1 ELSE @]]]
  /\ threads' # threads
  /\ UNCHANGED <<process, devices, current, cursor, pc, books>>

Round == enter_user \/ idle \/ stall

Leave ==
  \/ syscall_thread_create \/ syscall_thread_create_unwind_fails
  \/ syscall_thread_exit \/ syscall_thread_join
  \/ syscall_futex_wait \/ syscall_futex_wake
  \/ syscall_sleep_until \/ syscall_wait \/ syscall_console_read
  \/ syscall_consume \/ syscall_handle_close
  \/ syscall_exit \/ on_interrupt \/ on_exception

Next ==
  \/ native_process_spawn \/ native_process_run
  \/ service_native_devices
  \/ Round \/ enter_user_fails \/ halt_ends
  \/ Leave
  \/ reap \/ reap_done
  \/ keyboard_interrupt \/ device_interrupt \/ tick

(***************************************************************************)
(* Fairness: the loop keeps going, user code that makes no system call is  *)
(* interrupted in the end, and time passes.  Nothing is assumed about      *)
(* devices, about which system calls are made, or about an interrupt that  *)
(* ends a halt.                                                            *)
(***************************************************************************)
Loop == service_native_devices \/ Round \/ on_interrupt \/ reap \/ reap_done

Fairness == WF_vars(Loop) /\ WF_vars(tick)

Spec == Init /\ [][Next]_vars
FairSpec == Spec /\ Fairness

-----------------------------------------------------------------------------
(* Every field stays in its range. *)
TypeOK ==
  /\ process \in [Slot -> [active : BOOLEAN, exiting : BOOLEAN,
                           faulted : BOOLEAN, generation : 0..MaxGeneration,
                           current_thread : Thread]]
  /\ \A p \in Slot, t \in Thread :
       /\ threads[p][t].state \in State
       /\ threads[p][t].left \in NoDeadline..Ticks
       /\ Range(threads[p][t].on) \subseteq Thread \cup Address \cup Item
  /\ keys \in 0..MaxKeys /\ input \in [Slot -> 0..MaxInput]
  /\ open \in [Slot -> SUBSET Item] /\ ready \in [Slot -> SUBSET Item]
  /\ generation \in 1..(MaxGeneration + 1)
  /\ current \in Slot /\ cursor \in Slot
  /\ pc \in {"stopped", "loop", "serviced", "user", "halted", "reap"}
  /\ result \in 0..MaxGeneration

(* native_process_run: "an idle system cannot halt forever".  While the    *)
(* core is halted no running process has a runnable thread, a wait whose   *)
(* condition already holds, or a deadline that only the clock could end.   *)
HaltIsSafe ==
  /\ TypeOK
  /\ pc = "halted" =>
    \A p \in Running : /\ Ready(threads[p]) = {}
                       /\ Ending(p) = {}
                       /\ \A t \in Thread : threads[p][t].left = NoDeadline

(* A thread that only a thread could wake, and none will: it waits for a   *)
(* futex wake without a deadline or for a thread that is itself alive.     *)
Stuck(p, t) ==
  \/ threads[p][t].state = "futex" /\ threads[p][t].left = NoDeadline
  \/ threads[p][t].state = "join" /\ Head(threads[p][t].on) \in Live(threads[p])

(* The waits of which some handle has something to report; and those of    *)
(* them where a handle that is no socket has, or the first socket.         *)
ReadyWait(p, t) == /\ threads[p][t].state = "handle"
                   /\ Range(threads[p][t].on) \cap ready[p] # {}
FirstHeard(p, t) ==
  LET polled == Sockets(threads[p][t].on)
  IN \/ (Range(threads[p][t].on) \ Socket) \cap ready[p] # {}
     \/ polled # <<>> /\ Head(polled) \in ready[p]

(* A round of native_process_run gives up (report_scheduler_stall) only    *)
(* when every thread of every running process is stuck, and it ends every  *)
(* wait (SAPOTE_SYS_WAIT) for which a file, timer or event queue has       *)
(* something to report, or the first of its sockets.  A wait that only a   *)
(* later socket could end may stay parked: poll_wait_items reads results   *)
(* by position up to the number of ready ones.                             *)
RoundMissesNobody ==
  [][pc = "serviced" =>
       /\ (\E p \in Running : process'[p].faulted)
            => \A p \in Running : \A t \in Live(threads[p]) : Stuck(p, t)
       /\ pc' # "serviced" =>
            \A p \in Running, t \in Thread :
              ReadyWait(p, t) /\ FirstHeard(p, t) => threads'[p][t].state # "handle"]_vars

(* native_process_launch compares the reported generation with the one it   *)
(* spawned last: the run reports the newest process, whichever ended first. *)
LaunchReportsNewest ==
  [][pc # "stopped" /\ pc' = "stopped" => result' = generation - 1]_vars

(* select_runnable_thread: no runnable thread is passed over for ever.      *)
ThreadRuns ==
  \A p \in Slot, t \in Thread :
    threads[p][t].state = "runnable" /\ p \in Running /\ pc # "stopped"
      ~> \/ pc = "user" /\ current = p /\ process[p].current_thread = t
         \/ p \notin Running

(* native_process_run returns once every process it runs has ended.         *)
RunEnds == pc # "stopped" /\ Running = {} ~> pc = "stopped"

(* The loop of native_process_run makes progress for everyone: it starves   *)
(* no runnable thread, and it ends when the last process has.               *)
EveryoneGoesOn == ThreadRuns /\ RunEnds
=============================================================================
