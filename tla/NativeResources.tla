-------------------------- MODULE NativeResources --------------------------
(***************************************************************************)
(* What native processes own (src/kernel/native_process.c): frames and     *)
(* their mappings, the aliases of executable frames, handles with the      *)
(* files, directories, sockets, threads and the window behind them, and    *)
(* how loading, the system calls that acquire and give up resources, and   *)
(* process_cleanup keep the books.                                         *)
(*                                                                         *)
(* The kernel runs a load, a system call or a cleanup without another of   *)
(* them in between, so each is one step; all of its ways to fail half-way  *)
(* are its outcomes.  What may fail is what the code can meet: no frame,   *)
(* no page table, no heap block, a full table, a refused file.  Unmapping  *)
(* a page fails exactly if the page is not in the tables.  Drawing may     *)
(* fail when a window is opened or closed (render_region), after the       *)
(* record of the window was changed.                                       *)
(*                                                                         *)
(* A frame is named by the process slot and the page it was taken for.  A  *)
(* handle table is the number of handles of each object (NativeHandle has  *)
(* the slots).  The address space is not in use while the kernel runs: an  *)
(* entry to the kernel starts by selecting the kernel's tables.  A call    *)
(* that is refused before it changes anything is not a step.               *)
(***************************************************************************)
EXTENDS Integers, Sequences, FiniteSets, FiniteSetsExt, SequencesExt

CONSTANTS Processes,      \* NATIVE_PROCESS_LIMIT
          FrameCount,     \* frames of the machine
          MemoryLimit,    \* manifest.memory_limit, in pages
          AnonPages,      \* pages of the anonymous region, of which the second
                          \* is the main thread's TLS block
          SurfacePages,   \* pages of a window's surface
          StackPages,     \* pages of a stack
          HandleLimit,    \* manifest.max_handles
          ThreadLimit,    \* manifest.max_threads
          FileLimit,      \* SAPFS_MAX_HANDLES
          SocketLimit,    \* sockets of the network stack
          MaxWindows,     \* bound: windows a process opens, one after the other
          Programs        \* the programs: each the set of calls it makes

ASSUME ResourceAssumption ==
  /\ {Processes, FrameCount, MemoryLimit, SurfacePages, StackPages, HandleLimit,
      ThreadLimit, FileLimit, SocketLimit, MaxWindows} \subseteq Nat \ {0}
  /\ AnonPages \in Nat /\ AnonPages >= 2

VARIABLES process,      \* slot -> struct native_process
          machine,      \* what all processes share
          ages,         \* the slots of the active processes, oldest first
          scheduler_active,
          reaping,      \* native_process_run is at the end of a round
          cleanups,     \* whether every process_cleanup has reported success
          drawn         \* whether every closing of a window could be drawn

vars == <<process, machine, ages, scheduler_active, reaping, cleanups, drawn>>

Slot == 0..(Processes - 1)

(* Pages, by region, and the order in which each is filled. *)
Image == <<<<"image", 1>>>>
MainTls == <<<<"anon", 2>>>>
Stack(t) == [i \in 1..StackPages |-> <<"stack", t, i>>]
Surface == [i \in 1..SurfacePages |-> <<"surface", i>>]
Anon(base, count) == [i \in 1..count |-> <<"anon", base + i - 1>>]

NoPages == [a \in {} |-> [kind |-> "IMAGE", mapped |-> FALSE]]
NoHandles == [o \in {} |-> 1]

NoWindow == [allocated |-> FALSE, window_object_open |-> FALSE,
             event_object_open |-> FALSE, generation |-> 0, surface |-> {}]

(* A slot of zeroes. *)
NoProcess ==
  [calls |-> {}, exiting |-> FALSE, space |-> FALSE, aliases |-> FALSE,
   pages |-> NoPages, tables |-> {}, handles |-> NoHandles,
   threads |-> 0, directories |-> {}, window |-> NoWindow, windows |-> 0]

NoResources ==
  [frames |-> {}, heap |-> {}, narrowed |-> <<>>, files |-> {}, sockets |-> {},
   ui |-> {}]

Init ==
  /\ process = [s \in Slot |-> NoProcess]
  /\ machine = NoResources
  /\ ages = <<>>
  /\ scheduler_active = FALSE
  /\ reaping = FALSE
  /\ cleanups = TRUE
  /\ drawn = TRUE

-----------------------------------------------------------------------------
(***************************************************************************)
(* The operators below take the process together with the machine, w, and  *)
(* return both; w.ok is whether the call they model has succeeded so far.  *)
(***************************************************************************)
Joined(f, g) == [x \in DOMAIN f \cup DOMAIN g |-> IF x \in DOMAIN f THEN f[x] ELSE g[x]]

World(s) ==
  Joined(Joined(process[s], machine), [slot |-> s, ok |-> TRUE, draws |-> TRUE])

Stored(w) ==
  /\ process' = [process EXCEPT ![w.slot] = [f \in DOMAIN NoProcess |-> w[f]]]
  /\ machine' = [f \in DOMAIN machine |-> w[f]]

Failed(w) == [w EXCEPT !.ok = FALSE]

Owned(w, addresses) == {<<w.slot, a>> : a \in addresses}

Recorded(w) == DOMAIN w.pages

(***************************************************************************)
(* allocate_page for the first n pages of a sequence: within the memory    *)
(* limit, with a frame each, and none recorded already.                    *)
(***************************************************************************)
First(wanted, n) == {wanted[i] : i \in 1..n}

allocate_page(w, wanted, n) ==
  /\ n <= Len(wanted)
  /\ Cardinality(Recorded(w)) + n <= MemoryLimit
  /\ Cardinality(w.frames) + n <= FrameCount
  /\ First(wanted, n) \cap Recorded(w) = {}

(* kind says of each new page what it is for. *)
record_page(w, kind) ==
  [w EXCEPT !.pages = Joined(@, [a \in DOMAIN kind |-> [kind |-> kind[a], mapped |-> FALSE]]),
            !.frames = @ \cup Owned(w, DOMAIN kind)]

MarkMapped(w, addresses) ==
  LET Marked(p) == [a \in DOMAIN p |-> [kind |-> p[a].kind, mapped |-> p[a].mapped \/ a \in addresses]]
  IN [w EXCEPT !.tables = @ \cup addresses, !.pages = Marked(@)]

(* Where the loop "allocate a page, then map it" may end: with all pages   *)
(* mapped, at the first page that cannot be allocated, or at a page that   *)
(* was recorded and could not be mapped.                                   *)
Grown(w, wanted, kind) ==
  LET Taken(n) == record_page(w, [a \in First(wanted, n) |-> kind])
      can == {n \in 0..Len(wanted) : allocate_page(w, wanted, n)}
  IN {[MarkMapped(Taken(n), First(wanted, n)) EXCEPT !.ok = n = Len(wanted)] :
        n \in {m \in can : m + 1 \notin can}}
       \cup {Failed(MarkMapped(Taken(n + 1), First(wanted, n))) :
               n \in {m \in can : m + 1 \in can}}

Without(f, S) == [a \in DOMAIN f \ S |-> f[a]]

remove_page_record(w, addresses) == [w EXCEPT !.pages = Without(@, addresses)]

(* A page that is not mapped is not in the tables either. *)
paging_process_unmap_user_page(w, addresses) ==
  IF addresses \subseteq w.tables THEN [w EXCEPT !.tables = @ \ addresses]
  ELSE Failed([w EXCEPT !.tables = @ \ addresses])

frame_release(w, addresses) ==
  IF Owned(w, addresses) \subseteq w.frames
  THEN [w EXCEPT !.frames = @ \ Owned(w, addresses)]
  ELSE Failed([w EXCEPT !.frames = @ \ Owned(w, addresses)])

MappedOf(w, addresses) == {a \in addresses \cap Recorded(w) : w.pages[a].mapped}

(* Recorded pages given back. *)
Returned(w, addresses) ==
  frame_release(remove_page_record(
    paging_process_unmap_user_page(w, MappedOf(w, addresses)), addresses), addresses)

(* The rollback of a loop that could not get all its pages: what is        *)
(* recorded is given back, the page that failed included.                  *)
RolledBack(w, wanted) == Returned(w, Range(wanted) \cap Recorded(w))

(* The same, but a page that is missing, of another kind or not in the     *)
(* tables is passed over and is a failure.                                 *)
release_runtime_pages(w, wanted, kind) ==
  LET own == {a \in wanted \cap Recorded(w) :
                w.pages[a].kind = kind /\ (w.pages[a].mapped => a \in w.tables)}
      done == Returned(w, own)
  IN IF own = wanted THEN done ELSE Failed(done)

-----------------------------------------------------------------------------
(***************************************************************************)
(* The window: its record lives until both the window and its queue of     *)
(* events are closed, its surface until the window is.                     *)
(***************************************************************************)
window_finalize_if_unreferenced_early(w) ==
  IF w.window.allocated /\ ~w.window.window_object_open
  THEN [w EXCEPT !.window = NoWindow] ELSE w

window_finalize_if_unreferenced(w) ==
  IF /\ w.window.allocated /\ ~w.window.window_object_open
     /\ ~w.window.event_object_open
  THEN [w EXCEPT !.window = NoWindow] ELSE w

(* ui_native_window_close clears its record before it draws.               *)
ui_native_window_close(w, draws) ==
  IF w.slot \notin w.ui THEN w
  ELSE LET gone == [w EXCEPT !.ui = @ \ {w.slot}]
       IN IF draws THEN gone ELSE [Failed(gone) EXCEPT !.draws = FALSE]

window_release_surface(w, draws) ==
  LET closed == ui_native_window_close(w, draws)
      back == release_runtime_pages(closed, w.window.surface, "SURFACE")
  IN window_finalize_if_unreferenced(
       [back EXCEPT !.heap = @ \ {<<w.slot, "pixels">>},
                    !.window.surface = {}, !.window.window_object_open = FALSE])

(* Objects of the handle table. *)
Object(type, id) == [type |-> type, id |-> id]

close_resource(w, o, draws) ==
  CASE o.type = "FILE" ->
         IF o.id \in w.files THEN [w EXCEPT !.files = @ \ {o.id}] ELSE Failed(w)
    [] o.type = "DIRECTORY" -> [w EXCEPT !.directories = @ \ {o.id}]
    [] o.type = "SOCKET" ->
         IF <<w.slot, o.id>> \in w.sockets THEN [w EXCEPT !.sockets = @ \ {<<w.slot, o.id>>}]
         ELSE Failed(w)
    [] o.type \in {"TIMER", "THREAD"} -> w
    [] o.type = "WINDOW" ->
         IF ~w.window.allocated \/ w.window.generation # o.id THEN Failed(w)
         ELSE window_release_surface(w, draws)
    [] o.type = "EVENT_QUEUE" ->
         IF ~w.window.allocated \/ w.window.generation # o.id THEN Failed(w)
         ELSE window_finalize_if_unreferenced([w EXCEPT !.window.event_object_open = FALSE])

(* native_handle.c: a handle survives if closing its object failed. *)
Handles(w) == MapThenSumSet(LAMBDA o : w.handles[o], DOMAIN w.handles)

Full(w) == Handles(w) = HandleLimit

native_handle_install(w, o) == [w EXCEPT !.handles = Joined(@, [x \in {o} |-> 1])]

native_handle_close(w, o, draws) ==
  IF w.handles[o] > 1 THEN [w EXCEPT !.handles[o] = @ - 1]
  ELSE LET done == close_resource(w, o, draws)
       IN IF done.ok THEN [done EXCEPT !.handles = Without(@, {o})] ELSE done

(* A call that fails leaves its mark in ok; what follows it starts afresh. *)
Then(w) == [w EXCEPT !.ok = TRUE]

Held(w, type) == {o.id : o \in {x \in DOMAIN w.handles : x.type = type}}

(* Every handle is closed, in the order of the table, which only matters   *)
(* to a window and its queue, and they commute.  An object of a window     *)
(* that is gone cannot be closed.  process_cleanup clears the table.       *)
native_handle_close_all(w, draws) ==
  LET Close(acc, o) ==
        LET done == close_resource(acc, o, draws)
        IN IF o \in DOMAIN w.handles THEN done ELSE acc
      current == w.window.generation
      closed == [w EXCEPT !.files = @ \ Held(w, "FILE"),
                          !.directories = @ \ Held(w, "DIRECTORY"),
                          !.sockets = @ \ Owned(w, Held(w, "SOCKET")),
                          !.ok = /\ w.ok /\ Held(w, "FILE") \subseteq w.files
                                 /\ Owned(w, Held(w, "SOCKET")) \subseteq w.sockets
                                 /\ Held(w, "WINDOW") \cup Held(w, "EVENT_QUEUE") \subseteq {current}]
  IN Close(Close(closed, Object("WINDOW", current)), Object("EVENT_QUEUE", current))

-----------------------------------------------------------------------------
(***************************************************************************)
(* process_cleanup: handles, sockets, mappings, aliases, the space, frames *)
(* and then the record, whatever became of each.                           *)
(***************************************************************************)
network_process_terminated(w) ==
  [w EXCEPT !.sockets = {x \in @ : x[1] # w.slot}]

(* Only the newest aliases can be restored, and only with nothing mapped.  *)
paging_process_alias_set_restore(w) ==
  IF ~w.aliases THEN w
  ELSE IF w.tables = {} /\ w.narrowed # <<>> /\ Last(w.narrowed) = w.slot
  THEN [w EXCEPT !.aliases = FALSE, !.narrowed = Front(@)]
  ELSE Failed(w)

paging_process_space_release(w) ==
  IF ~w.space THEN w
  ELSE IF w.tables = {} /\ ~w.aliases THEN [w EXCEPT !.space = FALSE]
  ELSE Failed(w)

process_cleanup_of_mapped_frames(w, draws) ==
  LET closed == network_process_terminated(native_handle_close_all(w, draws))
      unmapped == paging_process_unmap_user_page(closed, MappedOf(closed, Recorded(closed)))
      spaceless == paging_process_space_release(paging_process_alias_set_restore(unmapped))
      done == frame_release(spaceless, MappedOf(spaceless, Recorded(spaceless)))
  IN Joined(NoProcess, done)

process_cleanup(w, draws) ==
  LET closed == network_process_terminated(native_handle_close_all(w, draws))
      unmapped == paging_process_unmap_user_page(closed, MappedOf(closed, Recorded(closed)))
      spaceless == paging_process_space_release(paging_process_alias_set_restore(unmapped))
      done == frame_release(spaceless, Recorded(spaceless))
  IN Joined(NoProcess, done)

(* Of the call that failed all that is left is whether its cleanup did.    *)
Cleaned(done) ==
  /\ Stored(done)
  /\ cleanups' = (cleanups /\ done.ok)
  /\ drawn' = (drawn /\ done.draws)

(***************************************************************************)
(* load_process.  The executable is read into a heap block, which is given *)
(* back whatever happens; reading, admission or the data namespace may     *)
(* refuse before a frame is taken.  Then frames are taken for the image,   *)
(* the TLS block and the stack, as far as they go (prepare), a space is    *)
(* built and the executable frames are narrowed, and the pages are mapped, *)
(* as far as tables go (map_prepared_pages); at the end the pages, the FPU *)
(* state or the handle table may still be refused.                         *)
(***************************************************************************)
LoadOrder == Image \o MainTls \o Stack(0)

Prepared(w, n) ==
  LET kind == [image |-> "IMAGE", anon |-> "TLS", stack |-> "STACK"]
  IN record_page(w, [a \in First(LoadOrder, n) |-> kind[a[1]]])

Narrowed(w) == [w EXCEPT !.aliases = TRUE, !.narrowed = Append(@, w.slot)]

map_prepared_pages(w) ==
  LET built == [w EXCEPT !.space = TRUE]
      Mapped(n) == MarkMapped(Narrowed(built), First(LoadOrder, n))
  IN {w, built} \cup {Mapped(n) : n \in 0..Len(LoadOrder)}

FailedLoads(w) ==
  LET can == {n \in 0..Len(LoadOrder) : allocate_page(w, LoadOrder, n)}
  IN {w} \cup {Prepared(w, n) : n \in {m \in can : m + 1 \notin can}}
       \cup IF Len(LoadOrder) \in can THEN map_prepared_pages(Prepared(w, Len(LoadOrder))) ELSE {}

FreeSlots == Slot \ Range(ages)

native_process_spawn(program) ==
  /\ ~scheduler_active /\ FreeSlots # {}
  /\ LET s == Min(FreeSlots)
         w == World(s)
     IN /\ allocate_page(w, LoadOrder, Len(LoadOrder))
        /\ Stored([MarkMapped(Narrowed(Prepared(w, Len(LoadOrder))), Range(LoadOrder))
                     EXCEPT !.space = TRUE, !.threads = 1, !.calls = program])
        /\ ages' = Append(ages, s)
  /\ UNCHANGED <<scheduler_active, reaping, cleanups, drawn>>

native_process_spawn_fails ==
  /\ ~scheduler_active /\ FreeSlots # {}
  /\ \E w \in FailedLoads(World(Min(FreeSlots))) : Cleaned(process_cleanup(Then(w), TRUE))
  /\ UNCHANGED <<ages, scheduler_active, reaping>>

(***************************************************************************)
(* native_process_run.  A round ends with reaping: as long as the newest   *)
(* process is to end it is cleaned up; a cleanup that failed leaves the    *)
(* next one to the next round.                                             *)
(***************************************************************************)
native_process_run ==
  /\ ~scheduler_active /\ ages # <<>>
  /\ scheduler_active' = TRUE
  /\ UNCHANGED <<process, machine, ages, reaping, cleanups, drawn>>

NewestExits == ages # <<>> /\ process[Last(ages)].exiting

reap(draws) ==
  /\ scheduler_active /\ reaping /\ NewestExits
  /\ LET done == process_cleanup(World(Last(ages)), draws)
     IN Cleaned(done) /\ reaping' = done.ok
  /\ ages' = Front(ages)
  /\ UNCHANGED scheduler_active

(* A round in which no process calls: all wait, or the newest is to end.   *)
native_process_run_round ==
  /\ scheduler_active /\ ~reaping /\ NewestExits
  /\ reaping' = TRUE
  /\ UNCHANGED <<process, machine, ages, scheduler_active, cleanups, drawn>>

native_process_run_ends ==
  /\ scheduler_active /\ ages = <<>>
  /\ scheduler_active' = FALSE
  /\ reaping' = FALSE
  /\ UNCHANGED <<process, machine, ages, cleanups, drawn>>

-----------------------------------------------------------------------------
(***************************************************************************)
(* System calls of a process that is not exiting, in a round that follows  *)
(* a finished reaping.                                                     *)
(***************************************************************************)
Runs(s) ==
  /\ scheduler_active /\ s \in Range(ages) /\ ~process[s].exiting
  /\ ~(reaping /\ NewestExits)

Calls(s, call) == Runs(s) /\ call \in process[s].calls

Done(w) ==
  /\ Stored(w)
  /\ drawn' = (drawn /\ w.draws)
  /\ reaping' = TRUE
  /\ UNCHANGED <<ages, scheduler_active, cleanups>>

(* terminate_process, by the program, a fault or the scheduler. *)
terminate_process(s) ==
  /\ Runs(s)
  /\ Done([World(s) EXCEPT !.exiting = TRUE])

(* The pages wanted and the guards asked for lie in the region and are not *)
(* recorded.  Nothing records a guard.                                     *)
anonymous_span_free(w, base, count, before, after) ==
  LET first == IF before THEN base - 1 ELSE base
      last == IF after THEN base + count ELSE base + count - 1
  IN /\ first >= 1 /\ last <= AnonPages
     /\ \A i \in first..last : <<"anon", i>> \notin Recorded(w)

(* The address is the program's hint or the first that fits. *)
syscall_memory_map(s, base, count) ==
  /\ Calls(s, "memory")
  /\ Cardinality(Recorded(World(s))) + count <= MemoryLimit
  /\ \E before, after \in BOOLEAN : anonymous_span_free(World(s), base, count, before, after)
  /\ \E w \in Grown(World(s), Anon(base, count), "ANON") :
       Done(IF w.ok THEN w ELSE RolledBack(w, Anon(base, count)))

syscall_memory_unmap(s, base, count) ==
  /\ Calls(s, "memory")
  /\ LET w == World(s)
         range == Range(Anon(base, count))
     IN /\ range \subseteq MappedOf(w, Recorded(w))
        /\ \A a \in range : w.pages[a].kind = "ANON"
        /\ LET done == Returned(w, range)
           IN Done([done EXCEPT !.exiting = ~done.ok])

(* The two steps of every call that hands out a handle: acquire, and give  *)
(* back if the table is full.                                              *)
FirstFree(S) == Min((1..(Cardinality(S) + 1)) \ S)

syscall_file_open(s) ==
  /\ Calls(s, "file")
  /\ Cardinality(machine.files) < FileLimit
  /\ LET w == World(s)
         file == FirstFree(w.files)
         opened == [w EXCEPT !.files = @ \cup {file}]
     IN Done(IF Full(w) THEN [opened EXCEPT !.files = @ \ {file}]
             ELSE native_handle_install(opened, Object("FILE", file)))

syscall_directory_open(s) ==
  /\ Calls(s, "file")
  /\ LET w == World(s)
         slot == FirstFree(w.directories)
         opened == [w EXCEPT !.directories = @ \cup {slot}]
     IN Done(IF Full(w) THEN [opened EXCEPT !.directories = @ \ {slot}]
             ELSE native_handle_install(opened, Object("DIRECTORY", slot)))

syscall_network_open(s) ==
  /\ Calls(s, "network")
  /\ Cardinality(machine.sockets) < SocketLimit
  /\ LET w == World(s)
         socket == FirstFree({x[2] : x \in w.sockets})
         opened == [w EXCEPT !.sockets = @ \cup {<<s, socket>>}]
     IN Done(IF Full(w) THEN [opened EXCEPT !.sockets = @ \ {<<s, socket>>}]
             ELSE native_handle_install(opened, Object("SOCKET", socket)))

syscall_timer_create(s) ==
  /\ Calls(s, "network")
  /\ LET w == World(s)
         timers == {o.id : o \in {x \in DOMAIN w.handles : x.type = "TIMER"}}
     IN ~Full(w) /\ Done(native_handle_install(w, Object("TIMER", FirstFree(timers))))

(* A failed FPU state or a full table gives the stack back; only after the *)
(* handle is installed does the thread count. *)
syscall_thread_create(s) ==
  /\ Calls(s, "thread")
  /\ process[s].threads < ThreadLimit
  /\ LET stack == Stack(process[s].threads)
     IN \E w \in Grown(World(s), stack, "STACK"), fpu \in BOOLEAN :
          Done(IF ~w.ok THEN RolledBack(w, stack)
               ELSE IF ~fpu \/ Full(w)
               THEN LET back == release_runtime_pages(w, Range(stack), "STACK")
                    IN [back EXCEPT !.exiting = fpu /\ ~back.ok]
               ELSE [native_handle_install(w, Object("THREAD", w.threads))
                       EXCEPT !.threads = @ + 1])

(***************************************************************************)
(* syscall_window_create: the pixels, the surface, two handles, the window *)
(* on the screen; each failure undoes what came before it.                 *)
(***************************************************************************)
Undo(w, o, draws) == Then(native_handle_close(Then(w), o, draws))

(* ui_native_window_open may refuse (no screen, no room), or enter its     *)
(* record and then fail to draw it.                                        *)
OpenWindow(w, screen, draws) ==
  LET window == Object("WINDOW", w.window.generation)
      events == Object("EVENT_QUEUE", w.window.generation)
      first == native_handle_install(w, window)
      second == [native_handle_install(first, events) EXCEPT !.window.event_object_open = TRUE]
      shown == IF screen = "refused" THEN second ELSE [second EXCEPT !.ui = @ \cup {w.slot}]
  IN IF Full(w) THEN Then(window_release_surface(w, draws))
     ELSE IF Full(first) THEN Undo(first, window, draws)
     ELSE IF screen = "drawn" THEN shown
     ELSE Undo(Undo(shown, events, draws), window, draws)

syscall_window_create(s) ==
  /\ Calls(s, "window")
  /\ ~process[s].window.allocated /\ process[s].windows < MaxWindows
  /\ LET w == [World(s) EXCEPT !.windows = @ + 1]
         begun == [w EXCEPT !.heap = @ \cup {<<s, "pixels">>},
                            !.window = [allocated |-> TRUE, window_object_open |-> TRUE,
                                        event_object_open |-> FALSE, generation |-> w.windows,
                                        surface |-> Range(Surface)]]
     IN \/ Done(w)                      \* heap_allocate refused: the record is cleared
        \/ \E grown \in Grown(begun, Surface, "SURFACE"),
              screen \in {"drawn", "undrawn", "refused"}, draws \in BOOLEAN :
             Done(IF ~grown.ok THEN Then(window_release_surface(grown, draws))
                  ELSE OpenWindow(grown, screen, draws))

syscall_handle_duplicate(s, o) ==
  /\ Calls(s, "handle")
  /\ o \in DOMAIN process[s].handles /\ ~Full(World(s))
  /\ Done([World(s) EXCEPT !.handles[o] = @ + 1])

syscall_handle_close(s, o, draws) ==
  /\ Runs(s)
  /\ o \in DOMAIN process[s].handles
  /\ Done(native_handle_close(World(s), o, draws))

-----------------------------------------------------------------------------
SystemCall(s) ==
  \/ terminate_process(s)
  \/ \E base \in 1..AnonPages, count \in 1..2 :
       syscall_memory_map(s, base, count) \/ syscall_memory_unmap(s, base, count)
  \/ syscall_file_open(s) \/ syscall_directory_open(s)
  \/ syscall_network_open(s) \/ syscall_timer_create(s)
  \/ syscall_thread_create(s) \/ syscall_window_create(s)
  \/ \E o \in DOMAIN process[s].handles :
       \/ syscall_handle_duplicate(s, o)
       \/ \E draws \in BOOLEAN : syscall_handle_close(s, o, draws)

Next ==
  \/ \E program \in Programs : native_process_spawn(program)
  \/ native_process_spawn_fails
  \/ native_process_run \/ native_process_run_round \/ native_process_run_ends
  \/ \E draws \in BOOLEAN : reap(draws)
  \/ \E s \in Slot : SystemCall(s)

Spec == Init /\ [][Next]_vars

-----------------------------------------------------------------------------
TypeOK ==
  /\ DOMAIN process = Slot
  /\ \A s \in Slot : DOMAIN process[s] = DOMAIN NoProcess
  /\ Cardinality(machine.frames) <= FrameCount
  /\ {scheduler_active, reaping} \subseteq BOOLEAN /\ cleanups \in BOOLEAN /\ drawn \in BOOLEAN

Holds(s, type) == {o.id : o \in {x \in DOMAIN process[s].handles : x.type = type}}

(* Every page a process can reach is recorded and backed by a frame of its *)
(* own, the TLS block it was loaded with among them; and the record of a   *)
(* page says whether it is mapped.                                         *)
PagesBacked ==
  \A s \in Range(ages) :
    LET p == process[s]
    IN /\ p.tables = {a \in DOMAIN p.pages : p.pages[a].mapped}
       /\ \A a \in DOMAIN p.pages : <<s, a>> \in machine.frames
       /\ Range(LoadOrder) \subseteq p.tables
       /\ \A t \in 0..(p.threads - 1) : Range(Stack(t)) \subseteq p.tables

(* Every handle leads to something that is open, and to nothing another    *)
(* handle's object leads to; every open thing has a handle.  Only a window *)
(* whose closing could not be drawn leaves a handle to nothing behind.     *)
HandlesLead ==
  \A s \in Range(ages) :
    LET p == process[s]
        w == p.window
    IN /\ \A t \in Range(ages) \ {s} : Holds(s, "FILE") \cap Holds(t, "FILE") = {}
       /\ Holds(s, "DIRECTORY") = p.directories
       /\ Holds(s, "SOCKET") = {x[2] : x \in {f \in machine.sockets : f[1] = s}}
       /\ Holds(s, "THREAD") \subseteq 1..(p.threads - 1)
       /\ Holds(s, "EVENT_QUEUE") = IF w.event_object_open THEN {w.generation} ELSE {}
       /\ w.window_object_open => w.generation \in Holds(s, "WINDOW")
       /\ drawn => Holds(s, "WINDOW") = IF w.window_object_open THEN {w.generation} ELSE {}
       /\ w.allocated = (w.window_object_open \/ w.event_object_open)

(* A window on the screen has its pixels and a process that takes its      *)
(* events; its surface is mapped exactly while it is open.                 *)
ScreenBacked ==
  /\ \A s \in machine.ui :
       /\ s \in Range(ages) /\ process[s].window.window_object_open
       /\ <<s, "pixels">> \in machine.heap
  /\ \A s \in Range(ages) :
       Range(Surface) \cap process[s].tables =
         IF process[s].window.window_object_open THEN Range(Surface) ELSE {}

(* Between any two calls the books of a process agree with the machine,    *)
(* whichever calls failed half-way (native_process.c).                     *)
ResourcesAccounted == TypeOK /\ PagesBacked /\ HandlesLead /\ ScreenBacked

(* EXIT in docs/NATIVE_ABI.md: "all threads, handles, mappings, queues,    *)
(* windows, and network objects are reclaimed".  Whatever is in use        *)
(* belongs to a live process: a load that failed, a call or a process that *)
(* ended left nothing behind, aliases were restored newest first, and      *)
(* unless a window could not be drawn every process_cleanup said so.       *)
TeardownComplete ==
  LET live == Range(ages)
  IN /\ machine.frames = UNION {{<<s, a>> : a \in DOMAIN process[s].pages} : s \in live}
     /\ machine.narrowed = ages
     /\ machine.heap = {<<s, "pixels">> : s \in {x \in live : process[x].window.window_object_open}}
     /\ machine.files = UNION {Holds(s, "FILE") : s \in live}
     /\ \A x \in machine.sockets : x[1] \in live
     /\ machine.ui \subseteq live
     /\ \A s \in Slot \ live : process[s] = NoProcess
     /\ drawn => cleanups
=============================================================================
