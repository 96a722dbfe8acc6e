----------------------------- MODULE ProcessSpaces -----------------------------
(***************************************************************************)
(* The process half of paging.c: private address spaces, the user pages in *)
(* them, and the identity aliases of executable frames, which are made     *)
(* read-only in the kernel's own map for as long as a process may execute  *)
(* them.  Each call is an action; Can before its name is the condition     *)
(* under which it is not refused.                                          *)
(*                                                                         *)
(* A frame is the slot of the space it is meant for and the name its owner *)
(* keeps it under, which is also the name of the user page it backs.       *)
(* Making a frame read-only splits the 2 MiB page it lies in, unless an    *)
(* older narrowing has done so: the older one owns the table of the split, *)
(* and its restore puts the whole page back.  Tables are not counted,      *)
(* except that any call that needs one may be refused.                     *)
(***************************************************************************)
EXTENDS Integers, Sequences, FiniteSets, SequencesExt

CONSTANT SpaceSlots      \* PAGING_PROCESS_SPACE_SLOTS

ASSUME SpaceAssumption == SpaceSlots \in Nat \ {0}

VARIABLES
    spaces,      \* per slot: the state of the space, its user pages, and the
                 \* frames read-only in its own identity map
    narrowed,    \* the alias sets in force, oldest first
    kernel_map,  \* the frames read-only in the kernel's map, and its split pages
    cr3,         \* the slot whose tables are selected, or Kernel
    frames,      \* the frames in use
    shared       \* whether the images of all processes lie in one 2 MiB page

paging == <<spaces, narrowed, kernel_map, cr3, frames, shared>>

Slot == 1 .. SpaceSlots

Kernel == 0

NoSpace == [state |-> "none", pages |-> {}, own |-> {}]

(* The pages a process executes, and the ones it gets while it runs. *)
Code == {"code1", "code2"}

Runtime == {"heap1", "heap2", "anon"}

Region(frame) == IF shared THEN 0 ELSE frame[1]

SpacesInit ==
    /\ spaces = [s \in Slot |-> NoSpace]
    /\ narrowed = <<>>
    /\ kernel_map = [narrow |-> {}, split |-> {}]
    /\ cr3 = Kernel
    /\ frames = {}
    /\ shared = FALSE

AliasOwned(s) == \E i \in DOMAIN narrowed : narrowed[i].slot = s

AliasFrames(alias) == {<<alias.slot, page.name>> : page \in Range(alias.pages)}

(***************************************************************************)
(* Frames.                                                                 *)
(***************************************************************************)
CanAllocate(s, name) == <<s, name>> \notin frames

frame_allocate(s, name) ==
    /\ CanAllocate(s, name)
    /\ frames' = frames \cup {<<s, name>>}
    /\ UNCHANGED <<spaces, narrowed, kernel_map, cr3, shared>>

CanFree(s, name) == <<s, name>> \in frames

frame_release(s, name) ==
    /\ CanFree(s, name)
    /\ frames' = frames \ {<<s, name>>}
    /\ UNCHANGED <<spaces, narrowed, kernel_map, cr3, shared>>

(***************************************************************************)
(* Spaces.  The first free slot is the one a proof builds next, since only *)
(* one proof works at a time and none starts while a slot is in use.       *)
(***************************************************************************)
CanBuild(s) == spaces[s].state = "none" /\ ~AliasOwned(s) /\ cr3 = Kernel

paging_process_space_build(s) ==
    /\ CanBuild(s)
    /\ spaces' = [spaces EXCEPT ![s] = [NoSpace EXCEPT !.state = "BUILDING"]]
    /\ UNCHANGED <<narrowed, kernel_map, cr3, frames, shared>>

(* What makes one frame read-only does to the kernel's map, and whether the
   narrowing owns a split. *)
narrow_identity_alias_AlwaysSplits(acc, frame) ==
    [map   |-> [narrow |-> acc.map.narrow \cup {frame}, split |-> acc.map.split \cup {Region(frame)}],
     pages |-> Append(acc.pages, [name |-> frame[2], split |-> TRUE])]

narrow_identity_alias(acc, frame) ==
    [map   |-> [narrow |-> acc.map.narrow \cup {frame}, split |-> acc.map.split \cup {Region(frame)}],
     pages |-> Append(acc.pages, [name |-> frame[2], split |-> Region(frame) \notin acc.map.split])]

CanNarrow(s, names) ==
    /\ spaces[s].state = "BUILDING"
    /\ ~AliasOwned(s)
    /\ cr3 = Kernel
    /\ kernel_map.narrow \cap {<<s, name>> : name \in Range(names)} = {}

(* One alias set: all of its frames, or none. *)
narrow_alias_pages(s, names) ==
    /\ CanNarrow(s, names)
    /\ LET Narrow(acc, name) == narrow_identity_alias(acc, <<s, name>>)
           done == FoldLeft(Narrow, [map |-> kernel_map, pages |-> <<>>], names)
       IN  /\ kernel_map' = done.map
           /\ narrowed' = Append(narrowed, [slot |-> s, pages |-> done.pages])
    /\ spaces' = [spaces EXCEPT ![s].own = Range(names)]
    /\ UNCHANGED <<cr3, frames, shared>>

(* An executable page needs its frame to be one of the space's aliases. *)
CanMapPages(s, names) ==
    /\ spaces[s].state \in {"BUILDING", "INSTALLED", "ACTIVE"}
    /\ names \subseteq Runtime \/ spaces[s].state = "BUILDING"
    /\ names \cap Code # {} =>
         \E i \in DOMAIN narrowed :
             narrowed[i].slot = s /\ {<<s, name>> : name \in names} \subseteq AliasFrames(narrowed[i])
    /\ names \cap spaces[s].pages = {}

paging_process_map_user_page(s, names) ==
    /\ CanMapPages(s, names)
    /\ spaces' = [spaces EXCEPT ![s].pages = @ \cup names]
    /\ UNCHANGED <<narrowed, kernel_map, cr3, frames, shared>>

CanUnmapPages(s, names) ==
    /\ names \subseteq spaces[s].pages
    /\ names \subseteq Runtime \/ spaces[s].state # "ACTIVE"

paging_process_unmap_user_page(s, names) ==
    /\ CanUnmapPages(s, names)
    /\ spaces' = [spaces EXCEPT ![s].pages = @ \ names]
    /\ UNCHANGED <<narrowed, kernel_map, cr3, frames, shared>>

(* Exactly the pages that were meant to be there, and as many executable ones as
   there are aliases. *)
CanValidate(s, expected) ==
    /\ spaces[s].state = "BUILDING"
    /\ AliasOwned(s)
    /\ spaces[s].pages = expected
    /\ spaces[s].own = expected \cap Code

paging_process_validate(s, expected) ==
    /\ CanValidate(s, expected)
    /\ spaces' = [spaces EXCEPT ![s].state = "INSTALLED"]
    /\ UNCHANGED <<narrowed, kernel_map, cr3, frames, shared>>

CanActivate(s) == spaces[s].state = "INSTALLED" /\ AliasOwned(s) /\ cr3 = Kernel

paging_process_activate(s) ==
    /\ CanActivate(s)
    /\ spaces' = [spaces EXCEPT ![s].state = "ACTIVE"]
    /\ cr3' = s
    /\ UNCHANGED <<narrowed, kernel_map, frames, shared>>

CanRestoreKernel(s) == spaces[s].state = "ACTIVE" /\ cr3 = s

paging_process_restore_kernel(s) ==
    /\ CanRestoreKernel(s)
    /\ spaces' = [spaces EXCEPT ![s].state = "INSTALLED"]
    /\ cr3' = Kernel
    /\ UNCHANGED <<narrowed, kernel_map, frames, shared>>

(* Back to the whole 2 MiB page if the narrowing split it; only this frame's
   entry otherwise. *)
restore_identity_alias(map, s, page) ==
    IF page.split
      THEN [narrow |-> {f \in map.narrow : Region(f) # Region(<<s, page.name>>)},
            split  |-> map.split \ {Region(<<s, page.name>>)}]
      ELSE [map EXCEPT !.narrow = @ \ {<<s, page.name>>}]

(* Only the newest alias set may be restored, and only once nothing is mapped. *)
CanRestoreAliases(s) ==
    /\ spaces[s].state \in {"BUILDING", "INSTALLED"}
    /\ spaces[s].pages = {}
    /\ narrowed # <<>> /\ Last(narrowed).slot = s
    /\ cr3 = Kernel

(* Newest page first; the space's own map stays narrowed until it is released. *)
restore_active_aliases(s) ==
    /\ CanRestoreAliases(s)
    /\ LET Restore(map, page) == restore_identity_alias(map, s, page)
       IN  kernel_map' = FoldLeft(Restore, kernel_map, Reverse(Last(narrowed).pages))
    /\ narrowed' = Front(narrowed)
    /\ UNCHANGED <<spaces, cr3, frames, shared>>

CanReleaseSpace(s) ==
    /\ spaces[s].state \in {"BUILDING", "INSTALLED"}
    /\ ~AliasOwned(s)
    /\ spaces[s].pages = {}
    /\ cr3 = Kernel

paging_process_space_release(s) ==
    /\ CanReleaseSpace(s)
    /\ spaces' = [spaces EXCEPT ![s] = NoSpace]
    /\ UNCHANGED <<narrowed, kernel_map, cr3, frames, shared>>

paging_process_resources_released ==
    narrowed = <<>> /\ \A s \in Slot : spaces[s].state = "none"

===============================================================================
