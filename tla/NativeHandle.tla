---------------------------- MODULE NativeHandle ----------------------------
(***************************************************************************)
(* The process-local handle table of src/kernel/native_handle.c: a fixed   *)
(* array of slots, each naming one record of a fixed array of reference    *)
(* counted objects.  A handle value carries slot index, type and slot      *)
(* generation; the generation is incremented by every close so that the    *)
(* old value stops resolving.                                              *)
(*                                                                         *)
(* Calls that return an error leave the table untouched and are stuttering *)
(* steps; only the calls that change the table are actions.  The table     *)
(* belongs to one process and the kernel never interleaves two operations  *)
(* on it, so each operation is one step.                                   *)
(***************************************************************************)
EXTENDS Integers, FiniteSets

CONSTANTS Limit,      \* table->limit, at most NATIVE_HANDLE_LIMIT
          TypeCount,  \* handle types are 1..TypeCount; 0 marks an empty slot
          GenMax,     \* largest slot generation (UINT32_MAX in the code)
          RefMax,     \* largest reference count (UINT16_MAX in the code)
          Resource,   \* kernel resources a handle may stand for
          NoResource, \* contents of a zeroed object
          NoHandle    \* SAPOTE_HANDLE_INVALID

ASSUME LimitAssumption == Limit \in Nat \ {0}
ASSUME TypeAssumption == TypeCount \in Nat \ {0}
ASSUME GenAssumption == GenMax \in Nat \ {0}
\* NATIVE_HANDLE_LIMIT is 128 and references is a uint16_t.
ASSUME RefAssumption == RefMax \in Nat /\ Limit < RefMax
ASSUME ResourceAssumption == NoResource \notin Resource

VARIABLES slots,           \* table->slots
          objects,         \* table->objects
          active_handles,  \* table->active_handles
          active_objects,  \* table->active_objects
          open,            \* resources whose close callback has not succeeded
          kept,            \* history: a closed value the application kept
          lapped           \* history: kept's slot has overflowed its generation

vars == <<slots, objects, active_handles, active_objects, open, kept, lapped>>

Index == 0..(Limit - 1)
Type == 1..TypeCount
Generation == 1..GenMax

Slot == [active : BOOLEAN, type : 0..TypeCount, object_index : Index,
         generation : Generation]
Object == [active : BOOLEAN, type : 0..TypeCount, references : 0..RefMax,
           resource : Resource \cup {NoResource}]

(* encode_handle: index + 1 in the low bits, so that 0 is never a handle. *)
Handle == [index : 1..Limit, type : Type, generation : Generation]

ASSUME HandleAssumption == NoHandle \notin Handle

encode_handle(i, t, g) == [index |-> i + 1, type |-> t, generation |-> g]

HandleOf(i) == encode_handle(i, slots[i].type, slots[i].generation)

(* decode_slot: the slot a value names, provided the slot is in use and    *)
(* still has the generation and the type the value was made with.          *)
decode_slot(h, i) ==
  /\ i = h.index - 1
  /\ slots[i].active
  /\ slots[i].generation = h.generation
  /\ slots[i].type = h.type

(* native_handle_resolve without an expected type. *)
Resolves(h, r) ==
  \E i \in Index :
    /\ decode_slot(h, i)
    /\ LET o == objects[slots[i].object_index]
       IN  /\ o.active
           /\ o.references # 0
           /\ o.type = slots[i].type
           /\ o.resource = r

FreeSlots == {i \in Index : ~slots[i].active}
FreeObjects == {o \in Index : ~objects[o].active}
First(S, i) == i \in S /\ \A j \in S : i <= j

EmptyObject == [active |-> FALSE, type |-> 0, references |-> 0,
                resource |-> NoResource]

(***************************************************************************)
(* native_handle_table_initialize                                          *)
(***************************************************************************)
Init ==
  /\ slots = [i \in Index |-> [active |-> FALSE, type |-> 0,
                               object_index |-> 0, generation |-> 1]]
  /\ objects = [o \in Index |-> EmptyObject]
  /\ active_handles = 0
  /\ active_objects = 0
  /\ open = {}
  /\ kept = NoHandle
  /\ lapped = FALSE

(***************************************************************************)
(* native_handle_install.  The caller created resource r just before the   *)
(* call, so r is not open yet; when the table is full the caller destroys  *)
(* it again and nothing is recorded here.                                  *)
(***************************************************************************)
native_handle_install(t, r) ==
  \E i, o \in Index :
    /\ r \notin open
    /\ First(FreeSlots, i)
    /\ First(FreeObjects, o)
    /\ objects' = [objects EXCEPT ![o] =
         [active |-> TRUE, type |-> t, references |-> 1, resource |-> r]]
    /\ slots' = [slots EXCEPT ![i] =
         [active |-> TRUE, type |-> t, object_index |-> o,
          generation |-> slots[i].generation]]
    /\ active_handles' = active_handles + 1
    /\ active_objects' = active_objects + 1
    /\ open' = open \cup {r}
    /\ UNCHANGED <<kept, lapped>>

(***************************************************************************)
(* native_handle_duplicate                                                 *)
(***************************************************************************)
native_handle_duplicate_uncounted(h) ==
  \E s, i \in Index :
    /\ decode_slot(h, s)
    /\ First(FreeSlots, i)
    /\ slots' = [slots EXCEPT ![i] =
         [active |-> TRUE, type |-> slots[s].type,
          object_index |-> slots[s].object_index,
          generation |-> slots[i].generation]]
    /\ active_handles' = active_handles + 1
    /\ UNCHANGED <<objects, active_objects, open, kept, lapped>>

native_handle_duplicate(h) ==
  \E s, i \in Index :
    LET o == slots[s].object_index
    IN /\ decode_slot(h, s)
       /\ First(FreeSlots, i)
       /\ active_handles < Limit
       /\ objects[o].active
       /\ objects[o].references # RefMax
       /\ objects' = [objects EXCEPT ![o] =
            [active |-> TRUE, type |-> objects[o].type,
             references |-> objects[o].references + 1,
             resource |-> objects[o].resource]]
       /\ slots' = [slots EXCEPT ![i] =
            [active |-> TRUE, type |-> slots[s].type, object_index |-> o,
             generation |-> slots[i].generation]]
       /\ active_handles' = active_handles + 1
       /\ UNCHANGED <<active_objects, open, kept, lapped>>

(***************************************************************************)
(* The slot half of native_handle_close: the generation moves on, and      *)
(* skips 0 when the 32-bit counter overflows.                              *)
(***************************************************************************)
NextGeneration_stuck(g) == g
NextGeneration_reaches_zero(g) == (g + 1) % (GenMax + 1)

NextGeneration(g) == IF g = GenMax THEN 1 ELSE g + 1

ClosedSlot(s) == [active |-> FALSE, type |-> 0, object_index |-> 0,
                  generation |-> NextGeneration(s.generation)]

(* The object half: the last reference zeroes the object. *)
Dropped(o) ==
  IF o.references = 1
  THEN EmptyObject
  ELSE [active |-> TRUE, type |-> o.type, references |-> o.references - 1,
        resource |-> o.resource]

(***************************************************************************)
(* History: the application may keep any value it closes, in place of the  *)
(* one it kept before.  Properties about kept hold for every closed value, *)
(* because which one is kept is arbitrary.                                 *)
(***************************************************************************)
Remember(gone) ==
  \/ \E i \in gone :
       /\ kept' = HandleOf(i)
       /\ lapped' = (slots[i].generation = GenMax)
  \/ /\ kept' = kept
     /\ lapped' = \/ lapped
                  \/ \E i \in gone : /\ kept # NoHandle
                                    /\ kept.index = i + 1
                                    /\ slots[i].generation = GenMax

(***************************************************************************)
(* native_handle_close.  The close callback runs only for the last         *)
(* reference; when it refuses, the call returns CLOSE_FAILED before any    *)
(* field changed, so that branch is a stuttering step.                     *)
(***************************************************************************)
native_handle_close_early_release(h) ==
  \E i \in Index :
    LET o == slots[i].object_index
    IN /\ decode_slot(h, i)
       /\ objects[o].active
       /\ objects[o].references # 0
       /\ slots' = [slots EXCEPT ![i] = ClosedSlot(slots[i])]
       /\ objects' = [objects EXCEPT ![o] = Dropped(objects[o])]
       /\ active_handles' = active_handles - 1
       /\ active_objects' = IF objects[o].references = 1
                            THEN active_objects - 1 ELSE active_objects
       /\ open' = open \ {objects[o].resource}
       /\ Remember({i})

native_handle_close(h) ==
  \E i \in Index :
    LET o == slots[i].object_index
    IN /\ decode_slot(h, i)
       /\ objects[o].active
       /\ objects[o].references # 0
       /\ slots' = [slots EXCEPT ![i] = ClosedSlot(slots[i])]
       /\ objects' = [objects EXCEPT ![o] = Dropped(objects[o])]
       /\ active_handles' = active_handles - 1
       /\ active_objects' = IF objects[o].references = 1
                            THEN active_objects - 1 ELSE active_objects
       /\ open' = IF objects[o].references = 1
                  THEN open \ {objects[o].resource} ELSE open
       /\ Remember({i})

(***************************************************************************)
(* native_handle_close_all, at process teardown: every active slot is      *)
(* closed in index order and the loop continues past failures.  For an     *)
(* object whose close callback refuses, all references but the one in its  *)
(* highest slot are dropped, and that slot stays active.                   *)
(***************************************************************************)
SlotsOf(o) == {i \in Index : slots[i].active /\ slots[i].object_index = o}
LastSlotOf(o, i) == i \in SlotsOf(o) /\ \A j \in SlotsOf(o) : j <= i
ActiveSlots == {i \in Index : slots[i].active}
ActiveObjects == {o \in Index : objects[o].active}

native_handle_close_all(refusing) ==
  LET spared == {i \in Index : \E o \in refusing : LastSlotOf(o, i)}
      gone == ActiveSlots \ spared
  IN /\ gone # {}
     /\ slots' = [i \in Index |->
          IF i \in gone THEN ClosedSlot(slots[i]) ELSE slots[i]]
     /\ objects' = [o \in Index |->
          IF o \notin ActiveObjects THEN objects[o]
          ELSE IF o \in refusing
               THEN [active |-> TRUE, type |-> objects[o].type,
                     references |-> 1, resource |-> objects[o].resource]
               ELSE EmptyObject]
     /\ active_handles' = active_handles - Cardinality(gone)
     /\ active_objects' =
          active_objects - Cardinality(ActiveObjects \ refusing)
     /\ open' = open \ {objects[o].resource : o \in ActiveObjects \ refusing}
     /\ Remember(gone)

Next ==
  \/ \E t \in Type, r \in Resource : native_handle_install(t, r)
  \/ \E h \in Handle : native_handle_duplicate(h)
  \/ \E h \in Handle : native_handle_close(h)
  \/ \E refusing \in SUBSET ActiveObjects : native_handle_close_all(refusing)

Spec == Init /\ [][Next]_vars

(***************************************************************************)
(* Properties                                                              *)
(***************************************************************************)
(* Every field keeps the range its C type and the table limit give it. *)
TypeOK ==
  /\ slots \in [Index -> Slot]
  /\ objects \in [Index -> Object]
  /\ active_handles \in 0..Limit
  /\ active_objects \in 0..Limit
  /\ open \in SUBSET Resource
  /\ kept \in Handle \cup {NoHandle}
  /\ lapped \in BOOLEAN

(* native_handle_duplicate and native_handle_close keep the books: an      *)
(* object's reference count is the number of slots naming it, an object    *)
(* lives exactly as long as it is named, every name has its object's type, *)
(* and the two table counters (which decide FULL and the clean-teardown    *)
(* test) are exact.                                                        *)
ReferencesExact ==
  /\ \A o \in Index :
       /\ objects[o].references = Cardinality(SlotsOf(o))
       /\ objects[o].active <=> SlotsOf(o) # {}
       /\ \A i \in SlotsOf(o) : slots[i].type = objects[o].type
  /\ active_handles = Cardinality(ActiveSlots)
  /\ active_objects = Cardinality(ActiveObjects)

(* The close callback of native_handle_close: a resource is finalised when *)
(* and only when its last handle goes; none is leaked, none is released    *)
(* under a handle that still names it, and no two objects share one.       *)
ResourcesOwned ==
  /\ open = {objects[o].resource : o \in ActiveObjects}
  /\ \A o, p \in ActiveObjects :
       objects[o].resource = objects[p].resource => o = p

(* docs/NATIVE_HANDLES.md: "a closed value cannot name a later object      *)
(* reusing the same slot", for every slot whose 32-bit generation has not  *)
(* started over since.                                                     *)
ClosedStaysStale ==
  kept # NoHandle /\ ~lapped => ~\E i \in Index : decode_slot(kept, i)

(* The table implements the capability contract: native_handle_resolve     *)
(* answers from a partial function of handle values to open resources.     *)
names == [h \in {HandleOf(i) : i \in ActiveSlots} |->
            objects[slots[h.index - 1].object_index].resource]

Capability == INSTANCE HandleCapability

RefinesCapability == Capability!Spec
=============================================================================
