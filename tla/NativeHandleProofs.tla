------------------------- MODULE NativeHandleProofs -------------------------
(***************************************************************************)
(* Proofs about the handle table, for every table limit, set of types,     *)
(* generation width and set of resources.                                  *)
(***************************************************************************)
EXTENDS NativeHandle, FiniteSetTheorems, WellFoundedInduction, TLAPS

USE DEF Index

(* A kept value that was closed in the current lap of its slot carries an  *)
(* older generation than the slot: native_handle_close incremented it.     *)
KeptIsOlder ==
  kept # NoHandle /\ ~lapped =>
    kept.generation < slots[kept.index - 1].generation

(* A slot in use has one of the real types, so its value is a handle. *)
ActiveTyped == \A i \in ActiveSlots : slots[i].type \in Type

(* The inductive strengthening: types, books and ownership support each    *)
(* other (a close needs the exact count to know whether it is the last).   *)
IInv == /\ TypeOK
        /\ ReferencesExact
        /\ ResourcesOwned
        /\ ActiveTyped
        /\ KeptIsOlder

-----------------------------------------------------------------------------
(* Every set of table indices is finite and no larger than the table. *)
LEMMA IndexSubset ==
  ASSUME NEW S, S \subseteq Index
  PROVE  IsFiniteSet(S) /\ Cardinality(S) \in 0..Limit
<1>1. IsFiniteSet(Index) /\ Cardinality(Index) = Limit
  BY FS_Interval, LimitAssumption
<1>2. IsFiniteSet(S) /\ Cardinality(S) <= Cardinality(Index)
  BY <1>1, FS_Subset
<1>3. Cardinality(S) \in Nat
  BY <1>2, FS_CardinalityType
<1> QED BY <1>1, <1>2, <1>3, LimitAssumption

(* The table counters are cardinalities of index sets, so they stay in     *)
(* range and reference counts never reach UINT16_MAX.                      *)
LEMMA CountsInRange ==
  /\ \A o : SlotsOf(o) \subseteq Index /\ IsFiniteSet(SlotsOf(o))
              /\ Cardinality(SlotsOf(o)) \in 0..Limit
  /\ ActiveSlots \subseteq Index /\ IsFiniteSet(ActiveSlots)
       /\ Cardinality(ActiveSlots) \in 0..Limit
  /\ ActiveObjects \subseteq Index /\ IsFiniteSet(ActiveObjects)
       /\ Cardinality(ActiveObjects) \in 0..Limit
<1>1. \A o : SlotsOf(o) \subseteq Index
  BY DEF SlotsOf
<1>2. ActiveSlots \subseteq Index /\ ActiveObjects \subseteq Index
  BY DEF ActiveSlots, ActiveObjects
<1> QED BY <1>1, <1>2, IndexSubset

(* The same bounds for the sets of the next state. *)
LEMMA NextCountsInRange ==
  /\ Cardinality(ActiveSlots') \in 0..Limit
  /\ Cardinality(ActiveObjects') \in 0..Limit
<1>1. ActiveSlots' \subseteq Index /\ ActiveObjects' \subseteq Index
  BY DEF ActiveSlots, ActiveObjects
<1> QED BY <1>1, IndexSubset

(* A kept value names a slot of the table and carries a real generation. *)
LEMMA KeptInTable ==
  ASSUME TypeOK, kept # NoHandle
  PROVE  kept.index - 1 \in Index /\ kept.generation \in Generation
BY LimitAssumption DEF TypeOK, Handle

(* native_handle_table_initialize establishes the invariant. *)
LEMMA InitIInv == Init => IInv
<1> SUFFICES ASSUME Init PROVE IInv
  OBVIOUS
<1>1. TypeOK
  <2>1. [active |-> FALSE, type |-> 0, object_index |-> 0,
         generation |-> 1] \in Slot
    BY LimitAssumption, TypeAssumption, GenAssumption DEF Slot, Generation
  <2>2. EmptyObject \in Object
    BY TypeAssumption, RefAssumption DEF Object, EmptyObject
  <2>3. slots \in [Index -> Slot] /\ objects \in [Index -> Object]
    BY <2>1, <2>2 DEF Init
  <2>4. active_handles \in 0..Limit /\ active_objects \in 0..Limit
    BY LimitAssumption DEF Init
  <2> QED BY <2>3, <2>4 DEF Init, TypeOK
<1>2. \A o \in Index : SlotsOf(o) = {}
  BY DEF Init, SlotsOf
<1>3. ActiveSlots = {} /\ ActiveObjects = {}
  BY DEF Init, ActiveSlots, ActiveObjects, EmptyObject
<1>4. ReferencesExact
  BY <1>2, <1>3, FS_EmptySet DEF Init, ReferencesExact, EmptyObject
<1>5. ResourcesOwned
  BY <1>3 DEF Init, ResourcesOwned
<1>6. KeptIsOlder
  BY DEF Init, KeptIsOlder
<1>7. ActiveTyped
  BY <1>3 DEF ActiveTyped
<1> QED BY <1>1, <1>4, <1>5, <1>6, <1>7 DEF IInv

(* native_handle_install names a fresh object from a free slot. *)
LEMMA InstallIInv ==
  ASSUME IInv, NEW t \in Type, NEW r \in Resource, native_handle_install(t, r)
  PROVE  IInv'
<1> USE LimitAssumption, TypeAssumption, GenAssumption, RefAssumption,
        ResourceAssumption
<1>0. PICK i \in Index, o \in Index :
    /\ r \notin open
    /\ i \in FreeSlots
    /\ o \in FreeObjects
    /\ objects' = [objects EXCEPT ![o] =
         [active |-> TRUE, type |-> t, references |-> 1, resource |-> r]]
    /\ slots' = [slots EXCEPT ![i] =
         [active |-> TRUE, type |-> t, object_index |-> o,
          generation |-> slots[i].generation]]
    /\ active_handles' = active_handles + 1
    /\ active_objects' = active_objects + 1
    /\ open' = open \cup {r}
    /\ UNCHANGED <<kept, lapped>>
  BY DEF native_handle_install, First
<1>1. /\ slots' \in [Index -> Slot]
      /\ objects' \in [Index -> Object]
      /\ open' \in SUBSET Resource
  <2>1. slots[i] \in Slot
    BY DEF IInv, TypeOK
  <2>2. [active |-> TRUE, type |-> t, object_index |-> o,
         generation |-> slots[i].generation] \in Slot
    BY <2>1 DEF Slot, Type
  <2>3. [active |-> TRUE, type |-> t, references |-> 1, resource |-> r] \in Object
    BY DEF Object, Type
  <2> QED BY <1>0, <2>2, <2>3 DEF IInv, TypeOK
<1>2. ~slots[i].active /\ ~objects[o].active
  BY <1>0 DEF FreeSlots, FreeObjects
<1>3. SlotsOf(o) = {}
  BY <1>2 DEF IInv, ReferencesExact
<1>4. /\ SlotsOf(o)' = {i}
      /\ \A p \in Index \ {o} : SlotsOf(p)' = SlotsOf(p)
  BY <1>0, <1>2, <1>3 DEF SlotsOf, IInv, TypeOK, Slot
<1>5. /\ ActiveSlots' = ActiveSlots \cup {i} /\ i \notin ActiveSlots
      /\ ActiveObjects' = ActiveObjects \cup {o} /\ o \notin ActiveObjects
  <2>1. /\ slots'[i].active /\ \A j \in Index \ {i} : slots'[j] = slots[j]
        /\ objects'[o].active /\ \A p \in Index \ {o} : objects'[p] = objects[p]
    BY <1>0 DEF IInv, TypeOK
  <2> QED BY <2>1, <1>2 DEF ActiveSlots, ActiveObjects
<1>6. /\ Cardinality(ActiveSlots') = Cardinality(ActiveSlots) + 1
      /\ Cardinality(ActiveObjects') = Cardinality(ActiveObjects) + 1
  BY <1>5, FS_AddElement, CountsInRange
<1>7. Cardinality(SlotsOf(o)') = 1
  BY <1>4, FS_Singleton
<1>8. ReferencesExact'
  <2>1. ASSUME NEW p \in Index
        PROVE  /\ objects'[p].references = Cardinality(SlotsOf(p)')
               /\ objects'[p].active <=> SlotsOf(p)' # {}
               /\ \A j \in SlotsOf(p)' : slots'[j].type = objects'[p].type
    <3>1. CASE p = o
      BY <3>1, <1>0, <1>4, <1>7 DEF IInv, TypeOK
    <3>2. CASE p # o
      <4>1. objects'[p] = objects[p] /\ SlotsOf(p)' = SlotsOf(p)
        BY <3>2, <1>0, <1>4 DEF IInv, TypeOK
      <4>2. \A j \in SlotsOf(p) : slots'[j] = slots[j]
        BY <1>0, <1>2 DEF SlotsOf, IInv, TypeOK
      <4> QED BY <4>1, <4>2 DEF IInv, ReferencesExact
    <3> QED BY <3>1, <3>2
  <2>2. active_handles' = Cardinality(ActiveSlots')
    BY <1>0, <1>6 DEF IInv, ReferencesExact
  <2>3. active_objects' = Cardinality(ActiveObjects')
    BY <1>0, <1>6 DEF IInv, ReferencesExact
  <2> QED BY <2>1, <2>2, <2>3 DEF ReferencesExact
<1>9. ResourcesOwned'
  <2>1. \A p \in ActiveObjects : objects'[p].resource = objects[p].resource
    BY <1>0, <1>5 DEF IInv, TypeOK, ActiveObjects
  <2>2. objects'[o].resource = r
    BY <1>0 DEF IInv, TypeOK
  <2>3. \A p \in ActiveObjects : objects[p].resource # r
    BY <1>0 DEF IInv, ResourcesOwned
  <2>4. open' = {objects'[p].resource : p \in ActiveObjects'}
    BY <2>1, <2>2, <1>0, <1>5 DEF IInv, ResourcesOwned
  <2> QED BY <2>1, <2>2, <2>3, <2>4, <1>5 DEF IInv, ResourcesOwned
<1>10. TypeOK'
  <2>1. active_handles' \in 0..Limit /\ active_objects' \in 0..Limit
    BY <1>8, NextCountsInRange DEF ReferencesExact
  <2> QED BY <1>0, <1>1, <2>1 DEF IInv, TypeOK
<1>11. KeptIsOlder'
  <2>1. \A j \in Index : slots'[j].generation = slots[j].generation
    BY <1>0 DEF IInv, TypeOK
  <2> QED BY <2>1, <1>0, KeptInTable DEF KeptIsOlder, IInv
<1>12. ActiveTyped'
  BY <1>0, <1>5 DEF ActiveTyped, IInv, TypeOK, ActiveSlots
<1> QED BY <1>8, <1>9, <1>10, <1>11, <1>12 DEF IInv

(* native_handle_duplicate gives an object one more slot and one more      *)
(* reference.                                                              *)
LEMMA DuplicateIInv ==
  ASSUME IInv, NEW h \in Handle, native_handle_duplicate(h)
  PROVE  IInv'
<1> USE LimitAssumption, TypeAssumption, GenAssumption, RefAssumption
<1>0. PICK s \in Index, i \in Index, o \in Index :
       /\ o = slots[s].object_index
       /\ slots[s].active
       /\ i \in FreeSlots
       /\ objects[o].active
       /\ objects[o].references # RefMax
       /\ objects' = [objects EXCEPT ![o] =
            [active |-> TRUE, type |-> objects[o].type,
             references |-> objects[o].references + 1,
             resource |-> objects[o].resource]]
       /\ slots' = [slots EXCEPT ![i] =
            [active |-> TRUE, type |-> slots[s].type, object_index |-> o,
             generation |-> slots[i].generation]]
       /\ active_handles' = active_handles + 1
       /\ UNCHANGED <<active_objects, open, kept, lapped>>
  <2>1. \A s \in Index : slots[s].object_index \in Index
    BY DEF IInv, TypeOK, Slot
  <2> QED BY <2>1 DEF native_handle_duplicate, decode_slot, First
<1>1. /\ slots[s] \in Slot /\ slots[i] \in Slot
      /\ o \in Index /\ objects[o] \in Object
  BY DEF IInv, TypeOK
<1>2. ~slots[i].active /\ s \in SlotsOf(o)
  BY <1>0, <1>1 DEF FreeSlots, SlotsOf
<1>3. /\ slots' \in [Index -> Slot]
      /\ objects' \in [Index -> Object]
  <2>1. [active |-> TRUE, type |-> slots[s].type, object_index |-> o,
         generation |-> slots[i].generation] \in Slot
    BY <1>1 DEF Slot
  <2>2. objects[o].references + 1 \in 0..RefMax
    BY <1>0, <1>1 DEF Object
  <2>3. [active |-> TRUE, type |-> objects[o].type,
         references |-> objects[o].references + 1,
         resource |-> objects[o].resource] \in Object
    BY <2>2, <1>1 DEF Object
  <2> QED BY <1>0, <1>1, <2>1, <2>3 DEF IInv, TypeOK
<1>4. /\ slots'[i] = [active |-> TRUE, type |-> slots[s].type,
                      object_index |-> o, generation |-> slots[i].generation]
      /\ \A j \in Index \ {i} : slots'[j] = slots[j]
      /\ objects'[o] = [active |-> TRUE, type |-> objects[o].type,
                        references |-> objects[o].references + 1,
                        resource |-> objects[o].resource]
      /\ \A p \in Index \ {o} : objects'[p] = objects[p]
  BY <1>0, <1>1 DEF IInv, TypeOK
<1>5. /\ SlotsOf(o)' = SlotsOf(o) \cup {i} /\ i \notin SlotsOf(o)
      /\ \A p \in Index \ {o} : SlotsOf(p)' = SlotsOf(p)
  BY <1>2, <1>4 DEF SlotsOf
<1>6. /\ ActiveSlots' = ActiveSlots \cup {i} /\ i \notin ActiveSlots
      /\ ActiveObjects' = ActiveObjects
  BY <1>0, <1>2, <1>4 DEF ActiveSlots, ActiveObjects
<1>7. /\ Cardinality(SlotsOf(o)') = Cardinality(SlotsOf(o)) + 1
      /\ Cardinality(ActiveSlots') = Cardinality(ActiveSlots) + 1
  BY <1>5, <1>6, FS_AddElement, CountsInRange
<1>8. ReferencesExact'
  <2>1. ASSUME NEW p \in Index
        PROVE  /\ objects'[p].references = Cardinality(SlotsOf(p)')
               /\ objects'[p].active <=> SlotsOf(p)' # {}
               /\ \A j \in SlotsOf(p)' : slots'[j].type = objects'[p].type
    <3>1. CASE p = o
      <4>1. slots[s].type = objects[o].type
        BY <1>2, <1>1 DEF IInv, ReferencesExact
      <4>2. \A j \in SlotsOf(o) : slots'[j].type = objects[o].type
        <5>1. \A j \in SlotsOf(o) : j \in Index \ {i}
          BY <1>5 DEF SlotsOf
        <5>2. \A j \in SlotsOf(o) : slots[j].type = objects[o].type
          BY <1>1 DEF IInv, ReferencesExact
        <5> QED BY <5>1, <5>2, <1>4
      <4>3. objects[o].references = Cardinality(SlotsOf(o))
        BY <1>1 DEF IInv, ReferencesExact
      <4>4. objects'[o].references = Cardinality(SlotsOf(o)')
        BY <4>3, <1>4, <1>7
      <4>5. objects'[o].active /\ SlotsOf(o)' # {}
        BY <1>4, <1>5
      <4>6. \A j \in SlotsOf(o)' : slots'[j].type = objects'[o].type
        BY <4>1, <4>2, <1>4, <1>5
      <4> QED BY <3>1, <4>4, <4>5, <4>6
    <3>2. CASE p # o
      <4>1. \A j \in SlotsOf(p) : slots'[j] = slots[j]
        BY <1>2, <1>4 DEF SlotsOf
      <4> QED BY <3>2, <4>1, <1>4, <1>5 DEF IInv, ReferencesExact
    <3> QED BY <3>1, <3>2
  <2> QED BY <2>1, <1>0, <1>6, <1>7 DEF IInv, ReferencesExact
<1>9. ResourcesOwned'
  <2>1. \A p \in Index : objects'[p].resource = objects[p].resource
    BY <1>4
  <2> QED BY <2>1, <1>0, <1>6 DEF IInv, ResourcesOwned, ActiveObjects
<1>10. TypeOK'
  <2>1. active_handles' \in 0..Limit /\ active_objects' \in 0..Limit
    BY <1>8, NextCountsInRange DEF ReferencesExact
  <2> QED BY <1>0, <1>3, <2>1 DEF IInv, TypeOK
<1>11. KeptIsOlder'
  <2>1. \A j \in Index : slots'[j].generation = slots[j].generation
    BY <1>4
  <2> QED BY <2>1, <1>0, KeptInTable DEF KeptIsOlder, IInv
<1>12. ActiveTyped'
  <2>1. s \in ActiveSlots
    BY <1>0 DEF ActiveSlots
  <2> QED BY <2>1, <1>4, <1>6 DEF ActiveTyped, IInv, ActiveSlots
<1> QED BY <1>8, <1>9, <1>10, <1>11, <1>12 DEF IInv

(* What closing a set of slots does to a kept value: an older generation   *)
(* stays older unless the slot's counter overflows.                        *)
LEMMA CloseKeepsOlder ==
  ASSUME TypeOK, ActiveTyped, KeptIsOlder,
         NEW gone \in SUBSET ActiveSlots, Remember(gone),
         \A i \in Index : slots'[i] = IF i \in gone THEN ClosedSlot(slots[i])
                                                  ELSE slots[i]
  PROVE  /\ KeptIsOlder'
         /\ kept' \in Handle \cup {NoHandle}
         /\ lapped' \in BOOLEAN
<1> USE LimitAssumption, GenAssumption
<1>1. \A i \in Index : slots[i].generation \in 1..GenMax
  BY DEF TypeOK, Slot, Generation
<1>2. \A i \in gone : /\ i \in Index
                      /\ slots'[i].generation = NextGeneration(slots[i].generation)
  <2>1. \A i \in gone : i \in Index
    BY DEF ActiveSlots
  <2>2. \A i \in gone : slots'[i] = ClosedSlot(slots[i])
    BY <2>1
  <2>3. \A x : ClosedSlot(x).generation = NextGeneration(x.generation)
    BY DEF ClosedSlot
  <2> QED BY <2>1, <2>2, <2>3
<1>3. CASE \E i \in gone : /\ kept' = HandleOf(i)
                           /\ lapped' = (slots[i].generation = GenMax)
  <2>1. PICK i \in gone : /\ kept' = HandleOf(i)
                          /\ lapped' = (slots[i].generation = GenMax)
    BY <1>3
  <2>2. kept'.index - 1 = i /\ kept'.generation = slots[i].generation
    BY <2>1, <1>2 DEF HandleOf, encode_handle
  <2>3. ~lapped' => slots'[i].generation = slots[i].generation + 1
    BY <2>1, <1>2 DEF NextGeneration
  <2>4. KeptIsOlder'
    BY <2>2, <2>3, <1>1, <1>2 DEF KeptIsOlder
  <2>5. slots[i] \in Slot /\ slots[i].active
    BY <1>2 DEF TypeOK, ActiveSlots
  <2>6. kept' \in Handle \cup {NoHandle}
    <3>1. slots[i].type \in Type /\ slots[i].generation \in Generation
      BY <2>5 DEF ActiveTyped, Slot
    <3>2. i + 1 \in 1..Limit
      BY <1>2
    <3> QED BY <2>1, <3>1, <3>2 DEF HandleOf, encode_handle, Handle
  <2> QED BY <2>1, <2>4, <2>6
<1>4. CASE /\ kept' = kept
           /\ lapped' = \/ lapped
                        \/ \E i \in gone : /\ kept # NoHandle
                                          /\ kept.index = i + 1
                                          /\ slots[i].generation = GenMax
  <2>1. CASE kept # NoHandle /\ ~lapped'
    <3>1. ~lapped /\ kept.index - 1 \in Index
          /\ kept.generation < slots[kept.index - 1].generation
          /\ kept.generation \in Generation
      BY <2>1, <1>4, KeptInTable DEF KeptIsOlder
    <3>2. kept.index - 1 \in gone =>
            slots[kept.index - 1].generation # GenMax
      BY <2>1, <1>4, <1>2, <3>1 DEF TypeOK, Handle
    <3>3. slots'[kept.index - 1].generation >= slots[kept.index - 1].generation
      BY <3>1, <3>2, <1>1, <1>2 DEF NextGeneration
    <3>4. slots'[kept.index - 1].generation \in Int
      BY <3>1, <1>1, <1>2 DEF NextGeneration
    <3> QED BY <3>1, <3>3, <3>4, <1>1, <1>4 DEF KeptIsOlder, TypeOK, Generation
  <2>2. CASE ~(kept # NoHandle /\ ~lapped')
    BY <2>2, <1>4 DEF KeptIsOlder, TypeOK
  <2> QED BY <2>1, <2>2
<1> QED BY <1>3, <1>4 DEF Remember

(* native_handle_close removes one slot from its object, and the object    *)
(* with it exactly when that slot was the last.                            *)
LEMMA CloseIInv ==
  ASSUME IInv, NEW h \in Handle, native_handle_close(h)
  PROVE  IInv'
<1> USE LimitAssumption, TypeAssumption, GenAssumption, RefAssumption
<1>0. PICK i \in Index, o \in Index :
       /\ o = slots[i].object_index
       /\ slots[i].active
       /\ objects[o].active
       /\ objects[o].references # 0
       /\ slots' = [slots EXCEPT ![i] = ClosedSlot(slots[i])]
       /\ objects' = [objects EXCEPT ![o] = Dropped(objects[o])]
       /\ active_handles' = active_handles - 1
       /\ active_objects' = IF objects[o].references = 1
                            THEN active_objects - 1 ELSE active_objects
       /\ open' = IF objects[o].references = 1
                  THEN open \ {objects[o].resource} ELSE open
       /\ Remember({i})
  <2>1. \A s \in Index : slots[s].object_index \in Index
    BY DEF IInv, TypeOK, Slot
  <2> QED BY <2>1 DEF native_handle_close, decode_slot
<1>1. slots[i] \in Slot /\ objects[o] \in Object
  BY DEF IInv, TypeOK
<1>2. i \in SlotsOf(o) /\ i \in ActiveSlots /\ o \in ActiveObjects
  BY <1>0 DEF SlotsOf, ActiveSlots, ActiveObjects
<1>3. /\ slots' \in [Index -> Slot]
      /\ objects' \in [Index -> Object]
  <2>1. NextGeneration(slots[i].generation) \in Generation
    BY <1>1 DEF Slot, Generation, NextGeneration
  <2>2. ClosedSlot(slots[i]) \in Slot
    BY <2>1 DEF Slot, ClosedSlot
  <2>3. EmptyObject \in Object
    BY DEF Object, EmptyObject
  <2>4. CASE objects[o].references = 1
    BY <1>0, <2>2, <2>3, <2>4 DEF IInv, TypeOK, Dropped
  <2>5. CASE objects[o].references # 1
    <3>1. objects[o].references - 1 \in 0..RefMax
      BY <1>0, <1>1 DEF Object
    <3>2. Dropped(objects[o]) \in Object
      BY <2>5, <3>1, <1>1 DEF Object, Dropped
    <3> QED BY <1>0, <2>2, <3>2 DEF IInv, TypeOK
  <2> QED BY <2>4, <2>5
<1>4. /\ ~slots'[i].active
      /\ \A j \in Index \ {i} : slots'[j] = slots[j]
      /\ objects'[o] = Dropped(objects[o])
      /\ \A p \in Index \ {o} : objects'[p] = objects[p]
  BY <1>0 DEF IInv, TypeOK, ClosedSlot
<1>5. /\ SlotsOf(o)' = SlotsOf(o) \ {i}
      /\ \A p \in Index \ {o} : SlotsOf(p)' = SlotsOf(p) /\ i \notin SlotsOf(p)
  BY <1>0, <1>4 DEF SlotsOf
<1>6. ActiveSlots' = ActiveSlots \ {i}
  BY <1>2, <1>4 DEF ActiveSlots
<1>7. /\ Cardinality(SlotsOf(o)') = Cardinality(SlotsOf(o)) - 1
      /\ Cardinality(ActiveSlots') = Cardinality(ActiveSlots) - 1
  BY <1>2, <1>5, <1>6, FS_RemoveElement, CountsInRange
<1>8. objects[o].references = Cardinality(SlotsOf(o))
  BY DEF IInv, ReferencesExact
<1>9. \A p \in Index \ {o} :
        /\ objects'[p].references = Cardinality(SlotsOf(p)')
        /\ objects'[p].active <=> SlotsOf(p)' # {}
        /\ \A j \in SlotsOf(p)' : slots'[j].type = objects'[p].type
  <2>1. \A p \in Index \ {o} : \A j \in SlotsOf(p) : slots'[j] = slots[j]
    BY <1>4, <1>5 DEF SlotsOf
  <2> QED BY <2>1, <1>4, <1>5 DEF IInv, ReferencesExact
<1>10. \A j \in SlotsOf(o)' : slots'[j].type = objects[o].type
  <2>1. \A j \in SlotsOf(o)' : j \in SlotsOf(o) /\ slots'[j] = slots[j]
    BY <1>4, <1>5 DEF SlotsOf
  <2> QED BY <2>1 DEF IInv, ReferencesExact
<1>11. /\ objects'[o].references = Cardinality(SlotsOf(o)')
       /\ objects'[o].active <=> SlotsOf(o)' # {}
       /\ \A j \in SlotsOf(o)' : slots'[j].type = objects'[o].type
       /\ active_objects' = Cardinality(ActiveObjects')
       /\ ResourcesOwned'
  <2>1. CASE objects[o].references = 1
    <3>1. SlotsOf(o)' = {} /\ Cardinality(SlotsOf(o)') = 0
      <4>1. Cardinality(SlotsOf(o)') = 0
        BY <2>1, <1>7, <1>8
      <4>2. IsFiniteSet(SlotsOf(o)')
        BY IndexSubset DEF SlotsOf
      <4> QED BY <4>1, <4>2, FS_EmptySet
    <3>2. objects'[o] = EmptyObject
      BY <2>1, <1>4 DEF Dropped
    <3>3. ActiveObjects' = ActiveObjects \ {o}
      BY <3>2, <1>4 DEF ActiveObjects, EmptyObject
    <3>4. Cardinality(ActiveObjects') = Cardinality(ActiveObjects) - 1
      BY <3>3, <1>2, FS_RemoveElement, CountsInRange
    <3>5. active_objects' = Cardinality(ActiveObjects')
      BY <2>1, <1>0, <3>4 DEF IInv, ReferencesExact
    <3>6. \A p \in ActiveObjects' : /\ p \in ActiveObjects /\ p # o
                                    /\ objects'[p].resource = objects[p].resource
      BY <3>3, <1>4 DEF ActiveObjects
    <3>7. \A p \in ActiveObjects : p # o => p \in ActiveObjects'
                                      /\ objects[p].resource # objects[o].resource
      BY <3>3, <1>2 DEF IInv, ResourcesOwned
    <3>8. open' = {objects[p].resource : p \in ActiveObjects} \ {objects[o].resource}
      BY <2>1, <1>0 DEF IInv, ResourcesOwned
    <3>9. open' = {objects'[p].resource : p \in ActiveObjects'}
      BY <3>6, <3>7, <3>8
    <3>10. ResourcesOwned'
      BY <3>6, <3>9 DEF IInv, ResourcesOwned
    <3> QED BY <3>1, <3>2, <3>5, <3>10 DEF EmptyObject
  <2>2. CASE objects[o].references # 1
    <3>1. objects'[o] = [active |-> TRUE, type |-> objects[o].type,
                         references |-> objects[o].references - 1,
                         resource |-> objects[o].resource]
      BY <2>2, <1>4 DEF Dropped
    <3>2. SlotsOf(o)' # {}
      <4>1. Cardinality(SlotsOf(o)') # 0
        BY <2>2, <1>0, <1>7, <1>8, CountsInRange
      <4> QED BY <4>1, FS_EmptySet
    <3>3. ActiveObjects' = ActiveObjects
      BY <3>1, <1>0, <1>4 DEF ActiveObjects
    <3>4. \A p \in Index : objects'[p].resource = objects[p].resource
      BY <3>1, <1>4
    <3>5. ResourcesOwned'
      BY <2>2, <1>0, <3>3, <3>4 DEF IInv, ResourcesOwned, ActiveObjects
    <3>6. active_objects' = Cardinality(ActiveObjects')
      BY <2>2, <1>0, <3>3 DEF IInv, ReferencesExact
    <3>7. objects'[o].references = Cardinality(SlotsOf(o)')
      BY <3>1, <1>7, <1>8
    <3> QED BY <3>1, <3>2, <3>5, <3>6, <3>7, <1>10
  <2> QED BY <2>1, <2>2
<1>12. ReferencesExact'
  <2>1. active_handles' = Cardinality(ActiveSlots')
    BY <1>0, <1>7 DEF IInv, ReferencesExact
  <2>2. \A p \in Index :
          /\ objects'[p].references = Cardinality(SlotsOf(p)')
          /\ objects'[p].active <=> SlotsOf(p)' # {}
          /\ \A j \in SlotsOf(p)' : slots'[j].type = objects'[p].type
    BY <1>9, <1>11
  <2> QED BY <2>1, <2>2, <1>11 DEF ReferencesExact
<1>13. KeptIsOlder' /\ kept' \in Handle \cup {NoHandle} /\ lapped' \in BOOLEAN
  <2>1. \A j \in Index : slots'[j] = IF j \in {i} THEN ClosedSlot(slots[j])
                                                 ELSE slots[j]
    BY <1>0 DEF IInv, TypeOK
  <2>2. {i} \in SUBSET ActiveSlots
    BY <1>2
  <2> QED BY <2>1, <2>2, <1>0, CloseKeepsOlder DEF IInv
<1>14. TypeOK'
  <2>1. active_handles' \in 0..Limit /\ active_objects' \in 0..Limit
    BY <1>12, NextCountsInRange DEF ReferencesExact
  <2>2. open' \in SUBSET Resource
    BY <1>0 DEF IInv, TypeOK
  <2> QED BY <1>3, <1>13, <2>1, <2>2 DEF TypeOK
<1>15. ActiveTyped'
  BY <1>4, <1>6 DEF ActiveTyped, IInv, ActiveSlots
<1> QED BY <1>11, <1>12, <1>13, <1>14, <1>15 DEF IInv

(* The slots naming an object have a highest one: the slot at which        *)
(* native_handle_close_all meets the object's last reference.              *)
LEMMA LastSlotExists ==
  ASSUME NEW o, SlotsOf(o) # {}
  PROVE  \E i \in SlotsOf(o) : LastSlotOf(o, i)
<1> DEFINE T == {n \in Nat : \E i \in SlotsOf(o) : n = Limit - i}
<1>1. \A i \in SlotsOf(o) : i \in 0..(Limit - 1)
  BY DEF SlotsOf
<1>2. T \subseteq Nat /\ T # {}
  BY <1>1, LimitAssumption
<1>3. \E R : /\ IsWellFoundedOn(R, Nat)
             /\ \A y \in Nat, z \in Nat : y < z => <<y, z>> \in R
  <2>1. \A y \in Nat, z \in Nat : y < z => <<y, z>> \in OpToRel(<, Nat)
    BY Zenon DEF OpToRel
  <2> QED BY <2>1, NatLessThanWellFounded, Zenon
<1>4. PICK x \in T : \A y \in T : x <= y
  <2>1. PICK R : /\ IsWellFoundedOn(R, Nat)
                 /\ \A y \in Nat, z \in Nat : y < z => <<y, z>> \in R
    BY <1>3
  <2>2. PICK x \in T : \A y \in T : ~(<<y, x>> \in R)
    BY <1>2, <2>1, WFMin
  <2>3. ASSUME NEW y \in T PROVE x <= y
    <3>1. x \in Nat /\ y \in Nat
      BY <1>2
    <3>2. ~(y < x)
      BY <3>1, <2>1, <2>2
    <3> QED BY <3>1, <3>2
  <2> QED BY <2>3
<1>5. PICK i \in SlotsOf(o) : x = Limit - i
  OBVIOUS
<1>6. \A j \in SlotsOf(o) : j <= i
  <2> TAKE j \in SlotsOf(o)
  <2>1. Limit - j \in T
    BY <1>1, LimitAssumption
  <2> QED BY <2>1, <1>1, <1>4, <1>5, LimitAssumption
<1> QED BY <1>5, <1>6 DEF LastSlotOf

(* native_handle_close_all leaves exactly the objects whose close callback *)
(* refused, each with one reference.                                       *)
LEMMA CloseAllIInv ==
  ASSUME IInv, NEW refusing \in SUBSET ActiveObjects,
         native_handle_close_all(refusing)
  PROVE  IInv'
<1> USE LimitAssumption, TypeAssumption, GenAssumption, RefAssumption
<1> DEFINE Keeps(i) == \E o \in refusing : LastSlotOf(o, i)
<1>0. PICK gone \in SUBSET ActiveSlots :
     /\ gone = {i \in ActiveSlots : ~Keeps(i)}
     /\ slots' = [i \in Index |->
          IF i \in gone THEN ClosedSlot(slots[i]) ELSE slots[i]]
     /\ objects' = [o \in Index |->
          IF o \notin ActiveObjects THEN objects[o]
          ELSE IF o \in refusing
               THEN [active |-> TRUE, type |-> objects[o].type,
                     references |-> 1, resource |-> objects[o].resource]
               ELSE EmptyObject]
     /\ active_handles' = active_handles - Cardinality(gone)
     /\ active_objects' =
          active_objects - Cardinality(ActiveObjects \ refusing)
     /\ open' = open \ {objects[o].resource : o \in ActiveObjects \ refusing}
     /\ Remember(gone)
  <2>1. ActiveSlots \subseteq Index
    BY CountsInRange
  <2>2. ActiveSlots \ {i \in Index : Keeps(i)} = {i \in ActiveSlots : ~Keeps(i)}
    BY <2>1
  <2> QED BY <2>2 DEF native_handle_close_all
<1>1. /\ ActiveSlots \subseteq Index /\ ActiveObjects \subseteq Index
      /\ gone \subseteq Index /\ refusing \subseteq Index
  BY CountsInRange
<1>2. \A i \in Index : slots'[i].active <=> slots[i].active /\ i \notin gone
  BY <1>0 DEF ClosedSlot, ActiveSlots
<1>3. \A i \in Index \ gone : slots'[i] = slots[i]
  BY <1>0
<1>4. /\ \A o \in refusing :
           /\ objects'[o].active
           /\ objects'[o].references = 1
           /\ objects'[o].type = objects[o].type
           /\ objects'[o].resource = objects[o].resource
      /\ \A o \in ActiveObjects \ refusing : objects'[o] = EmptyObject
      /\ \A o \in Index \ ActiveObjects : objects'[o] = objects[o]
  <2>1. ASSUME NEW o \in refusing
        PROVE  /\ objects'[o].active
               /\ objects'[o].references = 1
               /\ objects'[o].type = objects[o].type
               /\ objects'[o].resource = objects[o].resource
    <3>1. o \in Index /\ o \in ActiveObjects
      BY <1>1
    <3>2. objects'[o] = [active |-> TRUE, type |-> objects[o].type,
                         references |-> 1, resource |-> objects[o].resource]
      BY <3>1, <1>0
    <3> QED BY <3>2
  <2> QED BY <2>1, <1>0, <1>1
<1>5. ActiveSlots' = ActiveSlots \ gone
  BY <1>2 DEF ActiveSlots
<1>6. ActiveObjects' = ActiveObjects \ (ActiveObjects \ refusing)
  <2>1. \A o \in Index : objects'[o].active <=> o \in refusing
    <3> TAKE o \in Index
    <3>1. CASE o \in refusing
      BY <3>1, <1>4
    <3>2. CASE o \in ActiveObjects \ refusing
      BY <3>2, <1>4 DEF EmptyObject
    <3>3. CASE o \notin ActiveObjects
      BY <3>3, <1>4 DEF ActiveObjects
    <3> QED BY <3>1, <3>2, <3>3
  <2> QED BY <2>1, <1>1 DEF ActiveObjects
<1>7. /\ Cardinality(ActiveSlots') = Cardinality(ActiveSlots) - Cardinality(gone)
      /\ Cardinality(ActiveObjects') =
           Cardinality(ActiveObjects) - Cardinality(ActiveObjects \ refusing)
  <2>1. ActiveSlots \cap gone = gone
    OBVIOUS
  <2>2. ActiveObjects \cap (ActiveObjects \ refusing) = ActiveObjects \ refusing
    OBVIOUS
  <2> QED BY <2>1, <2>2, <1>5, <1>6, FS_Difference, CountsInRange
<1>8. \A o \in refusing : \E m \in SlotsOf(o) : SlotsOf(o)' = {m}
  <2> TAKE o \in refusing
  <2>1. SlotsOf(o) # {}
    BY <1>1 DEF IInv, ReferencesExact, ActiveObjects
  <2>2. PICK m \in SlotsOf(o) : LastSlotOf(o, m)
    BY <2>1, LastSlotExists
  <2>3. m \in SlotsOf(o)'
    BY <2>2, <1>0, <1>2, <1>3 DEF SlotsOf
  <2>4. ASSUME NEW j \in SlotsOf(o)' PROVE j = m
    <3>1. j \in Index /\ slots[j].active /\ j \notin gone
          /\ slots[j].object_index = o
      BY <1>2, <1>3 DEF SlotsOf
    <3>2. PICK p \in refusing : LastSlotOf(p, j)
      BY <3>1, <1>0 DEF ActiveSlots
    <3>3. LastSlotOf(o, j)
      BY <3>1, <3>2 DEF LastSlotOf, SlotsOf
    <3> QED BY <2>2, <3>3 DEF LastSlotOf, SlotsOf
  <2> QED BY <2>2, <2>3, <2>4
<1>9. \A o \in Index \ refusing : SlotsOf(o)' = {}
  <2> TAKE o \in Index \ refusing
  <2>1. ASSUME NEW j \in SlotsOf(o)' PROVE FALSE
    <3>1. j \in Index /\ slots[j].active /\ j \notin gone
          /\ slots[j].object_index = o
      BY <1>2, <1>3 DEF SlotsOf
    <3>2. PICK p \in refusing : LastSlotOf(p, j)
      BY <3>1, <1>0 DEF ActiveSlots
    <3> QED BY <3>1, <3>2 DEF LastSlotOf, SlotsOf
  <2> QED BY <2>1
<1>10. ASSUME NEW o \in Index
       PROVE  /\ objects'[o].references = Cardinality(SlotsOf(o)')
              /\ objects'[o].active <=> SlotsOf(o)' # {}
              /\ \A j \in SlotsOf(o)' : slots'[j].type = objects'[o].type
  <2>1. CASE o \in refusing
    <3>1. PICK m \in SlotsOf(o) : SlotsOf(o)' = {m}
      BY <1>8, <2>1
    <3>2. Cardinality(SlotsOf(o)') = 1
      BY <3>1, FS_Singleton
    <3>3. slots'[m].type = objects[o].type
      <4>1. m \in Index /\ slots'[m].active
        BY <3>1 DEF SlotsOf
      <4>2. slots'[m] = slots[m]
        BY <4>1, <1>2, <1>3
      <4> QED BY <4>2, <3>1 DEF IInv, ReferencesExact
    <3>4. objects'[o].active /\ objects'[o].references = 1
          /\ objects'[o].type = objects[o].type
      BY <2>1, <1>4
    <3> QED BY <3>1, <3>2, <3>3, <3>4
  <2>2. CASE o \in ActiveObjects \ refusing
    BY <2>2, <1>4, <1>9, FS_EmptySet DEF EmptyObject
  <2>3. CASE o \notin ActiveObjects
    <3>1. objects'[o] = objects[o] /\ ~objects[o].active
      BY <2>3, <1>4 DEF ActiveObjects
    <3>2. SlotsOf(o) = {}
      BY <3>1 DEF IInv, ReferencesExact
    <3>3. objects[o].references = 0
      BY <3>2, FS_EmptySet DEF IInv, ReferencesExact
    <3>4. SlotsOf(o)' = {}
      BY <2>3, <1>9
    <3> QED BY <3>1, <3>3, <3>4, FS_EmptySet
  <2> QED BY <2>1, <2>2, <2>3
<1>11. ReferencesExact'
  BY <1>0, <1>7, <1>10 DEF IInv, ReferencesExact
<1>12. ResourcesOwned'
  <2>1. ActiveObjects' = refusing
    BY <1>6
  <2>2. \A o \in refusing : objects'[o].resource = objects[o].resource
    <3> TAKE o \in refusing
    <3> QED BY <1>4
  <2>3. open' = {objects[o].resource : o \in refusing}
    BY <1>0 DEF IInv, ResourcesOwned
  <2> QED BY <2>1, <2>2, <2>3 DEF IInv, ResourcesOwned
<1>13. KeptIsOlder' /\ kept' \in Handle \cup {NoHandle} /\ lapped' \in BOOLEAN
  <2>1. \A j \in Index : slots'[j] = IF j \in gone THEN ClosedSlot(slots[j])
                                                  ELSE slots[j]
    BY <1>0
  <2> QED BY <2>1, <1>0, CloseKeepsOlder DEF IInv
<1>14. slots' \in [Index -> Slot] /\ objects' \in [Index -> Object]
  <2>1. \A i \in Index : ClosedSlot(slots[i]) \in Slot
    <3> TAKE i \in Index
    <3>1. slots[i].generation \in Generation
      BY DEF IInv, TypeOK, Slot
    <3>2. NextGeneration(slots[i].generation) \in Generation
      BY <3>1 DEF Generation, NextGeneration
    <3> QED BY <3>2 DEF Slot, ClosedSlot
  <2>2. EmptyObject \in Object
    BY DEF Object, EmptyObject
  <2>3. \A o \in Index :
          [active |-> TRUE, type |-> objects[o].type, references |-> 1,
           resource |-> objects[o].resource] \in Object
    <3> TAKE o \in Index
    <3>1. objects[o] \in Object /\ 1 \in 0..RefMax
      BY DEF IInv, TypeOK
    <3> QED BY <3>1 DEF Object
  <2>4. slots' \in [Index -> Slot]
    BY <1>0, <2>1 DEF IInv, TypeOK
  <2>5. objects' \in [Index -> Object]
    BY <1>0, <2>2, <2>3 DEF IInv, TypeOK
  <2> QED BY <2>4, <2>5
<1>15. TypeOK'
  <2>1. active_handles' \in 0..Limit /\ active_objects' \in 0..Limit
    BY <1>11, NextCountsInRange DEF ReferencesExact
  <2>2. open' \in SUBSET Resource
    BY <1>0 DEF IInv, TypeOK
  <2> QED BY <1>13, <1>14, <2>1, <2>2 DEF TypeOK
<1>16. ActiveTyped'
  BY <1>1, <1>3, <1>5 DEF ActiveTyped, IInv
<1> QED BY <1>11, <1>12, <1>13, <1>15, <1>16 DEF IInv

-----------------------------------------------------------------------------
(* The strengthened invariant holds in every reachable state.  *)
THEOREM Inductive == Spec => []IInv
<1>1. IInv /\ [Next]_vars => IInv'
  <2> SUFFICES ASSUME IInv, [Next]_vars PROVE IInv'
    OBVIOUS
  <2>1. CASE UNCHANGED vars
    <3> USE <2>1 DEF vars
    <3>1. /\ ActiveSlots' = ActiveSlots
          /\ ActiveObjects' = ActiveObjects
          /\ \A o : SlotsOf(o)' = SlotsOf(o)
      BY DEF SlotsOf, ActiveSlots, ActiveObjects
    <3>2. TypeOK'
      BY DEF IInv, TypeOK
    <3>3. ReferencesExact'
      BY <3>1 DEF IInv, ReferencesExact
    <3>4. ResourcesOwned' /\ ActiveTyped'
      BY <3>1 DEF IInv, ResourcesOwned, ActiveTyped
    <3>5. KeptIsOlder'
      BY DEF IInv, KeptIsOlder
    <3> QED BY <3>2, <3>3, <3>4, <3>5 DEF IInv
  <2>2. ASSUME NEW t \in Type, NEW r \in Resource, native_handle_install(t, r)
        PROVE  IInv'
    BY <2>2, InstallIInv
  <2>3. ASSUME NEW h \in Handle, native_handle_duplicate(h) PROVE IInv'
    BY <2>3, DuplicateIInv
  <2>4. ASSUME NEW h \in Handle, native_handle_close(h) PROVE IInv'
    BY <2>4, CloseIInv
  <2>5. ASSUME NEW refusing \in SUBSET ActiveObjects,
               native_handle_close_all(refusing)
        PROVE  IInv'
    BY <2>5, CloseAllIInv
  <2> QED BY <2>1, <2>2, <2>3, <2>4, <2>5 DEF Next
<1> QED BY <1>1, InitIInv, PTL DEF Spec

(* Type correctness of the table, for every limit and generation width. *)
THEOREM TypeCorrect == Spec => []TypeOK
<1>1. IInv => TypeOK
  BY DEF IInv
<1> QED BY <1>1, Inductive, PTL

(* Reference counts, object lifetimes and table counters are exact after   *)
(* every sequence of install, duplicate, close and close_all.              *)
THEOREM BooksExact == Spec => []ReferencesExact
<1>1. IInv => ReferencesExact
  BY DEF IInv
<1> QED BY <1>1, Inductive, PTL

(* No resource is leaked, released early or owned twice. *)
THEOREM Ownership == Spec => []ResourcesOwned
<1>1. IInv => ResourcesOwned
  BY DEF IInv
<1> QED BY <1>1, Inductive, PTL

(* A closed value stays stale as long as its slot's generation counter has *)
(* not overflowed since.                                                   *)
THEOREM StaleForALap == Spec => []ClosedStaysStale
<1>1. IInv => ClosedStaysStale
  <2> SUFFICES ASSUME IInv, kept # NoHandle, ~lapped,
                      NEW i \in Index, decode_slot(kept, i)
               PROVE  FALSE
    BY DEF ClosedStaysStale
  <2>1. kept.generation < slots[i].generation
    BY DEF IInv, KeptIsOlder, decode_slot
  <2>2. kept.generation = slots[i].generation /\ slots[i].generation \in Int
    BY DEF IInv, TypeOK, Slot, Generation, decode_slot
  <2> QED BY <2>1, <2>2
<1> QED BY <1>1, Inductive, PTL

-----------------------------------------------------------------------------
(* The table implements HandleCapability.  Below, the handle value of a    *)
(* slot and what it names are looked at slot by slot.                      *)
Name(i) == objects[slots[i].object_index].resource

(* Handle values of different slots differ in their index bits. *)
LEMMA HandlesDiffer ==
  ASSUME NEW i \in Index, NEW j \in Index, HandleOf(i) = HandleOf(j)
  PROVE  i = j
BY DEF HandleOf, encode_handle

LEMMA HandlesReal ==
  ASSUME IInv, NEW i \in ActiveSlots
  PROVE  i \in Index /\ HandleOf(i) \in Handle /\ HandleOf(i).index - 1 = i
<1>1. i \in Index /\ slots[i] \in Slot /\ slots[i].type \in Type
  BY DEF ActiveSlots, IInv, TypeOK, ActiveTyped
<1>2. i + 1 \in 1..Limit /\ (i + 1) - 1 = i
  BY <1>1, LimitAssumption
<1> QED BY <1>1, <1>2 DEF HandleOf, encode_handle, Handle, Slot

(* What names says, before and after a step. *)
LEMMA NamesAre ==
  ASSUME IInv
  PROVE  /\ DOMAIN names = {HandleOf(i) : i \in ActiveSlots}
         /\ \A i \in ActiveSlots : names[HandleOf(i)] = Name(i)
         /\ names = [h \in DOMAIN names |-> names[h]]
BY HandlesReal DEF names, Name

(* A value that decodes to a slot is the slot's handle value. *)
LEMMA DecodeNames ==
  ASSUME NEW h \in Handle, NEW i \in Index, decode_slot(h, i)
  PROVE  i \in ActiveSlots /\ h = HandleOf(i)
<1>1. /\ i \in ActiveSlots /\ h.index = i + 1
      /\ h.type = slots[i].type /\ h.generation = slots[i].generation
  <2>1. h.index \in 1..Limit /\ i = h.index - 1
    BY DEF Handle, decode_slot
  <2>2. h.index = i + 1
    BY <2>1, LimitAssumption
  <2> QED BY <2>2 DEF decode_slot, ActiveSlots
<1> QED BY <1>1 DEF HandleOf, encode_handle, Handle

(* A resource is open exactly while some handle value names it. *)
LEMMA OpenNamed ==
  ASSUME IInv
  PROVE  open = Capability!Named(names)
<1>1. \A i \in ActiveSlots : /\ slots[i].object_index \in ActiveObjects
                             /\ i \in SlotsOf(slots[i].object_index)
  <2> TAKE i \in ActiveSlots
  <2>1. i \in Index /\ slots[i].active /\ slots[i].object_index \in Index
    BY DEF ActiveSlots, IInv, TypeOK, Slot
  <2>2. i \in SlotsOf(slots[i].object_index)
    BY <2>1 DEF SlotsOf
  <2> QED BY <2>1, <2>2 DEF IInv, ReferencesExact, ActiveObjects
<1>2. \A o \in ActiveObjects : \E i \in ActiveSlots : slots[i].object_index = o
  BY DEF IInv, ReferencesExact, ActiveObjects, SlotsOf, ActiveSlots
<1>3. open = {Name(i) : i \in ActiveSlots}
  BY <1>1, <1>2 DEF IInv, ResourcesOwned, Name
<1>4. Capability!Named(names) = {Name(i) : i \in ActiveSlots}
  BY NamesAre DEF Capability!Named
<1> QED BY <1>3, <1>4

(* The view of the table that the contract takes, in this and, as the      *)
(* invariant is kept, in the next state.                                   *)
Viewed ==
  /\ open = Capability!Named(names)
  /\ DOMAIN names = {HandleOf(i) : i \in ActiveSlots}
  /\ \A i \in ActiveSlots : /\ names[HandleOf(i)] = Name(i)
                            /\ i \in Index /\ HandleOf(i) \in Handle
  /\ names = [h \in DOMAIN names |-> names[h]]

LEMMA View == IInv => Viewed
BY OpenNamed, NamesAre, HandlesReal DEF Viewed

LEMMA NextView == IInv' => Viewed'
BY View, PTL

(* One more slot in use, and the others as they were: one more name. *)
LEMMA OneMoreName ==
  ASSUME IInv, IInv', NEW i \in Index, ActiveSlots' = ActiveSlots \cup {i},
         i \notin ActiveSlots,
         \A j \in ActiveSlots : slots'[j] = slots[j] /\ Name(j)' = Name(j)
  PROVE  /\ HandleOf(i)' \in Handle \ DOMAIN names
         /\ names' = [x \in DOMAIN names \cup {HandleOf(i)'} |->
                        IF x = HandleOf(i)' THEN Name(i)' ELSE names[x]]
<1>1. Viewed /\ Viewed'
  BY View, NextView
<1>2. \A j \in ActiveSlots : HandleOf(j)' = HandleOf(j)
  BY DEF HandleOf
<1>3. PICK h : h = HandleOf(i)'
  OBVIOUS
<1>4. \A j \in ActiveSlots : HandleOf(j) # h
  <2> SUFFICES ASSUME NEW j \in ActiveSlots, HandleOf(j) = h PROVE FALSE
    OBVIOUS
  <2>1. j + 1 = i + 1 /\ j \in Index
    BY <1>1, <1>3 DEF HandleOf, encode_handle, Viewed
  <2> QED BY <2>1
<1>5. h \in Handle /\ h \notin DOMAIN names
  BY <1>1, <1>3, <1>4 DEF Viewed
<1>6. DOMAIN names' = DOMAIN names \cup {h}
  BY <1>1, <1>2, <1>3 DEF Viewed
<1>7. \A x \in DOMAIN names' : names'[x] = IF x = h THEN Name(i)' ELSE names[x]
  <2> TAKE x \in DOMAIN names'
  <2>1. CASE x = h
    BY <1>1, <1>3, <2>1 DEF Viewed
  <2>2. CASE x # h
    <3>1. PICK j \in ActiveSlots : x = HandleOf(j)
      BY <1>1, <1>6, <2>2 DEF Viewed
    <3>2. names'[HandleOf(j)'] = Name(j)'
      BY <1>1 DEF Viewed
    <3> QED BY <1>1, <1>2, <2>2, <3>1, <3>2 DEF Viewed
  <2> QED BY <2>1, <2>2
<1>8. names' = [x \in DOMAIN names' |-> names'[x]]
  BY <1>1 DEF Viewed
<1>9. names' = [x \in DOMAIN names \cup {h} |-> IF x = h THEN Name(i)' ELSE names[x]]
  BY <1>6, <1>7, <1>8
<1> QED BY <1>3, <1>5, <1>9

(* Slots closed, and the others as they were: their names are revoked. *)
LEMMA FewerNames ==
  ASSUME IInv, IInv', NEW gone \in SUBSET ActiveSlots, gone # {},
         ActiveSlots' = ActiveSlots \ gone,
         \A j \in ActiveSlots \ gone : slots'[j] = slots[j] /\ Name(j)' = Name(j)
  PROVE  \E revoked \in SUBSET (DOMAIN names) : Capability!Revoke(revoked)
<1>1. Viewed /\ Viewed'
  BY View, NextView
<1>2. \A j \in ActiveSlots \ gone : HandleOf(j)' = HandleOf(j)
  BY DEF HandleOf
<1> DEFINE revoked == {HandleOf(i) : i \in gone}
<1>3. revoked \subseteq DOMAIN names /\ revoked # {}
  BY <1>1 DEF Viewed
<1>4. \A j \in ActiveSlots \ gone : HandleOf(j) \notin revoked
  <2> SUFFICES ASSUME NEW j \in ActiveSlots \ gone, NEW i \in gone,
                      HandleOf(j) = HandleOf(i)
               PROVE  FALSE
    OBVIOUS
  <2>1. j \in Index /\ i \in Index
    BY <1>1 DEF Viewed
  <2> QED BY <2>1, HandlesDiffer
<1>5. DOMAIN names' = DOMAIN names \ revoked
  BY <1>1, <1>2, <1>4 DEF Viewed
<1>6. \A x \in DOMAIN names' : names'[x] = names[x]
  <2> TAKE x \in DOMAIN names'
  <2>1. PICK j \in ActiveSlots \ gone : x = HandleOf(j)
    BY <1>1, <1>5 DEF Viewed
  <2>2. names'[HandleOf(j)'] = Name(j)'
    BY <1>1 DEF Viewed
  <2> QED BY <1>1, <1>2, <2>1, <2>2 DEF Viewed
<1>7. names' = [x \in DOMAIN names' |-> names'[x]] /\ open' = Capability!Named(names')
  BY <1>1 DEF Viewed
<1> HIDE DEF revoked
<1>8. names' = [x \in DOMAIN names \ revoked |-> names[x]]
  BY <1>5, <1>6, <1>7
<1>9. Capability!Revoke(revoked)
  BY <1>3, <1>7, <1>8 DEF Capability!Revoke
<1> QED BY <1>3, <1>9

(* The object of a slot in use is in use. *)
LEMMA SlotObject ==
  ASSUME IInv, NEW i \in ActiveSlots
  PROVE  /\ i \in Index /\ slots[i] \in Slot /\ slots[i].active
         /\ slots[i].object_index \in ActiveObjects
         /\ i \in SlotsOf(slots[i].object_index)
<1>1. i \in Index /\ slots[i] \in Slot /\ slots[i].active
  BY DEF ActiveSlots, IInv, TypeOK
<1>2. slots[i].object_index \in Index /\ i \in SlotsOf(slots[i].object_index)
  BY <1>1 DEF Slot, SlotsOf
<1> QED BY <1>1, <1>2 DEF IInv, ReferencesExact, ActiveObjects

(* native_handle_install grants a fresh resource its first name. *)
LEMMA InstallGrants ==
  ASSUME IInv, IInv', NEW t \in Type, NEW r \in Resource, native_handle_install(t, r)
  PROVE  Capability!Next
<1>1. PICK i \in Index, o \in Index :
        /\ r \notin open /\ i \in FreeSlots /\ o \in FreeObjects
        /\ objects' = [objects EXCEPT ![o] =
             [active |-> TRUE, type |-> t, references |-> 1, resource |-> r]]
        /\ slots' = [slots EXCEPT ![i] =
             [active |-> TRUE, type |-> t, object_index |-> o,
              generation |-> slots[i].generation]]
        /\ open' = open \cup {r}
  BY DEF native_handle_install, First
<1>2. /\ slots'[i].active /\ slots'[i].object_index = o /\ objects'[o].resource = r
      /\ \A j \in Index \ {i} : slots'[j] = slots[j]
      /\ \A p \in Index \ {o} : objects'[p] = objects[p]
  BY <1>1 DEF IInv, TypeOK
<1>3. ActiveSlots' = ActiveSlots \cup {i} /\ i \notin ActiveSlots
  BY <1>1, <1>2 DEF ActiveSlots, FreeSlots
<1>4. \A j \in ActiveSlots : slots'[j] = slots[j] /\ Name(j)' = Name(j)
  <2> TAKE j \in ActiveSlots
  <2>1. slots'[j] = slots[j] /\ j \in Index
    BY <1>2, <1>3, SlotObject
  <2>2. slots[j].object_index \in Index \ {o}
    BY <1>1, SlotObject DEF ActiveObjects, FreeObjects
  <2> QED BY <1>2, <2>1, <2>2 DEF Name
<1>5. Name(i)' = r
  BY <1>2 DEF Name
<1>6. PICK h : h = HandleOf(i)'
  OBVIOUS
<1>7. /\ h \in Handle /\ h \notin DOMAIN names
      /\ names' = [x \in DOMAIN names \cup {h} |-> IF x = h THEN r ELSE names[x]]
  BY <1>3, <1>4, <1>5, <1>6, OneMoreName
<1>8. Capability!Grant(h, r)
  BY <1>1, <1>7 DEF Capability!Grant
<1> QED BY <1>7, <1>8 DEF Capability!Next

(* native_handle_duplicate gives a named resource one name more. *)
LEMMA DuplicateAliases ==
  ASSUME IInv, IInv', NEW h \in Handle, native_handle_duplicate(h)
  PROVE  Capability!Next
<1>1. PICK s \in Index, i \in Index, o \in Index :
        /\ o = slots[s].object_index /\ decode_slot(h, s) /\ i \in FreeSlots
        /\ objects' = [objects EXCEPT ![o] =
             [active |-> TRUE, type |-> objects[o].type,
              references |-> objects[o].references + 1,
              resource |-> objects[o].resource]]
        /\ slots' = [slots EXCEPT ![i] =
             [active |-> TRUE, type |-> slots[s].type, object_index |-> o,
              generation |-> slots[i].generation]]
        /\ open' = open
  <2>1. \A s \in Index : slots[s].object_index \in Index
    BY DEF IInv, TypeOK, Slot
  <2> QED BY <2>1 DEF native_handle_duplicate, First
<1>2. /\ slots'[i].active /\ slots'[i].object_index = o
      /\ objects'[o].resource = objects[o].resource
      /\ \A j \in Index \ {i} : slots'[j] = slots[j]
      /\ \A p \in Index \ {o} : objects'[p] = objects[p]
  BY <1>1 DEF IInv, TypeOK
<1>3. ActiveSlots' = ActiveSlots \cup {i} /\ i \notin ActiveSlots
  BY <1>1, <1>2 DEF ActiveSlots, FreeSlots
<1>4. \A j \in ActiveSlots : slots'[j] = slots[j] /\ Name(j)' = Name(j)
  <2> TAKE j \in ActiveSlots
  <2>1. slots'[j] = slots[j] /\ slots[j].object_index \in Index
    BY <1>2, <1>3, SlotObject DEF ActiveObjects
  <2>2. \A p \in Index : objects'[p].resource = objects[p].resource
    BY <1>2
  <2> QED BY <2>1, <2>2 DEF Name
<1>5. s \in ActiveSlots /\ h = HandleOf(s)
  BY <1>1, DecodeNames
<1>6. h \in DOMAIN names /\ Name(i)' = names[h]
  <2>1. Viewed
    BY View
  <2>2. Name(i)' = Name(s)
    BY <1>1, <1>2 DEF Name
  <2> QED BY <1>5, <2>1, <2>2 DEF Viewed
<1>7. PICK new : new = HandleOf(i)'
  OBVIOUS
<1>8. /\ new \in Handle /\ new \notin DOMAIN names
      /\ names' = [x \in DOMAIN names \cup {new} |->
                     IF x = new THEN names[h] ELSE names[x]]
  BY <1>3, <1>4, <1>6, <1>7, OneMoreName
<1>9. Capability!Alias(h, new)
  BY <1>1, <1>6, <1>8 DEF Capability!Alias
<1> QED BY <1>6, <1>8, <1>9 DEF Capability!Next

(* native_handle_close revokes one name, native_handle_close_all as many   *)
(* as it can; a resource is finalised with its last name.                  *)
LEMMA CloseRevokes ==
  ASSUME IInv, IInv', NEW h \in Handle, native_handle_close(h)
  PROVE  Capability!Next
<1>1. PICK i \in Index, o \in Index :
        /\ o = slots[i].object_index /\ decode_slot(h, i)
        /\ slots' = [slots EXCEPT ![i] = ClosedSlot(slots[i])]
        /\ objects' = [objects EXCEPT ![o] = Dropped(objects[o])]
  <2>1. \A i \in Index : slots[i].object_index \in Index
    BY DEF IInv, TypeOK, Slot
  <2> QED BY <2>1 DEF native_handle_close
<1>2. /\ ~slots'[i].active /\ i \in ActiveSlots
      /\ objects'[o] = Dropped(objects[o])
      /\ \A j \in Index \ {i} : slots'[j] = slots[j]
      /\ \A p \in Index \ {o} : objects'[p] = objects[p]
  BY <1>1, DecodeNames DEF IInv, TypeOK, ClosedSlot
<1>3. ActiveSlots' = ActiveSlots \ {i}
  BY <1>2 DEF ActiveSlots
<1>4. \A j \in ActiveSlots \ {i} : slots'[j] = slots[j] /\ Name(j)' = Name(j)
  <2> TAKE j \in ActiveSlots \ {i}
  <2>1. slots'[j] = slots[j] /\ j \in Index
    BY <1>2, SlotObject
  <2>2. j \in ActiveSlots'
    BY <1>3
  <2>3. CASE slots[j].object_index # o
    <3>1. slots[j].object_index \in Index
      BY SlotObject DEF ActiveObjects
    <3> QED BY <1>2, <2>1, <2>3, <3>1 DEF Name
  <2>4. CASE slots[j].object_index = o
    <3>1. j \in SlotsOf(o)'
      BY <2>1, <2>2, <2>4 DEF ActiveSlots, SlotsOf
    <3>2. objects'[o].active
      BY <1>1, <3>1 DEF IInv, ReferencesExact
    <3>3. objects'[o].resource = objects[o].resource
      BY <1>2, <3>2 DEF Dropped, EmptyObject
    <3> QED BY <2>1, <2>4, <3>3 DEF Name
  <2> QED BY <2>3, <2>4
<1>5. {i} \in SUBSET ActiveSlots /\ {i} # {}
  BY <1>2
<1> QED BY <1>3, <1>4, <1>5, FewerNames DEF Capability!Next

LEMMA CloseAllRevokes ==
  ASSUME IInv, IInv', NEW refusing \in SUBSET ActiveObjects,
         native_handle_close_all(refusing)
  PROVE  Capability!Next
<1>1. PICK gone \in SUBSET ActiveSlots :
        /\ gone # {}
        /\ slots' = [i \in Index |->
             IF i \in gone THEN ClosedSlot(slots[i]) ELSE slots[i]]
        /\ objects' = [o \in Index |->
             IF o \notin ActiveObjects THEN objects[o]
             ELSE IF o \in refusing
                  THEN [active |-> TRUE, type |-> objects[o].type,
                        references |-> 1, resource |-> objects[o].resource]
                  ELSE EmptyObject]
  BY DEF native_handle_close_all
<1>2. ActiveSlots' = ActiveSlots \ gone
  <2>1. \A i \in Index : slots'[i].active <=> slots[i].active /\ i \notin gone
    BY <1>1 DEF ClosedSlot, ActiveSlots
  <2> QED BY <2>1 DEF ActiveSlots
<1>3. \A j \in ActiveSlots \ gone : slots'[j] = slots[j] /\ Name(j)' = Name(j)
  <2> TAKE j \in ActiveSlots \ gone
  <2>1. slots'[j] = slots[j] /\ j \in ActiveSlots'
    BY <1>1, <1>2, SlotObject
  <2>2. PICK o \in Index : o = slots[j].object_index
    BY SlotObject DEF ActiveObjects
  <2>3. j \in SlotsOf(o)'
    BY <2>1, <2>2 DEF ActiveSlots, SlotsOf
  <2>4. objects'[o].active
    BY <2>3 DEF IInv, ReferencesExact
  <2>5. objects'[o].resource = objects[o].resource
    BY <1>1, <2>4 DEF EmptyObject
  <2> QED BY <2>1, <2>2, <2>5 DEF Name
<1> QED BY <1>1, <1>2, <1>3, FewerNames DEF Capability!Next

(* The handle table implements the capability contract: every operation    *)
(* on slots, objects, generations and reference counts grants, aliases or  *)
(* revokes names, and finalises exactly the resources left without one.    *)
THEOREM Implements == Spec => RefinesCapability
<1>1. Init => Capability!Init
  <2> SUFFICES ASSUME Init PROVE Capability!Init
    OBVIOUS
  <2>1. ActiveSlots = {}
    BY DEF Init, ActiveSlots
  <2>2. names = [h \in {} |-> h]
    BY <2>1 DEF names
  <2> QED BY <2>2 DEF Init, Capability!Init
<1>2. IInv /\ IInv' /\ [Next]_vars => [Capability!Next]_(Capability!vars)
  <2> SUFFICES ASSUME IInv, IInv', [Next]_vars
               PROVE  Capability!Next \/ UNCHANGED Capability!vars
    OBVIOUS
  <2>1. CASE UNCHANGED vars
    BY <2>1 DEF vars, Capability!vars, names, ActiveSlots, HandleOf, encode_handle
  <2>2. CASE Next
    BY <2>2, InstallGrants, DuplicateAliases, CloseRevokes, CloseAllRevokes DEF Next
  <2> QED BY <2>1, <2>2
<1> QED BY <1>1, <1>2, Inductive, PTL DEF Spec, RefinesCapability, Capability!Spec
=============================================================================
