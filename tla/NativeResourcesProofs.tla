------------------------ MODULE NativeResourcesProofs ------------------------
(***************************************************************************)
(* Proofs about NativeResources: whatever calls fail half-way, the books   *)
(* of every process agree with the machine, and a process that ended, or   *)
(* could not be loaded, leaves nothing behind.                             *)
(*                                                                         *)
(* A step touches one process, and what it does there is a chain of        *)
(* operators from worlds to worlds.  So the invariant is one predicate of  *)
(* a world, Books, for every live process, and what is outside of it:      *)
(* nothing in the machine is anyone else's.  For each operator a lemma     *)
(* says which fields it leaves alone (Keeping) and what it makes of the    *)
(* others; for each call a lemma puts these together to Books and Local,   *)
(* that is, to the books of the caller and to those of all others.         *)
(***************************************************************************)
EXTENDS NativeResources, FiniteSetTheorems, SequenceTheorems, WellFoundedInduction,
        NaturalsInduction, TLAPS

ProcessFields ==
  {"calls", "exiting", "space", "aliases", "pages", "tables", "handles",
   "threads", "directories", "window", "windows"}

MachineFields == {"frames", "heap", "narrowed", "files", "sockets", "ui"}

Fields == ProcessFields \cup MachineFields \cup {"slot", "ok", "draws"}

WindowFields ==
  {"allocated", "window_object_open", "event_object_open", "generation", "surface"}

Kinds == {"IMAGE", "TLS", "STACK", "ANON", "SURFACE"}

HandleTypes == {"FILE", "DIRECTORY", "SOCKET", "TIMER", "THREAD", "WINDOW", "EVENT_QUEUE"}

Shape(w) == DOMAIN w = Fields

(* The pairs of a set that carry a slot, and those that carry another.     *)
Own(S, s) == {x \in S : x[1] = s}

Others(S, s) == {x \in S : x[1] # s}

(* What a world keeps: every field but these.                              *)
Keeping(w, v, changed) == Shape(v) /\ \A f \in Fields \ changed : v[f] = w[f]

-----------------------------------------------------------------------------
(* The books of one process.                                               *)

(* A page is recorded exactly if it has its frame, and is in the tables    *)
(* exactly if the record says so.                                          *)
Mapping(w) ==
  /\ \A a \in DOMAIN w.pages : w.pages[a] \in [kind : Kinds, mapped : BOOLEAN]
  /\ w.tables = {a \in DOMAIN w.pages : w.pages[a].mapped}
  /\ Own(w.frames, w.slot) = Owned(w, DOMAIN w.pages)

(* What it was loaded with and the stacks of its threads are mapped, no    *)
(* other stack is recorded, and none of it counts as anonymous memory.     *)
Loaded(w) ==
  /\ w.threads \in Nat \ {0}
  /\ Range(LoadOrder) \subseteq w.tables
  /\ \A t \in 0..(w.threads - 1) : Range(Stack(t)) \subseteq w.tables
  /\ \A a \in DOMAIN w.pages :
       /\ w.pages[a].kind = "ANON" => a[1] = "anon" /\ a # <<"anon", 2>>
       /\ a[1] = "stack" => a[2] \in 0..(w.threads - 1)

(* The surface is mapped exactly while the window is open.                 *)
SurfaceHeld(w) ==
  /\ w.window.surface = IF w.window.window_object_open THEN Range(Surface) ELSE {}
  /\ w.window.window_object_open => Range(Surface) \subseteq w.tables
  /\ \A a \in DOMAIN w.pages :
       a[1] = "surface" =>
         w.window.window_object_open /\ a \in Range(Surface) /\ w.pages[a].kind = "SURFACE"

(* The record of the window, its pixels and its place on the screen.       *)
WindowKept(w) ==
  /\ DOMAIN w.window = WindowFields
  /\ {w.window.window_object_open, w.window.event_object_open} \subseteq BOOLEAN
  /\ w.window.allocated = (w.window.window_object_open \/ w.window.event_object_open)
  /\ w.windows \in Nat
  /\ w.window.allocated => w.window.generation \in 1..w.windows
  /\ <<w.slot, "pixels">> \in w.heap <=> w.window.window_object_open
  /\ w.slot \in w.ui => w.window.window_object_open

(* Handles lead to what is open, and the other way round.                  *)
Objects(w) ==
  \A o \in DOMAIN w.handles :
    o = Object(o.type, o.id) /\ o.type \in HandleTypes /\ w.handles[o] \in Nat \ {0}

Streams(w) ==
  /\ Held(w, "FILE") \subseteq w.files
  /\ Held(w, "DIRECTORY") = w.directories /\ IsFiniteSet(w.directories)
  /\ Owned(w, Held(w, "SOCKET")) = Own(w.sockets, w.slot)

ThreadsHeld(w) == Held(w, "THREAD") \subseteq 1..(w.threads - 1)

(* d: every closing of a window could be drawn.                            *)
WindowsHeld(w, d) ==
  /\ Held(w, "WINDOW") \subseteq 1..w.windows
  /\ Held(w, "EVENT_QUEUE") = IF w.window.event_object_open THEN {w.window.generation} ELSE {}
  /\ w.window.window_object_open => w.window.generation \in Held(w, "WINDOW")
  /\ d => Held(w, "WINDOW") = IF w.window.window_object_open THEN {w.window.generation} ELSE {}

Books(w, d) ==
  /\ Mapping(w) /\ Loaded(w) /\ SurfaceHeld(w) /\ WindowKept(w)
  /\ Objects(w) /\ Streams(w) /\ ThreadsHeld(w) /\ WindowsHeld(w, d)

-----------------------------------------------------------------------------
(* The inductive invariant.                                                *)

Shapes ==
  /\ DOMAIN process = Slot
  /\ \A s \in Slot : DOMAIN process[s] = ProcessFields
  /\ DOMAIN machine = MachineFields
  /\ {scheduler_active, reaping} \subseteq BOOLEAN /\ cleanups \in BOOLEAN /\ drawn \in BOOLEAN

Finite(m) ==
  /\ IsFiniteSet(m.frames) /\ Cardinality(m.frames) <= FrameCount
  /\ IsFiniteSet(m.files) /\ IsFiniteSet(m.sockets)

Live == Range(ages)

AgesKept ==
  /\ ages \in Seq(Slot)
  /\ \A i, j \in 1..Len(ages) : ages[i] = ages[j] => i = j
  /\ machine.narrowed = ages

LiveKept ==
  \A s \in Live : Books(World(s), drawn) /\ process[s].space /\ process[s].aliases

DeadCleared == \A s \in Slot \ Live : process[s] = NoProcess

(* Nothing in the machine is anyone else's.                                *)
NothingForeign ==
  /\ \A x \in machine.frames : x = <<x[1], x[2]>> /\ x[1] \in Live
  /\ \A x \in machine.heap : x = <<x[1], "pixels">> /\ x[1] \in Live
  /\ \A x \in machine.sockets : x = <<x[1], x[2]>> /\ x[1] \in Live
  /\ machine.ui \subseteq Live
  /\ \A f \in machine.files : \E s \in Live : f \in Holds(s, "FILE")

FilesApart ==
  \A s, t \in Live : s # t => Holds(s, "FILE") \cap Holds(t, "FILE") = {}

IInv ==
  /\ Shapes /\ Finite(machine) /\ AgesKept /\ LiveKept /\ DeadCleared
  /\ NothingForeign /\ FilesApart
  /\ drawn => cleanups

-----------------------------------------------------------------------------
(* Worlds and what changes of them.                                        *)

WorldOf(p, m, s) == Joined(Joined(p, m), [slot |-> s, ok |-> TRUE, draws |-> TRUE])

LEMMA WorldParts ==
  ASSUME NEW p, NEW m, NEW s, DOMAIN p = ProcessFields, DOMAIN m = MachineFields
  PROVE  /\ Shape(WorldOf(p, m, s))
         /\ \A f \in ProcessFields : WorldOf(p, m, s)[f] = p[f]
         /\ \A f \in MachineFields : WorldOf(p, m, s)[f] = m[f]
         /\ WorldOf(p, m, s).slot = s
         /\ WorldOf(p, m, s).ok \in BOOLEAN /\ WorldOf(p, m, s).ok
         /\ WorldOf(p, m, s).draws \in BOOLEAN /\ WorldOf(p, m, s).draws
  <1> PICK w : w = WorldOf(p, m, s)
    OBVIOUS
  <1> PICK x : x = [slot |-> s, ok |-> TRUE, draws |-> TRUE]
    OBVIOUS
  <1>2. /\ DOMAIN x = {"slot", "ok", "draws"}
        /\ x.slot = s /\ x.ok = TRUE /\ x.draws = TRUE
    OBVIOUS
  <1> PICK q : q = Joined(p, m)
    OBVIOUS
  <1>3. w = Joined(q, x)
    BY DEF WorldOf
  <1>4. /\ DOMAIN q = ProcessFields \cup MachineFields
        /\ \A f \in ProcessFields : q[f] = p[f]
        /\ \A f \in MachineFields : q[f] = m[f]
    BY DEF Joined, ProcessFields, MachineFields
  <1>5. /\ DOMAIN w = DOMAIN q \cup DOMAIN x
        /\ \A f \in DOMAIN q : w[f] = q[f]
        /\ \A f \in DOMAIN x \ DOMAIN q : w[f] = x[f]
    BY <1>3 DEF Joined
  <1>6. DOMAIN x \cap DOMAIN q = {}
    BY <1>2, <1>4 DEF ProcessFields, MachineFields
  <1>7. Shape(w)
    BY <1>2, <1>4, <1>5 DEF Shape, Fields
  <1>8. /\ \A f \in ProcessFields : w[f] = p[f]
        /\ \A f \in MachineFields : w[f] = m[f]
    BY <1>4, <1>5
  <1>9. w.slot = s /\ w.ok = TRUE /\ w.draws = TRUE
    <2>1. \A f \in DOMAIN x : w[f] = x[f]
      BY <1>5, <1>6
    <2>2. w["slot"] = x["slot"] /\ w["ok"] = x["ok"] /\ w["draws"] = x["draws"]
      BY <1>2, <2>1
    <2> QED
      BY <1>2, <2>2
  <1> QED
    BY <1>7, <1>8, <1>9

LEMMA WorldFields ==
  ASSUME Shapes, NEW s \in Slot
  PROVE  /\ Shape(World(s))
         /\ \A f \in ProcessFields : World(s)[f] = process[s][f]
         /\ \A f \in MachineFields : World(s)[f] = machine[f]
         /\ World(s).slot = s
         /\ World(s).ok \in BOOLEAN /\ World(s).ok
         /\ World(s).draws \in BOOLEAN /\ World(s).draws
  <1> PICK p : p = process[s]
    OBVIOUS
  <1> PICK m : m = machine
    OBVIOUS
  <1> PICK w : w = World(s)
    OBVIOUS
  <1>1. w = WorldOf(p, m, s)
    BY DEF World, WorldOf
  <1>2. DOMAIN p = ProcessFields /\ DOMAIN m = MachineFields
    BY DEF Shapes
  <1>3. /\ Shape(WorldOf(p, m, s))
        /\ \A f \in ProcessFields : WorldOf(p, m, s)[f] = p[f]
        /\ \A f \in MachineFields : WorldOf(p, m, s)[f] = m[f]
        /\ WorldOf(p, m, s).slot = s
        /\ WorldOf(p, m, s).ok \in BOOLEAN /\ WorldOf(p, m, s).ok
        /\ WorldOf(p, m, s).draws \in BOOLEAN /\ WorldOf(p, m, s).draws
    BY <1>2, WorldParts
  <1> QED
    BY <1>1, <1>3

LEMMA FieldNames ==
  {"calls", "exiting", "space", "aliases", "pages", "tables", "handles", "threads",
   "directories", "window", "windows", "frames", "heap", "narrowed", "files", "sockets",
   "ui", "slot", "ok", "draws"} \subseteq Fields
  BY DEF Fields, ProcessFields, MachineFields

LEMMA KeepingTrans ==
  ASSUME NEW u, NEW v, NEW w, NEW c, NEW d, Keeping(u, v, c), Keeping(v, w, d)
  PROVE  Keeping(u, w, c \cup d)
  BY DEF Keeping

LEMMA KeepingMore ==
  ASSUME NEW u, NEW v, NEW c, NEW d, Keeping(u, v, c), c \subseteq d
  PROVE  Keeping(u, v, d)
  BY DEF Keeping

LEMMA FailedGives ==
  ASSUME NEW w, Shape(w)
  PROVE  Keeping(w, Failed(w), {"ok"}) /\ Failed(w).ok = FALSE
  BY FieldNames DEF Keeping, Shape, Failed

LEMMA ThenGives ==
  ASSUME NEW w, Shape(w)
  PROVE  Keeping(w, Then(w), {"ok"}) /\ Then(w).ok = TRUE
  BY FieldNames DEF Keeping, Shape, Then

LEMMA OwnedMembers ==
  ASSUME NEW w, NEW S
  PROVE  \A x : x \in Owned(w, S) <=> \E a \in S : x = <<w.slot, a>>
  BY DEF Owned

(* <<w.slot, a>> stands for a alone.                                       *)
LEMMA OwnedOne ==
  ASSUME NEW w, NEW S, NEW a
  PROVE  <<w.slot, a>> \in Owned(w, S) <=> a \in S
  BY DEF Owned

-----------------------------------------------------------------------------
(* Pages that are given back.                                              *)

(* r is w without the pages in S, w.ok included.                           *)
Shrunk(w, r, S) ==
  /\ Keeping(w, r, {"pages", "tables", "frames"})
  /\ DOMAIN r.pages = DOMAIN w.pages \ S
  /\ \A a \in DOMAIN r.pages : r.pages[a] = w.pages[a]
  /\ r.tables = w.tables \ S
  /\ r.frames = w.frames \ Owned(w, S)

LEMMA ReturnedShrinks ==
  ASSUME NEW w, Shape(w), Mapping(w), NEW S \in SUBSET DOMAIN w.pages
  PROVE  Shrunk(w, Returned(w, S), S)
  <1> PICK T : T = MappedOf(w, S)
    OBVIOUS
  <1>1. T = S \cap w.tables
    BY DEF MappedOf, Recorded, Mapping
  <1> PICK u : u = paging_process_unmap_user_page(w, T)
    OBVIOUS
  <1>2. u = [w EXCEPT !.tables = @ \ T]
    BY <1>1 DEF paging_process_unmap_user_page
  <1>3. Keeping(w, u, {"tables"}) /\ u.tables = w.tables \ S
    BY <1>1, <1>2, FieldNames DEF Keeping, Shape
  <1> PICK v : v = remove_page_record(u, S)
    OBVIOUS
  <1>4. v = [u EXCEPT !.pages = Without(@, S)]
    BY DEF remove_page_record
  <1>5. Keeping(u, v, {"pages"}) /\ v.pages = Without(u.pages, S)
    BY <1>3, <1>4, FieldNames DEF Keeping, Shape
  <1>6. /\ DOMAIN v.pages = DOMAIN w.pages \ S
        /\ \A a \in DOMAIN v.pages : v.pages[a] = w.pages[a]
    <2>1. u.pages = w.pages
      BY <1>3, FieldNames DEF Keeping
    <2> QED
      BY <2>1, <1>5 DEF Without
  <1> PICK r : r = frame_release(v, S)
    OBVIOUS
  <1>7. v.slot = w.slot /\ v.frames = w.frames /\ v.tables = w.tables \ S /\ Shape(v)
    BY <1>3, <1>5, FieldNames DEF Keeping
  <1>8. Owned(v, S) = Owned(w, S)
    BY <1>7 DEF Owned
  <1>9. Owned(w, S) \subseteq w.frames
    BY DEF Owned, Mapping, Own
  <1>10. r = [v EXCEPT !.frames = @ \ Owned(v, S)]
    BY <1>7, <1>8, <1>9 DEF frame_release
  <1>11. Keeping(v, r, {"frames"}) /\ r.frames = w.frames \ Owned(w, S)
    BY <1>7, <1>8, <1>10, FieldNames DEF Keeping, Shape
  <1>12. Keeping(w, r, {"pages", "tables", "frames"})
    BY <1>3, <1>5, <1>11 DEF Keeping
  <1>13. r.pages = v.pages /\ r.tables = w.tables \ S
    BY <1>7, <1>11, FieldNames DEF Keeping
  <1>14. r = Returned(w, S)
    BY DEF Returned
  <1> QED
    BY <1>6, <1>11, <1>12, <1>13, <1>14 DEF Shrunk

LEMMA ShrunkMaps ==
  ASSUME NEW w, NEW r, NEW S, Mapping(w), Shrunk(w, r, S)
  PROVE  Mapping(r) /\ Others(r.frames, w.slot) = Others(w.frames, w.slot)
  <1>0. r.slot = w.slot
    BY FieldNames DEF Shrunk, Keeping
  <1>1. \A a \in DOMAIN r.pages : r.pages[a] \in [kind : Kinds, mapped : BOOLEAN]
    BY DEF Mapping, Shrunk
  <1>2. r.tables = {a \in DOMAIN r.pages : r.pages[a].mapped}
    BY DEF Mapping, Shrunk
  <1>3. Own(r.frames, r.slot) = Owned(r, DOMAIN r.pages)
    <2>1. Own(r.frames, r.slot) = Own(w.frames, w.slot) \ Owned(w, S)
      BY <1>0 DEF Shrunk, Own
    <2>2. @ = Owned(w, DOMAIN w.pages) \ Owned(w, S)
      BY DEF Mapping
    <2>3. @ = Owned(w, DOMAIN w.pages \ S)
      BY DEF Owned
    <2>4. @ = Owned(r, DOMAIN r.pages)
      BY <1>0 DEF Owned, Shrunk
    <2> QED
      BY <2>1, <2>2, <2>3, <2>4
  <1>4. Others(r.frames, w.slot) = Others(w.frames, w.slot)
    BY DEF Others, Shrunk, Owned
  <1> QED
    BY <1>1, <1>2, <1>3, <1>4 DEF Mapping

-----------------------------------------------------------------------------
(* Pages that are taken.                                                   *)

(* g is w with the pages of kind recorded and done among them mapped.      *)
Grew(w, g, kind, done) ==
  /\ Keeping(w, g, {"pages", "tables", "frames", "ok"})
  /\ DOMAIN g.pages = DOMAIN w.pages \cup DOMAIN kind
  /\ \A a \in DOMAIN w.pages : g.pages[a] = w.pages[a]
  /\ \A a \in DOMAIN kind :
       /\ g.pages[a] \in [kind : Kinds, mapped : BOOLEAN]
       /\ g.pages[a].kind = kind[a] /\ (g.pages[a].mapped <=> a \in done)
  /\ g.tables = w.tables \cup done
  /\ g.frames = w.frames \cup Owned(w, DOMAIN kind)

(* Pages nothing has recorded, each of a kind.                             *)
FreshPages(w, kind) ==
  /\ DOMAIN kind \cap DOMAIN w.pages = {}
  /\ \A a \in DOMAIN kind : kind[a] \in Kinds

LEMMA RecordGives ==
  ASSUME NEW w, Shape(w), NEW kind, FreshPages(w, kind), NEW r, r = record_page(w, kind)
  PROVE  /\ Keeping(w, r, {"pages", "frames"})
         /\ DOMAIN r.pages = DOMAIN w.pages \cup DOMAIN kind
         /\ \A a \in DOMAIN w.pages : r.pages[a] = w.pages[a]
         /\ \A a \in DOMAIN kind : r.pages[a] = [kind |-> kind[a], mapped |-> FALSE]
         /\ r.frames = w.frames \cup Owned(w, DOMAIN kind)
  <1> PICK p : p = Joined(w.pages, [a \in DOMAIN kind |-> [kind |-> kind[a], mapped |-> FALSE]])
    OBVIOUS
  <1> PICK f : f = w.frames \cup Owned(w, DOMAIN kind)
    OBVIOUS
  <1>1. r = [w EXCEPT !.pages = p, !.frames = f]
    BY DEF record_page
  <1>2. Keeping(w, r, {"pages", "frames"}) /\ r.pages = p /\ r.frames = f
    BY <1>1, FieldNames DEF Keeping, Shape
  <1>3. /\ DOMAIN p = DOMAIN w.pages \cup DOMAIN kind
        /\ \A a \in DOMAIN w.pages : p[a] = w.pages[a]
        /\ \A a \in DOMAIN kind : p[a] = [kind |-> kind[a], mapped |-> FALSE]
    BY DEF Joined, FreshPages
  <1> QED
    BY <1>2, <1>3

LEMMA MarkGives ==
  ASSUME NEW w, Shape(w), NEW done, NEW r, r = MarkMapped(w, done)
  PROVE  /\ Keeping(w, r, {"pages", "tables"})
         /\ DOMAIN r.pages = DOMAIN w.pages
         /\ \A a \in DOMAIN w.pages :
              r.pages[a] = [kind |-> w.pages[a].kind, mapped |-> w.pages[a].mapped \/ a \in done]
         /\ r.tables = w.tables \cup done
  <1> PICK p : p = [a \in DOMAIN w.pages |-> [kind |-> w.pages[a].kind, mapped |-> w.pages[a].mapped \/ a \in done]]
    OBVIOUS
  <1> PICK t : t = w.tables \cup done
    OBVIOUS
  <1>1. r = [w EXCEPT !.tables = t, !.pages = p]
    BY DEF MarkMapped
  <1>2. Keeping(w, r, {"pages", "tables"}) /\ r.pages = p /\ r.tables = t
    BY <1>1, FieldNames DEF Keeping, Shape
  <1> QED
    BY <1>2

LEMMA PageOf ==
  ASSUME NEW k \in Kinds, NEW b \in BOOLEAN, NEW p, p = [kind |-> k, mapped |-> b]
  PROVE  p \in [kind : Kinds, mapped : BOOLEAN] /\ p.kind = k /\ (p.mapped <=> b)
  OBVIOUS

LEMMA TakenGrows ==
  ASSUME NEW w, Shape(w), Mapping(w), NEW kind, FreshPages(w, kind),
         NEW done \in SUBSET DOMAIN kind, NEW g,
         g = MarkMapped(record_page(w, kind), done)
  PROVE  Grew(w, g, kind, done)
  <1> PICK r : r = record_page(w, kind)
    OBVIOUS
  <1>1. /\ Keeping(w, r, {"pages", "frames"})
        /\ DOMAIN r.pages = DOMAIN w.pages \cup DOMAIN kind
        /\ \A a \in DOMAIN w.pages : r.pages[a] = w.pages[a]
        /\ \A a \in DOMAIN kind : r.pages[a] = [kind |-> kind[a], mapped |-> FALSE]
        /\ r.frames = w.frames \cup Owned(w, DOMAIN kind)
    BY RecordGives
  <1>2. Shape(r) /\ g = MarkMapped(r, done)
    BY <1>1 DEF Keeping
  <1>3. /\ Keeping(r, g, {"pages", "tables"})
        /\ DOMAIN g.pages = DOMAIN r.pages
        /\ \A a \in DOMAIN r.pages :
             g.pages[a] = [kind |-> r.pages[a].kind, mapped |-> r.pages[a].mapped \/ a \in done]
        /\ g.tables = r.tables \cup done
    BY <1>2, MarkGives
  <1>4. Keeping(w, g, {"pages", "tables", "frames", "ok"})
    BY <1>1, <1>3 DEF Keeping
  <1>5. g.frames = w.frames \cup Owned(w, DOMAIN kind) /\ g.tables = w.tables \cup done
    BY <1>1, <1>3, FieldNames DEF Keeping
  <1>6. ASSUME NEW a \in DOMAIN w.pages PROVE g.pages[a] = w.pages[a]
    <2>1. a \notin done
      BY DEF FreshPages
    <2>2. w.pages[a] \in [kind : Kinds, mapped : BOOLEAN]
      BY DEF Mapping
    <2>3. g.pages[a] = [kind |-> w.pages[a].kind, mapped |-> w.pages[a].mapped \/ a \in done]
      BY <1>1, <1>3
    <2> PICK p \in [kind : Kinds, mapped : BOOLEAN] : p = w.pages[a]
      BY <2>2
    <2>4. [kind |-> p.kind, mapped |-> p.mapped \/ a \in done] = [kind |-> p.kind, mapped |-> p.mapped]
      BY <2>1
    <2>5. p = [kind |-> p.kind, mapped |-> p.mapped]
      OBVIOUS
    <2> QED
      BY <2>3, <2>4, <2>5
  <1>7. ASSUME NEW a \in DOMAIN kind
        PROVE  /\ g.pages[a] \in [kind : Kinds, mapped : BOOLEAN]
               /\ g.pages[a].kind = kind[a] /\ (g.pages[a].mapped <=> a \in done)
    <2>1. /\ r.pages[a] = [kind |-> kind[a], mapped |-> FALSE]
          /\ g.pages[a] = [kind |-> r.pages[a].kind, mapped |-> r.pages[a].mapped \/ a \in done]
      BY <1>1, <1>3
    <2>2. r.pages[a].kind = kind[a] /\ ~r.pages[a].mapped /\ kind[a] \in Kinds
      BY <2>1 DEF FreshPages
    <2> PICK b \in BOOLEAN : b <=> r.pages[a].mapped \/ a \in done
      OBVIOUS
    <2>3. g.pages[a] = [kind |-> kind[a], mapped |-> b]
      BY <2>1, <2>2
    <2> QED
      BY <2>2, <2>3, PageOf
  <1> QED
    BY <1>1, <1>3, <1>4, <1>5, <1>6, <1>7 DEF Grew

LEMMA GrewMaps ==
  ASSUME NEW w, NEW g, NEW kind, NEW done \in SUBSET DOMAIN kind,
         Mapping(w), FreshPages(w, kind), Grew(w, g, kind, done)
  PROVE  Mapping(g) /\ Others(g.frames, w.slot) = Others(w.frames, w.slot)
  <1>0. g.slot = w.slot
    BY FieldNames DEF Grew, Keeping
  <1>1. ASSUME NEW a \in DOMAIN g.pages
        PROVE  /\ g.pages[a] \in [kind : Kinds, mapped : BOOLEAN]
               /\ a \in g.tables <=> g.pages[a].mapped
    <2>1. CASE a \in DOMAIN kind
      <3>1. a \notin w.tables
        BY <2>1 DEF Mapping, FreshPages
      <3> QED
        BY <2>1, <3>1 DEF Grew
    <2>2. CASE a \in DOMAIN w.pages
      BY <2>2 DEF Grew, Mapping, FreshPages
    <2> QED
      BY <2>1, <2>2 DEF Grew
  <1>2. g.tables = {a \in DOMAIN g.pages : g.pages[a].mapped}
    <2>1. g.tables \subseteq DOMAIN g.pages
      BY DEF Grew, Mapping
    <2> QED
      BY <1>1, <2>1
  <1>3. Own(g.frames, g.slot) = Owned(g, DOMAIN g.pages)
    <2>1. Own(g.frames, g.slot) = Own(w.frames, w.slot) \cup Owned(w, DOMAIN kind)
      BY <1>0 DEF Grew, Own, Owned
    <2>2. @ = Owned(w, DOMAIN w.pages) \cup Owned(w, DOMAIN kind)
      BY DEF Mapping
    <2>3. @ = Owned(w, DOMAIN w.pages \cup DOMAIN kind)
      BY DEF Owned
    <2>4. @ = Owned(g, DOMAIN g.pages)
      BY <1>0 DEF Owned, Grew
    <2> QED
      BY <2>1, <2>2, <2>3, <2>4
  <1>4. Others(g.frames, w.slot) = Others(w.frames, w.slot)
    BY DEF Others, Grew, Owned
  <1> QED
    BY <1>1, <1>2, <1>3, <1>4 DEF Mapping

(* What was taken and is given back leaves nothing.                        *)
Restored(w, r) ==
  /\ Keeping(w, r, {"pages", "tables", "frames", "ok"})
  /\ DOMAIN r.pages = DOMAIN w.pages
  /\ \A a \in DOMAIN w.pages : r.pages[a] = w.pages[a]
  /\ r.tables = w.tables /\ r.frames = w.frames

LEMMA GrewBack ==
  ASSUME NEW w, NEW g, NEW kind, NEW done \in SUBSET DOMAIN kind, NEW r,
         Mapping(w), FreshPages(w, kind), Grew(w, g, kind, done),
         Shrunk(g, r, DOMAIN kind)
  PROVE  Restored(w, r) /\ r.ok = g.ok
  <1>0. g.slot = w.slot
    BY FieldNames DEF Grew, Keeping
  <1>1. Keeping(w, r, {"pages", "tables", "frames", "ok"})
    BY DEF Grew, Shrunk, Keeping
  <1>2. DOMAIN r.pages = DOMAIN w.pages /\ \A a \in DOMAIN w.pages : r.pages[a] = w.pages[a]
    BY DEF Grew, Shrunk, FreshPages
  <1>3. r.tables = w.tables
    BY DEF Grew, Shrunk, FreshPages, Mapping
  <1>4. r.frames = w.frames
    <2>1. Owned(g, DOMAIN kind) = Owned(w, DOMAIN kind)
      BY <1>0 DEF Owned
    <2>2. Owned(w, DOMAIN kind) \cap w.frames = {}
      <3>1. ASSUME NEW a \in DOMAIN kind, <<w.slot, a>> \in w.frames PROVE FALSE
        <4>1. <<w.slot, a>> \in Owned(w, DOMAIN w.pages)
          BY <3>1 DEF Mapping, Own
        <4> QED
          BY <4>1, OwnedOne DEF FreshPages
      <3> QED
        BY <3>1 DEF Owned
    <2> QED
      BY <2>1, <2>2 DEF Grew, Shrunk
  <1>5. r.ok = g.ok
    BY FieldNames DEF Shrunk, Keeping
  <1> QED
    BY <1>1, <1>2, <1>3, <1>4, <1>5 DEF Restored

(* Frames for the first n pages of a sequence are there.                   *)
LEMMA FramesFit ==
  ASSUME NEW w, NEW wanted, NEW n \in Nat, IsFiniteSet(w.frames),
         allocate_page(w, wanted, n), FrameCount \in Nat
  PROVE  /\ IsFiniteSet(w.frames \cup Owned(w, First(wanted, n)))
         /\ Cardinality(w.frames \cup Owned(w, First(wanted, n))) <= FrameCount
  <1> DEFINE T == Owned(w, First(wanted, n))
             f == [i \in 1..n |-> <<w.slot, wanted[i]>>]
  <1>1. f \in Surjection(1..n, T)
    BY DEF Surjection, Owned, First
  <1>2. IsFiniteSet(1..n) /\ Cardinality(1..n) = n
    BY FS_Interval
  <1>3. IsFiniteSet(T) /\ Cardinality(T) <= n
    <2> HIDE DEF f, T
    <2> QED
      BY <1>1, <1>2, FS_Surjection
  <1> HIDE DEF T
  <1>4. IsFiniteSet(w.frames \cup T)
    BY <1>3, FS_Union
  <1>5. Cardinality(w.frames \cup T) =
          Cardinality(w.frames) + Cardinality(T) - Cardinality(w.frames \cap T)
    BY <1>3, FS_Union
  <1>6. IsFiniteSet(w.frames \cap T)
    BY <1>3, FS_Subset
  <1>7. Cardinality(w.frames) \in Nat /\ Cardinality(T) \in Nat /\ Cardinality(w.frames \cap T) \in Nat
    BY <1>3, <1>6, FS_CardinalityType
  <1>8. Cardinality(w.frames) + n <= FrameCount
    BY DEF allocate_page
  <1>9. Cardinality(w.frames \cup T) <= FrameCount
    BY <1>3, <1>5, <1>7, <1>8
  <1> QED
    BY <1>4, <1>9 DEF T

(* The first n of the pages wanted were taken, the first m are mapped.     *)
GrownTo(w, g, wanted, kind, n, m) ==
  /\ m <= n /\ allocate_page(w, wanted, n)
  /\ Grew(w, g, [a \in First(wanted, n) |-> kind], First(wanted, m))
  /\ g.ok \in BOOLEAN /\ (g.ok => m = Len(wanted))

LEMMA GrewOk ==
  ASSUME NEW w, NEW x, NEW g, NEW kind, NEW done, Grew(w, x, kind, done), Keeping(x, g, {"ok"})
  PROVE  Grew(w, g, kind, done)
  <1>1. /\ Keeping(w, g, {"pages", "tables", "frames", "ok"})
        /\ g.pages = x.pages /\ g.tables = x.tables /\ g.frames = x.frames
    BY FieldNames DEF Grew, Keeping
  <1> QED
    BY <1>1 DEF Grew

LEMMA FirstFew ==
  ASSUME NEW wanted, NEW n \in Nat, NEW m \in 0..n
  PROVE  First(wanted, m) \subseteq First(wanted, n)
  BY DEF First

LEMMA GrownEnds ==
  ASSUME NEW w, Shape(w), Mapping(w), NEW S, NEW wanted \in Seq(S), NEW kind \in Kinds,
         NEW g \in Grown(w, wanted, kind)
  PROVE  \E n, m \in 0..Len(wanted) : GrownTo(w, g, wanted, kind, n, m)
  <1> PICK len \in Nat : len = Len(wanted)
    OBVIOUS
  <1> DEFINE Kind(n) == [a \in First(wanted, n) |-> kind]
             x(n, m) == MarkMapped(record_page(w, Kind(n)), First(wanted, m))
  <1>1. ASSUME NEW n \in 0..len, NEW m \in 0..n, allocate_page(w, wanted, n)
        PROVE  Grew(w, x(n, m), Kind(n), First(wanted, m))
    <2>1. FreshPages(w, Kind(n))
      BY <1>1 DEF FreshPages, allocate_page, Recorded
    <2>2. First(wanted, m) \subseteq DOMAIN Kind(n)
      BY FirstFew
    <2> HIDE DEF Kind
    <2> QED
      BY <2>1, <2>2, TakenGrows
  <1>2. \/ \E n \in 0..len : /\ allocate_page(w, wanted, n)
                             /\ g = [x(n, n) EXCEPT !.ok = n = len]
        \/ \E n \in 0..len : /\ n + 1 \in 0..len /\ allocate_page(w, wanted, n + 1)
                             /\ g = Failed(x(n + 1, n))
    BY DEF Grown
  <1> HIDE DEF x
  <1>3. ASSUME NEW n \in 0..len, allocate_page(w, wanted, n), g = [x(n, n) EXCEPT !.ok = n = len]
        PROVE  GrownTo(w, g, wanted, kind, n, n)
    <2>1. Grew(w, x(n, n), Kind(n), First(wanted, n))
      BY <1>1, <1>3
    <2>2. Shape(x(n, n))
      BY <2>1 DEF Grew, Keeping
    <2>3. Keeping(x(n, n), g, {"ok"}) /\ g.ok = (n = len)
      BY <1>3, <2>2, FieldNames DEF Keeping, Shape
    <2>4. Grew(w, g, Kind(n), First(wanted, n))
      BY <2>1, <2>3, GrewOk
    <2> QED
      <3>1. n <= n
        OBVIOUS
      <3>2. g.ok \in BOOLEAN
        BY <2>3
      <3>3. g.ok => n = Len(wanted)
        BY <2>3, Zenon
      <3> QED
        BY <1>3, <2>4, <3>1, <3>2, <3>3, Zenon DEF GrownTo
  <1>4. ASSUME NEW n \in 0..len, n + 1 \in 0..len, allocate_page(w, wanted, n + 1),
               g = Failed(x(n + 1, n))
        PROVE  GrownTo(w, g, wanted, kind, n + 1, n)
    <2>1. Grew(w, x(n + 1, n), Kind(n + 1), First(wanted, n))
      BY <1>1, <1>4
    <2>2. Shape(x(n + 1, n))
      BY <2>1 DEF Grew, Keeping
    <2>3. Keeping(x(n + 1, n), g, {"ok"}) /\ g.ok = FALSE
      BY <1>4, <2>2, FailedGives
    <2>4. Grew(w, g, Kind(n + 1), First(wanted, n))
      BY <2>1, <2>3, GrewOk
    <2> QED
      <3>1. n <= n + 1
        OBVIOUS
      <3>2. g.ok \in BOOLEAN
        BY <2>3
      <3>3. ~g.ok
        BY <2>3, Zenon
      <3> QED
        BY <1>4, <2>4, <3>1, <3>2, <3>3, Zenon DEF GrownTo
  <1> QED
    BY <1>2, <1>3, <1>4

LEMMA FirstAll ==
  ASSUME NEW S, NEW wanted \in Seq(S)
  PROVE  First(wanted, Len(wanted)) = Range(wanted)
  BY DEF First, Range

(* A loop that failed and was rolled back leaves nothing.                  *)
LEMMA RolledBackRestores ==
  ASSUME NEW w, Shape(w), Mapping(w), NEW S, NEW wanted \in Seq(S), NEW kind \in Kinds, NEW g,
         NEW n \in 0..Len(wanted), NEW m \in 0..Len(wanted), GrownTo(w, g, wanted, kind, n, m),
         Range(wanted) \cap Recorded(w) = {}
  PROVE  Restored(w, RolledBack(g, wanted)) /\ RolledBack(g, wanted).ok = g.ok
  <1> PICK k : k = [a \in First(wanted, n) |-> kind]
    OBVIOUS
  <1>1. FreshPages(w, k)
    BY DEF FreshPages, GrownTo, allocate_page, Recorded
  <1>2. First(wanted, m) \subseteq First(wanted, n) /\ DOMAIN k = First(wanted, n)
    BY FirstFew DEF GrownTo
  <1>3. Grew(w, g, k, First(wanted, m))
    BY DEF GrownTo
  <1>4. Mapping(g) /\ Shape(g)
    BY <1>1, <1>2, <1>3, GrewMaps DEF Grew, Keeping
  <1>5. First(wanted, n) \subseteq Range(wanted)
    BY DEF First, Range
  <1>6. Range(wanted) \cap Recorded(g) = DOMAIN k
    BY <1>2, <1>3, <1>5 DEF Recorded, Grew
  <1>7. Shrunk(g, RolledBack(g, wanted), DOMAIN k)
    BY <1>4, <1>6, ReturnedShrinks DEF RolledBack, Recorded
  <1> QED
    BY <1>1, <1>2, <1>3, <1>7, GrewBack

-----------------------------------------------------------------------------
(* What a call does to others: nothing.                                    *)

FramesLocal(w, v) ==
  /\ Others(v.frames, w.slot) = Others(w.frames, w.slot)
  /\ IsFiniteSet(v.frames) /\ Cardinality(v.frames) <= FrameCount

HeapLocal(w, v) ==
  Others(v.heap, w.slot) = Others(w.heap, w.slot) /\ v.heap \subseteq w.heap \cup {<<w.slot, "pixels">>}

SocketsLocal(w, v) ==
  Others(v.sockets, w.slot) = Others(w.sockets, w.slot) /\ IsFiniteSet(v.sockets)

UiLocal(w, v) == v.ui \ {w.slot} = w.ui \ {w.slot}

FilesLocal(w, v) ==
  v.files \ Held(v, "FILE") = w.files \ Held(w, "FILE") /\ IsFiniteSet(v.files)

Local(w, v) ==
  /\ Shape(v)
  /\ v.slot = w.slot /\ v.space = w.space /\ v.aliases = w.aliases /\ v.narrowed = w.narrowed
  /\ v.draws \in BOOLEAN
  /\ FramesLocal(w, v) /\ HeapLocal(w, v) /\ SocketsLocal(w, v) /\ UiLocal(w, v) /\ FilesLocal(w, v)

(* A part of the books holds on if nothing it looks at changes.            *)
LEMMA PartsKept ==
  ASSUME NEW w, NEW v, NEW c, Keeping(w, v, c)
  PROVE  /\ Mapping(w) /\ c \cap {"slot", "pages", "tables", "frames"} = {} => Mapping(v)
         /\ Loaded(w) /\ c \cap {"pages", "tables", "threads"} = {} => Loaded(v)
         /\ SurfaceHeld(w) /\ c \cap {"pages", "tables", "window"} = {} => SurfaceHeld(v)
         /\ WindowKept(w) /\ c \cap {"slot", "window", "windows", "heap", "ui"} = {} => WindowKept(v)
         /\ Objects(w) /\ c \cap {"handles"} = {} => Objects(v)
         /\ Streams(w) /\ c \cap {"slot", "handles", "files", "directories", "sockets"} = {} => Streams(v)
         /\ ThreadsHeld(w) /\ c \cap {"handles", "threads"} = {} => ThreadsHeld(v)
         /\ \A d : WindowsHeld(w, d) /\ c \cap {"handles", "window", "windows"} = {} => WindowsHeld(v, d)
  <1>1. Mapping(w) /\ c \cap {"slot", "pages", "tables", "frames"} = {} => Mapping(v)
    <2> SUFFICES ASSUME Mapping(w), c \cap {"slot", "pages", "tables", "frames"} = {} PROVE Mapping(v)
      OBVIOUS
    <2>1. v.slot = w.slot /\ v.pages = w.pages /\ v.tables = w.tables /\ v.frames = w.frames
      BY FieldNames DEF Keeping
    <2> QED
      BY <2>1 DEF Mapping, Owned
  <1>2. Loaded(w) /\ c \cap {"pages", "tables", "threads"} = {} => Loaded(v)
    <2> SUFFICES ASSUME Loaded(w), c \cap {"pages", "tables", "threads"} = {} PROVE Loaded(v)
      OBVIOUS
    <2>1. v.pages = w.pages /\ v.tables = w.tables /\ v.threads = w.threads
      BY FieldNames DEF Keeping
    <2> QED
      BY <2>1 DEF Loaded
  <1>3. SurfaceHeld(w) /\ c \cap {"pages", "tables", "window"} = {} => SurfaceHeld(v)
    <2> SUFFICES ASSUME SurfaceHeld(w), c \cap {"pages", "tables", "window"} = {} PROVE SurfaceHeld(v)
      OBVIOUS
    <2>1. v.pages = w.pages /\ v.tables = w.tables /\ v.window = w.window
      BY FieldNames DEF Keeping
    <2> QED
      BY <2>1 DEF SurfaceHeld
  <1>4. WindowKept(w) /\ c \cap {"slot", "window", "windows", "heap", "ui"} = {} => WindowKept(v)
    <2> SUFFICES ASSUME WindowKept(w), c \cap {"slot", "window", "windows", "heap", "ui"} = {}
                 PROVE  WindowKept(v)
      OBVIOUS
    <2>1. v.slot = w.slot /\ v.window = w.window /\ v.windows = w.windows /\ v.heap = w.heap /\ v.ui = w.ui
      BY FieldNames DEF Keeping
    <2> QED
      BY <2>1 DEF WindowKept
  <1>5. Objects(w) /\ c \cap {"handles"} = {} => Objects(v)
    <2> SUFFICES ASSUME Objects(w), c \cap {"handles"} = {} PROVE Objects(v)
      OBVIOUS
    <2>1. v.handles = w.handles
      BY FieldNames DEF Keeping
    <2> QED
      BY <2>1 DEF Objects
  <1>6. Streams(w) /\ c \cap {"slot", "handles", "files", "directories", "sockets"} = {} => Streams(v)
    <2> SUFFICES ASSUME Streams(w), c \cap {"slot", "handles", "files", "directories", "sockets"} = {}
                 PROVE  Streams(v)
      OBVIOUS
    <2>1. /\ v.slot = w.slot /\ v.handles = w.handles /\ v.files = w.files
          /\ v.directories = w.directories /\ v.sockets = w.sockets
      BY FieldNames DEF Keeping
    <2> QED
      BY <2>1 DEF Streams, Held, Owned
  <1>7. ThreadsHeld(w) /\ c \cap {"handles", "threads"} = {} => ThreadsHeld(v)
    <2> SUFFICES ASSUME ThreadsHeld(w), c \cap {"handles", "threads"} = {} PROVE ThreadsHeld(v)
      OBVIOUS
    <2>1. v.handles = w.handles /\ v.threads = w.threads
      BY FieldNames DEF Keeping
    <2> QED
      BY <2>1 DEF ThreadsHeld, Held
  <1>8. ASSUME NEW d, WindowsHeld(w, d), c \cap {"handles", "window", "windows"} = {}
        PROVE  WindowsHeld(v, d)
    <2>1. v.handles = w.handles /\ v.window = w.window /\ v.windows = w.windows
      BY <1>8, FieldNames DEF Keeping
    <2> QED
      BY <1>8, <2>1 DEF WindowsHeld, Held
  <1> QED
    BY <1>1, <1>2, <1>3, <1>4, <1>5, <1>6, <1>7, <1>8

LEMMA LocalKept ==
  ASSUME NEW w, NEW v, NEW c, Keeping(w, v, c), Finite(w)
  PROVE  /\ c \cap {"frames"} = {} => FramesLocal(w, v)
         /\ c \cap {"heap"} = {} => HeapLocal(w, v)
         /\ c \cap {"sockets"} = {} => SocketsLocal(w, v)
         /\ c \cap {"ui"} = {} => UiLocal(w, v)
         /\ c \cap {"handles", "files"} = {} => FilesLocal(w, v)
         /\ Shape(v)
         /\ c \cap {"slot", "space", "aliases", "narrowed"} = {} =>
              /\ v.slot = w.slot /\ v.space = w.space
              /\ v.aliases = w.aliases /\ v.narrowed = w.narrowed
         /\ c \cap {"draws"} = {} => v.draws = w.draws
  BY FieldNames DEF Keeping, FramesLocal, HeapLocal, SocketsLocal, UiLocal, FilesLocal, Held, Finite

(* Fewer promises are easier kept.                                         *)
LEMMA WindowsHeldWeaker ==
  ASSUME NEW w, NEW d, NEW e, WindowsHeld(w, d), e => d
  PROVE  WindowsHeld(w, e)
  BY DEF WindowsHeld

(* The books of w, kept in another world that is the same to its process.  *)
LEMMA BooksMoved ==
  ASSUME NEW w, NEW v, NEW d \in BOOLEAN, NEW e \in BOOLEAN, Books(w, d), e => d,
         \A f \in ProcessFields \cup {"slot"} : v[f] = w[f],
         Own(v.frames, w.slot) = Own(w.frames, w.slot),
         Own(v.sockets, w.slot) = Own(w.sockets, w.slot),
         <<w.slot, "pixels">> \in v.heap <=> <<w.slot, "pixels">> \in w.heap,
         w.slot \in v.ui <=> w.slot \in w.ui,
         Held(w, "FILE") \subseteq v.files
  PROVE  Books(v, e)
  <1>1. /\ v.slot = w.slot /\ v.pages = w.pages /\ v.tables = w.tables /\ v.threads = w.threads
        /\ v.window = w.window /\ v.windows = w.windows /\ v.handles = w.handles
        /\ v.directories = w.directories
    BY DEF ProcessFields
  <1>2. \A t : Held(v, t) = Held(w, t)
    BY <1>1 DEF Held
  <1>3. Mapping(v)
    BY <1>1 DEF Books, Mapping, Owned
  <1>4. Loaded(v)
    BY <1>1 DEF Books, Loaded
  <1>5. SurfaceHeld(v)
    BY <1>1 DEF Books, SurfaceHeld
  <1>6. WindowKept(v)
    BY <1>1 DEF Books, WindowKept
  <1>7. Objects(v)
    BY <1>1 DEF Books, Objects
  <1>8. Streams(v)
    BY <1>1, <1>2 DEF Books, Streams, Owned
  <1>9. ThreadsHeld(v)
    BY <1>1, <1>2 DEF Books, ThreadsHeld
  <1>10. WindowsHeld(v, e)
    BY <1>1, <1>2 DEF Books, WindowsHeld
  <1> QED
    BY <1>3, <1>4, <1>5, <1>6, <1>7, <1>8, <1>9, <1>10 DEF Books

-----------------------------------------------------------------------------
(* From the books of the caller to the invariant.                          *)

LEMMA NamesOfFields ==
  /\ DOMAIN NoProcess = ProcessFields
  /\ {"calls", "exiting", "space", "aliases", "pages", "tables", "handles", "threads",
      "directories", "window", "windows"} \subseteq ProcessFields
  /\ {"frames", "heap", "narrowed", "files", "sockets", "ui"} \subseteq MachineFields
  BY DEF NoProcess, ProcessFields, MachineFields

LEMMA LiveSlots ==
  ASSUME AgesKept PROVE Live \subseteq Slot
  BY DEF AgesKept, Live, Range

LEMMA HeldOf ==
  ASSUME NEW w, NEW s, w.handles = process[s].handles
  PROVE  \A t : Held(w, t) = Holds(s, t)
  BY DEF Held, Holds

(* A slot whose process is gone: nothing of it is left in the machine.     *)
NothingOf(v) ==
  /\ \A f \in ProcessFields : v[f] = NoProcess[f]
  /\ Own(v.frames, v.slot) = {} /\ Own(v.sockets, v.slot) = {}
  /\ <<v.slot, "pixels">> \notin v.heap /\ v.slot \notin v.ui

(* One slot changes, whatever becomes of it; the others are left alone.    *)
LEMMA PlaceKeeps ==
  ASSUME IInv, NEW s \in Slot, NEW w, w = World(s), NEW v, Shape(v), v.slot = s, Stored(v),
         FramesLocal(w, v), HeapLocal(w, v), SocketsLocal(w, v), UiLocal(w, v), FilesLocal(w, v),
         NEW after \in Seq(Slot), ages' = after, v.narrowed = after,
         \A i, j \in 1..Len(after) : after[i] = after[j] => i = j,
         Range(after) \ {s} = Live \ {s},
         NEW e \in BOOLEAN, drawn' = e, e => drawn, e => cleanups',
         {scheduler_active', reaping'} \subseteq BOOLEAN, cleanups' \in BOOLEAN,
         s \in Range(after) => Books(v, e) /\ v.space /\ v.aliases,
         s \notin Range(after) => NothingOf(v)
  PROVE  IInv'
  <1>1. Live \subseteq Slot /\ Range(after) \subseteq Slot
    <2>1. Range(after) \subseteq Slot
      BY DEF Range
    <2> QED
      BY <2>1, LiveSlots DEF IInv
  <1>2. /\ Shape(w)
        /\ \A f \in ProcessFields : w[f] = process[s][f]
        /\ \A f \in MachineFields : w[f] = machine[f]
        /\ w.slot = s
    BY WorldFields DEF IInv
  <1>4. /\ process' = [process EXCEPT ![s] = [f \in ProcessFields |-> v[f]]]
        /\ machine' = [f \in MachineFields |-> v[f]]
    BY NamesOfFields DEF Stored, IInv, Shapes
  <1>5. /\ DOMAIN process' = Slot
        /\ \A t \in Slot : t # s => process'[t] = process[t]
        /\ process'[s] = [f \in ProcessFields |-> v[f]]
        /\ DOMAIN process'[s] = ProcessFields
        /\ \A f \in ProcessFields : process'[s][f] = v[f]
        /\ DOMAIN machine' = MachineFields
        /\ \A f \in MachineFields : machine'[f] = v[f]
    BY <1>4 DEF IInv, Shapes
  <1>6. Shapes'
    <2>1. \A t \in Slot : DOMAIN process'[t] = ProcessFields
      BY <1>5 DEF IInv, Shapes
    <2>2. drawn' \in BOOLEAN
      OBVIOUS
    <2> QED
      BY <1>5, <2>1, <2>2 DEF Shapes
  <1>7. /\ machine'.frames = v.frames /\ machine'.heap = v.heap /\ machine'.narrowed = v.narrowed
        /\ machine'.files = v.files /\ machine'.sockets = v.sockets /\ machine'.ui = v.ui
    BY <1>5, NamesOfFields
  <1>8. /\ w.frames = machine.frames /\ w.heap = machine.heap /\ w.narrowed = machine.narrowed
        /\ w.files = machine.files /\ w.sockets = machine.sockets /\ w.ui = machine.ui
    BY <1>2, NamesOfFields
  <1>9. Finite(machine')
    BY <1>7 DEF Finite, FramesLocal, SocketsLocal, FilesLocal
  <1>10. AgesKept'
    BY <1>7 DEF AgesKept
  <1>11. Live' = Range(after)
    BY DEF Live
  <1>13. /\ \A t : Holds(s, t) = Held(w, t)
         /\ \A t : Holds(s, t)' = Held(v, t)
         /\ \A x \in Slot \ {s} : \A t : Holds(x, t)' = Holds(x, t)
    <2>1. w.handles = process[s].handles /\ v.handles = process'[s].handles
      BY <1>2, <1>5, NamesOfFields
    <2>2. \A x \in Slot \ {s} : process'[x] = process[x]
      BY <1>5
    <2> QED
      BY <2>1, <2>2 DEF Holds, Held
  <1>20. /\ \A t \in Live' : t # s => t \in Live
         /\ \A t \in Live : t # s => t \in Live'
    BY <1>11
  <1>14. ASSUME NEW t \in Live, t # s
         PROVE  /\ Holds(t, "FILE") \subseteq v.files
                /\ Holds(t, "FILE") \cap Held(v, "FILE") = {}
    <2> PICK x : x = World(t)
      OBVIOUS
    <2>1. x.handles = process[t].handles /\ x.files = machine.files
      <3>1. /\ \A f \in ProcessFields : x[f] = process[t][f]
            /\ \A f \in MachineFields : x[f] = machine[f]
        BY <1>1, WorldFields DEF IInv
      <3> QED
        BY <3>1, NamesOfFields
    <2>2. Held(x, "FILE") = Holds(t, "FILE")
      BY <2>1, HeldOf
    <2>3. Holds(t, "FILE") \subseteq machine.files
      BY <2>1, <2>2 DEF IInv, LiveKept, Books, Streams
    <2>4. Holds(t, "FILE") \cap Held(w, "FILE") = {}
      <3>1. CASE s \in Live
        BY <1>13, <1>14, <3>1 DEF IInv, FilesApart
      <3>2. CASE s \notin Live
        <4>1. process[s].handles = NoHandles
          BY <3>2 DEF IInv, DeadCleared, NoProcess
        <4>2. Holds(s, "FILE") = {}
          BY <4>1 DEF Holds, NoHandles
        <4> QED
          BY <1>13, <4>2
      <3> QED
        BY <3>1, <3>2
    <2>5. v.files \ Held(v, "FILE") = machine.files \ Held(w, "FILE")
      BY <1>8 DEF FilesLocal
    <2> QED
      BY <2>3, <2>4, <2>5
  <1>15. ASSUME NEW t \in Live'
         PROVE  Books(World(t)', drawn') /\ process'[t].space /\ process'[t].aliases
    <2> PICK u : u = World(t)'
      OBVIOUS
    <2>1. /\ \A f \in ProcessFields : u[f] = process'[t][f]
          /\ \A f \in MachineFields : u[f] = machine'[f]
          /\ u.slot = t
      <3> PICK p : p = process'[t]
        OBVIOUS
      <3> PICK m : m = machine'
        OBVIOUS
      <3>1. u = WorldOf(p, m, t)
        BY DEF World, WorldOf
      <3>2. DOMAIN p = ProcessFields /\ DOMAIN m = MachineFields
        BY <1>1, <1>6, <1>11 DEF Shapes
      <3>3. /\ \A f \in ProcessFields : WorldOf(p, m, t)[f] = p[f]
            /\ \A f \in MachineFields : WorldOf(p, m, t)[f] = m[f]
            /\ WorldOf(p, m, t).slot = t
        BY <3>2, WorldParts
      <3> QED
        BY <3>1, <3>3
    <2>2. /\ u.frames = v.frames /\ u.heap = v.heap /\ u.files = v.files
          /\ u.sockets = v.sockets /\ u.ui = v.ui
      BY <1>7, <2>1, NamesOfFields
    <2>3. CASE t = s
      <3>1. \A f \in ProcessFields \cup {"slot"} : u[f] = v[f]
        BY <1>5, <2>1, <2>3
      <3>6. Books(v, e) /\ v.space /\ v.aliases
        BY <1>11, <2>3
      <3>2. Held(v, "FILE") \subseteq u.files
        BY <2>2, <3>6 DEF Books, Streams
      <3>4. Books(u, e)
        <4>1. Books(v, e) /\ (e => e)
          BY <3>6
        <4>2. /\ Own(u.frames, v.slot) = Own(v.frames, v.slot)
              /\ Own(u.sockets, v.slot) = Own(v.sockets, v.slot)
              /\ (<<v.slot, "pixels">> \in u.heap <=> <<v.slot, "pixels">> \in v.heap)
              /\ (v.slot \in u.ui <=> v.slot \in v.ui)
          BY <2>2
        <4> QED
          BY <3>1, <3>2, <4>1, <4>2, BooksMoved
      <3>5. process'[t].space = v.space /\ process'[t].aliases = v.aliases
        BY <1>5, <2>3, NamesOfFields
      <3> QED
        BY <3>4, <3>5, <3>6
    <2>4. CASE t # s
      <3>0. t \in Live
        BY <1>20, <2>4
      <3> PICK x : x = World(t)
        OBVIOUS
      <3>1. /\ \A f \in ProcessFields : x[f] = process[t][f]
            /\ \A f \in MachineFields : x[f] = machine[f]
            /\ x.slot = t
        BY <1>1, <3>0, WorldFields DEF IInv
      <3>2. process'[t] = process[t]
        BY <1>1, <1>5, <2>4, <3>0
      <3>3. \A f \in ProcessFields \cup {"slot"} : u[f] = x[f]
        BY <2>1, <3>1, <3>2
      <3>4. /\ x.frames = w.frames /\ x.heap = w.heap /\ x.sockets = w.sockets /\ x.ui = w.ui
            /\ x.handles = process[t].handles
        BY <1>8, <3>1, NamesOfFields
      <3>5. Own(u.frames, t) = Own(x.frames, t)
        <4>1. Own(v.frames, t) = Own(Others(v.frames, s), t) /\ Own(w.frames, t) = Own(Others(w.frames, s), t)
          BY <2>4 DEF Own, Others
        <4> QED
          BY <1>2, <2>2, <3>4, <4>1 DEF FramesLocal
      <3>6. Own(u.sockets, t) = Own(x.sockets, t)
        <4>1. Own(v.sockets, t) = Own(Others(v.sockets, s), t) /\ Own(w.sockets, t) = Own(Others(w.sockets, s), t)
          BY <2>4 DEF Own, Others
        <4> QED
          BY <1>2, <2>2, <3>4, <4>1 DEF SocketsLocal
      <3>7. <<t, "pixels">> \in u.heap <=> <<t, "pixels">> \in x.heap
        <4>1. \A h : <<t, "pixels">> \in Others(h, s) <=> <<t, "pixels">> \in h
          BY <2>4 DEF Others
        <4> QED
          BY <1>2, <2>2, <3>4, <4>1 DEF HeapLocal
      <3>8. t \in u.ui <=> t \in x.ui
        BY <1>2, <2>2, <2>4, <3>4 DEF UiLocal
      <3>9. Held(x, "FILE") \subseteq u.files
        BY <1>14, <2>2, <2>4, <3>0, <3>4, HeldOf
      <3>10. Books(x, drawn) /\ drawn \in BOOLEAN
        BY <3>0 DEF IInv, LiveKept, Shapes
      <3>11. Books(u, e)
        BY <3>1, <3>3, <3>5, <3>6, <3>7, <3>8, <3>9, <3>10, BooksMoved
      <3> QED
        BY <3>0, <3>2, <3>11 DEF IInv, LiveKept
    <2> QED
      BY <2>3, <2>4
  <1>16. LiveKept'
    BY <1>15 DEF LiveKept
  <1>17. DeadCleared'
    <2>1. ASSUME NEW t \in Slot, t \notin Range(after) PROVE process'[t] = NoProcess
      <3>1. CASE t = s
        <4>1. [f \in ProcessFields |-> v[f]] = [f \in ProcessFields |-> NoProcess[f]]
          BY <2>1, <3>1 DEF NothingOf
        <4>2. NoProcess = [f \in ProcessFields |-> NoProcess[f]]
          BY NamesOfFields DEF NoProcess
        <4> QED
          BY <1>5, <3>1, <4>1, <4>2
      <3>2. CASE t # s
        BY <1>5, <2>1, <3>2 DEF IInv, DeadCleared
      <3> QED
        BY <3>1, <3>2
    <2> QED
      BY <1>11, <2>1 DEF DeadCleared
  <1>18. NothingForeign'
    <2>1. \A x \in v.frames : x = <<x[1], x[2]>> /\ x[1] \in Live'
      <3>1. ASSUME NEW x \in v.frames, x[1] = s PROVE x = <<x[1], x[2]>> /\ x[1] \in Live'
        <4>0. x \in Own(v.frames, s)
          BY <3>1 DEF Own
        <4>1. s \in Range(after)
          BY <4>0 DEF NothingOf
        <4>2. x \in Owned(v, DOMAIN v.pages)
          BY <4>0, <4>1 DEF Books, Mapping
        <4> QED
          BY <1>11, <3>1, <4>1, <4>2 DEF Owned
      <3>2. ASSUME NEW x \in v.frames, x[1] # s PROVE x \in machine.frames
        BY <1>2, <1>8, <3>2 DEF FramesLocal, Others
      <3> QED
        BY <1>20, <3>1, <3>2 DEF IInv, NothingForeign
    <2>2. \A x \in v.heap : x = <<x[1], "pixels">> /\ x[1] \in Live'
      <3>1. ASSUME NEW x \in v.heap PROVE x = <<x[1], "pixels">>
        BY <1>2, <1>8 DEF HeapLocal, IInv, NothingForeign
      <3>2. ASSUME NEW x \in v.heap, x[1] = s PROVE s \in Live'
        <4>1. <<s, "pixels">> \in v.heap
          BY <3>1, <3>2
        <4> QED
          BY <1>11, <4>1 DEF NothingOf
      <3>3. ASSUME NEW x \in v.heap, x[1] # s PROVE x[1] \in Live'
        <4>1. x \in machine.heap
          BY <1>2, <1>8, <3>3 DEF HeapLocal, Others
        <4> QED
          BY <1>20, <3>3, <4>1 DEF IInv, NothingForeign
      <3> QED
        BY <3>1, <3>2, <3>3
    <2>3. \A x \in v.sockets : x = <<x[1], x[2]>> /\ x[1] \in Live'
      <3>1. ASSUME NEW x \in v.sockets, x[1] = s PROVE x = <<x[1], x[2]>> /\ x[1] \in Live'
        <4>0. x \in Own(v.sockets, s)
          BY <3>1 DEF Own
        <4>1. s \in Range(after)
          BY <4>0 DEF NothingOf
        <4>2. x \in Owned(v, Held(v, "SOCKET"))
          BY <4>0, <4>1 DEF Books, Streams
        <4> QED
          BY <1>11, <3>1, <4>1, <4>2 DEF Owned
      <3>2. ASSUME NEW x \in v.sockets, x[1] # s PROVE x \in machine.sockets
        BY <1>2, <1>8, <3>2 DEF SocketsLocal, Others
      <3> QED
        BY <1>20, <3>1, <3>2 DEF IInv, NothingForeign
    <2>4. v.ui \subseteq Live'
      <3>1. ASSUME NEW t \in v.ui, t # s PROVE t \in machine.ui
        BY <1>2, <1>8, <3>1 DEF UiLocal
      <3>2. s \in v.ui => s \in Range(after)
        BY DEF NothingOf
      <3> QED
        BY <1>11, <1>20, <3>1, <3>2 DEF IInv, NothingForeign
    <2>5. \A f \in v.files : \E t \in Live' : f \in Holds(t, "FILE")'
      <3>1. ASSUME NEW f \in v.files, f \notin Held(v, "FILE")
            PROVE  \E t \in Live' : f \in Holds(t, "FILE")'
        <4>1. f \in machine.files /\ f \notin Holds(s, "FILE")
          BY <1>8, <1>13, <3>1 DEF FilesLocal
        <4>2. PICK t \in Live : f \in Holds(t, "FILE")
          BY <4>1 DEF IInv, NothingForeign
        <4>3. t # s /\ t \in Slot
          BY <1>1, <4>1, <4>2
        <4> QED
          BY <1>13, <1>20, <4>2, <4>3
      <3>2. ASSUME NEW f \in v.files, f \in Held(v, "FILE") PROVE s \in Live'
        <4>1. Held(v, "FILE") # {}
          BY <3>2
        <4>2. NothingOf(v) => Held(v, "FILE") = {}
          BY NamesOfFields DEF NothingOf, Held, NoProcess, NoHandles
        <4> QED
          BY <1>11, <4>1, <4>2
      <3> QED
        BY <1>13, <3>1, <3>2
    <2> QED
      BY <1>7, <2>1, <2>2, <2>3, <2>4, <2>5 DEF NothingForeign
  <1>19. FilesApart'
    <2>1. ASSUME NEW a \in Live', NEW b \in Live', a # b
          PROVE  Holds(a, "FILE")' \cap Holds(b, "FILE")' = {}
      <3>0. a \in Slot /\ b \in Slot
        BY <1>1, <1>11
      <3>1. CASE a = s
        BY <1>13, <1>14, <1>20, <2>1, <3>0, <3>1
      <3>2. CASE b = s
        BY <1>13, <1>14, <1>20, <2>1, <3>0, <3>2
      <3>3. CASE a # s /\ b # s
        BY <1>13, <1>20, <2>1, <3>0, <3>3 DEF IInv, FilesApart
      <3> QED
        BY <3>1, <3>2, <3>3
    <2> QED
      BY <2>1 DEF FilesApart
  <1>21. drawn' => cleanups'
    OBVIOUS
  <1> QED
    BY <1>6, <1>9, <1>10, <1>16, <1>17, <1>18, <1>19, <1>21 DEF IInv

LEMMA CallKeeps ==
  ASSUME IInv, NEW s \in Live, NEW w, w = World(s), NEW v, Local(w, v),
         Books(v, drawn /\ v.draws), Done(v)
  PROVE  IInv'
  <1>1. s \in Slot
    BY LiveSlots DEF IInv
  <1>2. /\ w.slot = s /\ w.space = process[s].space /\ w.aliases = process[s].aliases
        /\ w.narrowed = machine.narrowed
    <2>1. /\ \A f \in ProcessFields : w[f] = process[s][f]
          /\ \A f \in MachineFields : w[f] = machine[f]
          /\ w.slot = s
      BY <1>1, WorldFields DEF IInv
    <2> QED
      BY <2>1, NamesOfFields
  <1>3. /\ Shape(v) /\ v.slot = s
        /\ v.space = w.space /\ v.aliases = w.aliases /\ v.narrowed = w.narrowed
        /\ v.draws \in BOOLEAN
        /\ FramesLocal(w, v) /\ HeapLocal(w, v) /\ SocketsLocal(w, v) /\ UiLocal(w, v) /\ FilesLocal(w, v)
    BY <1>2 DEF Local
  <1>4. /\ Stored(v) /\ ages' = ages /\ scheduler_active' = scheduler_active /\ cleanups' = cleanups
        /\ reaping' = TRUE /\ drawn' = (drawn /\ v.draws)
    BY DEF Done
  <1> PICK e \in BOOLEAN : e = (drawn /\ v.draws)
    OBVIOUS
  <1>5. drawn' = e /\ (e => drawn) /\ (e => cleanups') /\ cleanups' \in BOOLEAN
    BY <1>4 DEF IInv, Shapes
  <1>6. {scheduler_active', reaping'} \subseteq BOOLEAN
    BY <1>4 DEF IInv, Shapes
  <1> PICK after : after = ages
    OBVIOUS
  <1>7. /\ after \in Seq(Slot) /\ ages' = after /\ v.narrowed = after
        /\ \A i, j \in 1..Len(after) : after[i] = after[j] => i = j
    BY <1>2, <1>3, <1>4 DEF IInv, AgesKept
  <1>8. Range(after) \ {s} = Live \ {s} /\ s \in Range(after)
    BY DEF Live
  <1>9. v.space /\ v.aliases
    BY <1>2, <1>3 DEF IInv, LiveKept
  <1>10. Books(v, e)
    OBVIOUS
  <1> QED
    BY <1>1, <1>3, <1>4, <1>5, <1>6, <1>7, <1>8, <1>9, <1>10, PlaceKeeps

-----------------------------------------------------------------------------
(* The regions.                                                            *)

LEMMA SequenceOf ==
  ASSUME NEW n \in Nat, NEW S, NEW s \in [1..n -> S]
  PROVE  s \in Seq(Range(s)) /\ Len(s) = n /\ DOMAIN s = 1..n
  <1>1. s \in [1..n -> Range(s)]
    BY DEF Range
  <1>2. s \in Seq(Range(s))
    BY <1>1
  <1> QED
    BY <1>2

LEMMA StackPart ==
  ASSUME ResourceAssumption, NEW t
  PROVE  /\ Stack(t) \in Seq(Range(Stack(t))) /\ Len(Stack(t)) = StackPages
         /\ DOMAIN Stack(t) = 1..StackPages
         /\ \A i \in 1..StackPages : Stack(t)[i] = <<"stack", t, i>>
         /\ \A a \in Range(Stack(t)) : a[1] = "stack" /\ a[2] = t
  <1> PICK S : S = {<<"stack", t, i>> : i \in 1..StackPages}
    OBVIOUS
  <1>1. StackPages \in Nat
    BY DEF ResourceAssumption
  <1>2. Stack(t) \in [1..StackPages -> S] /\ \A i \in 1..StackPages : Stack(t)[i] = <<"stack", t, i>>
    BY DEF Stack
  <1>3. /\ Stack(t) \in Seq(Range(Stack(t))) /\ Len(Stack(t)) = StackPages
        /\ DOMAIN Stack(t) = 1..StackPages
    BY <1>1, <1>2, SequenceOf
  <1>4. ASSUME NEW a \in Range(Stack(t)) PROVE a[1] = "stack" /\ a[2] = t
    <2> PICK i \in 1..StackPages : a = <<"stack", t, i>>
      BY <1>2, <1>3 DEF Range
    <2> QED
      OBVIOUS
  <1> QED
    BY <1>2, <1>3, <1>4

LEMMA SurfacePart ==
  ASSUME ResourceAssumption
  PROVE  /\ Surface \in Seq(Range(Surface))
         /\ \A a \in Range(Surface) : a[1] = "surface"
  <1> PICK S : S = {<<"surface", i>> : i \in 1..SurfacePages}
    OBVIOUS
  <1>1. SurfacePages \in Nat
    BY DEF ResourceAssumption
  <1>2. Surface \in [1..SurfacePages -> S]
    BY DEF Surface
  <1>3. ASSUME NEW a \in Range(Surface) PROVE a[1] = "surface"
    <2> PICK i \in 1..SurfacePages : a = <<"surface", i>>
      BY DEF Surface, Range
    <2> QED
      OBVIOUS
  <1> QED
    BY <1>1, <1>2, <1>3, SequenceOf

LEMMA AnonPart ==
  ASSUME NEW base \in Nat, NEW count \in Nat
  PROVE  /\ Anon(base, count) \in Seq(Range(Anon(base, count)))
         /\ \A a \in Range(Anon(base, count)) :
              a[1] = "anon" /\ \E i \in base..(base + count - 1) : a = <<"anon", i>>
  <1>1. Anon(base, count) \in Seq(Range(Anon(base, count)))
    <2>1. Anon(base, count) \in [1..count -> {<<"anon", base + i - 1>> : i \in 1..count}]
      BY DEF Anon
    <2> QED
      BY <2>1, SequenceOf
  <1>2. ASSUME NEW a \in Range(Anon(base, count))
        PROVE  a[1] = "anon" /\ \E i \in base..(base + count - 1) : a = <<"anon", i>>
    <2> PICK i \in 1..count : a = <<"anon", base + i - 1>>
      BY DEF Anon, Range
    <2>1. base + i - 1 \in base..(base + count - 1)
      OBVIOUS
    <2> QED
      BY <2>1
  <1> QED
    BY <1>1, <1>2

LEMMA LoadPart ==
  ASSUME ResourceAssumption
  PROVE  /\ LoadOrder \in Seq(Range(LoadOrder))
         /\ <<"anon", 2>> \in Range(LoadOrder)
         /\ Range(Stack(0)) \subseteq Range(LoadOrder)
         /\ \A a \in Range(LoadOrder) :
              a = <<"image", 1>> \/ a = <<"anon", 2>> \/ a \in Range(Stack(0))
  <1> PICK st : st = Stack(0)
    OBVIOUS
  <1> PICK pre : pre = Image \o MainTls
    OBVIOUS
  <1>1. st \in Seq(Range(st)) /\ Len(st) \in Nat
    <2>1. st \in Seq(Range(st))
      BY StackPart
    <2> QED
      BY <2>1
  <1> PICK x : x = <<"image", 1>>
    OBVIOUS
  <1> PICK y : y = <<"anon", 2>>
    OBVIOUS
  <1>2. Image = <<x>> /\ MainTls = <<y>>
    BY DEF Image, MainTls
  <1>3. LoadOrder = pre \o st /\ pre = <<x>> \o <<y>>
    BY <1>2 DEF LoadOrder
  <1>13. pre \in Seq({x, y}) /\ Len(pre) = 2 /\ pre[1] = x /\ pre[2] = y
    <2>1. <<x>> \in Seq({x, y}) /\ <<y>> \in Seq({x, y}) /\ Len(<<x>>) = 1 /\ Len(<<y>>) = 1
      OBVIOUS
    <2> QED
      BY <1>3, <2>1
  <1>4. /\ Len(pre \o st) = 2 + Len(st)
        /\ (pre \o st)[1] = x /\ (pre \o st)[2] = y
        /\ \A i \in 1..Len(st) : (pre \o st)[i + 2] = st[i]
        /\ pre \o st \in Seq({x, y} \cup Range(st))
    <2> PICK S : S = {x, y} \cup Range(st)
      OBVIOUS
    <2>1. pre \in Seq(S) /\ st \in Seq(S)
      BY <1>1, <1>13, SeqMonotonic
    <2>2. /\ pre \o st \in Seq(S) /\ Len(pre \o st) = Len(pre) + Len(st)
          /\ \A i \in 1..(Len(pre) + Len(st)) :
               (pre \o st)[i] = IF i <= Len(pre) THEN pre[i] ELSE st[i - Len(pre)]
      BY <2>1, ConcatProperties
    <2> PICK n \in Nat : n = Len(st)
      BY <1>1
    <2>3. \A i \in 1..n : i + 2 \in 1..(2 + n) /\ ~(i + 2 <= 2) /\ (i + 2) - 2 = i
      OBVIOUS
    <2>4. 1 \in 1..(2 + n) /\ 2 \in 1..(2 + n)
      OBVIOUS
    <2>5. Len(pre \o st) = 2 + n /\ \A i \in 1..(2 + n) :
            (pre \o st)[i] = IF i <= 2 THEN pre[i] ELSE st[i - 2]
      BY <1>13, <2>2
    <2>6. (pre \o st)[1] = x /\ (pre \o st)[2] = y
      <3>1. 1 <= 2 /\ 2 <= 2
        OBVIOUS
      <3>2. (pre \o st)[1] = pre[1]
        BY <2>4, <2>5, <3>1
      <3>3. (pre \o st)[2] = pre[2]
        BY <2>4, <2>5, <3>1
      <3> QED
        BY <1>13, <3>2, <3>3
    <2>7. ASSUME NEW i \in 1..n PROVE (pre \o st)[i + 2] = st[i]
      BY <2>3, <2>5
    <2> QED
      BY <2>2, <2>5, <2>6, <2>7
  <1> PICK q : q = pre \o st
    OBVIOUS
  <1>5. DOMAIN q = 1..(2 + Len(st)) /\ DOMAIN st = 1..Len(st)
    BY <1>1, <1>4
  <1>6. ASSUME NEW i \in 1..Len(st) PROVE st[i] \in Range(q)
    <2>1. i + 2 \in 1..(2 + Len(st))
      BY <1>1
    <2>2. i + 2 \in DOMAIN q /\ q[i + 2] = st[i]
      BY <1>4, <1>5, <2>1
    <2> QED
      BY <2>2 DEF Range
  <1>7. x \in Range(q) /\ y \in Range(q)
    <2>1. 1 \in DOMAIN q /\ 2 \in DOMAIN q
      BY <1>1, <1>5
    <2> QED
      BY <1>4, <2>1 DEF Range
  <1>8. ASSUME NEW i \in DOMAIN q PROVE q[i] = x \/ q[i] = y \/ q[i] \in Range(st)
    <2>0. i \in 1..(2 + Len(st))
      BY <1>5
    <2>1. i = 1 \/ i = 2 \/ (i - 2 \in 1..Len(st) /\ i = (i - 2) + 2)
      <3> PICK n \in Nat : n = Len(st)
        BY <1>1
      <3>1. i \in 1..(2 + n)
        BY <2>0
      <3>2. \A j \in 1..(2 + n) : j = 1 \/ j = 2 \/ (j - 2 \in 1..n /\ j = (j - 2) + 2)
        OBVIOUS
      <3> QED
        BY <3>1, <3>2
    <2>2. ASSUME i - 2 \in 1..Len(st), i = (i - 2) + 2 PROVE q[i] \in Range(st)
      <3>1. q[i] = st[i - 2]
        BY <1>4, <2>2
      <3> QED
        BY <1>5, <2>2, <3>1 DEF Range
    <2> QED
      BY <1>4, <2>1, <2>2
  <1>9. q \in Seq(Range(q))
    <2>1. q \in Seq({x, y} \cup Range(st)) /\ 2 + Len(st) \in Nat
      BY <1>1, <1>4
    <2>2. q \in [1..(2 + Len(st)) -> {x, y} \cup Range(st)]
      <3>1. Len(q) = 2 + Len(st)
        BY <1>4
      <3>2. q \in [1..Len(q) -> {x, y} \cup Range(st)]
        BY <2>1, LenProperties
      <3> QED
        BY <3>1, <3>2
    <2> QED
      BY <2>1, <2>2, SequenceOf
  <1>10. Range(st) \subseteq Range(q)
    BY <1>5, <1>6 DEF Range
  <1>11. ASSUME NEW a \in Range(q) PROVE a = x \/ a = y \/ a \in Range(st)
    BY <1>8 DEF Range
  <1>12. q = LoadOrder
    BY <1>3
  <1> QED
    BY <1>7, <1>9, <1>10, <1>11, <1>12

-----------------------------------------------------------------------------
(* Each call keeps the books of its caller and leaves those of others.     *)

(* A world in which a call begins.                                         *)
Ready(w, d) ==
  /\ Shape(w) /\ Books(w, d) /\ Finite(w) /\ d \in BOOLEAN
  /\ w.ok \in BOOLEAN /\ w.ok /\ w.draws \in BOOLEAN /\ w.draws

Result(w, v, d) == Local(w, v) /\ Books(v, d /\ v.draws)

LEMMA BooksWeaker ==
  ASSUME NEW w, NEW d, NEW e, Books(w, d), e => d
  PROVE  Books(w, e)
  BY DEF Books, WindowsHeld

(* What a call that changed nothing but these leaves as it was.            *)
LEMMA OrdinaryResult ==
  ASSUME NEW w, NEW d, Ready(w, d), NEW v, NEW c, Keeping(w, v, c),
         c \cap {"slot", "space", "aliases", "narrowed", "draws"} = {}, Books(v, d),
         FramesLocal(w, v), HeapLocal(w, v), SocketsLocal(w, v), UiLocal(w, v), FilesLocal(w, v)
  PROVE  Result(w, v, d)
  <1>1. /\ Shape(v) /\ v.slot = w.slot /\ v.space = w.space
        /\ v.aliases = w.aliases /\ v.narrowed = w.narrowed
    BY FieldNames DEF Keeping
  <1>2. v.draws = w.draws
    BY FieldNames DEF Keeping
  <1>3. v.draws \in BOOLEAN
    BY <1>2 DEF Ready
  <1>4. Local(w, v)
    BY <1>1, <1>3 DEF Local
  <1>5. Books(v, d /\ v.draws)
    <2>1. d /\ v.draws => d
      OBVIOUS
    <2> QED
      BY <2>1, BooksWeaker
  <1> QED
    BY <1>4, <1>5 DEF Result

LEMMA RestoredResult ==
  ASSUME NEW w, NEW d, Ready(w, d), NEW r, Restored(w, r)
  PROVE  Result(w, r, d)
  <1> PICK c : c = {"pages", "tables", "frames", "ok"}
    OBVIOUS
  <1>1. Keeping(w, r, c) /\ r.slot = w.slot /\ r.threads = w.threads /\ r.window = w.window
    BY FieldNames DEF Restored, Keeping
  <1>2. Mapping(r)
    BY <1>1 DEF Ready, Books, Restored, Mapping, Owned
  <1>3. Loaded(r)
    BY <1>1 DEF Ready, Books, Restored, Loaded
  <1>4. SurfaceHeld(r)
    BY <1>1 DEF Ready, Books, Restored, SurfaceHeld
  <1>5. /\ c \cap {"slot", "window", "windows", "heap", "ui"} = {}
        /\ c \cap {"handles"} = {}
        /\ c \cap {"slot", "handles", "files", "directories", "sockets"} = {}
        /\ c \cap {"handles", "threads"} = {}
        /\ c \cap {"handles", "window", "windows"} = {}
        /\ c \cap {"slot", "space", "aliases", "narrowed", "draws"} = {}
    OBVIOUS
  <1>6. Books(r, d)
    BY <1>1, <1>2, <1>3, <1>4, <1>5, PartsKept DEF Ready, Books
  <1>7. FramesLocal(w, r)
    BY DEF Ready, Finite, Restored, FramesLocal
  <1>8. HeapLocal(w, r) /\ SocketsLocal(w, r) /\ UiLocal(w, r) /\ FilesLocal(w, r)
    <2>1. c \cap {"heap"} = {} /\ c \cap {"sockets"} = {} /\ c \cap {"ui"} = {} /\ c \cap {"handles", "files"} = {}
      OBVIOUS
    <2>2. Finite(w)
      BY DEF Ready
    <2> QED
      BY <1>1, <2>1, <2>2, LocalKept
  <1> QED
    BY <1>1, <1>5, <1>6, <1>7, <1>8, OrdinaryResult

LEMMA TerminateResult ==
  ASSUME NEW w, NEW d, Ready(w, d), NEW v, v = [w EXCEPT !.exiting = TRUE]
  PROVE  Result(w, v, d)
  <1> PICK c : c = {"exiting"}
    OBVIOUS
  <1>1. Keeping(w, v, c)
    BY FieldNames DEF Ready, Keeping, Shape
  <1>2. Books(v, d)
    BY <1>1, PartsKept DEF Ready, Books
  <1>3. FramesLocal(w, v) /\ HeapLocal(w, v) /\ SocketsLocal(w, v) /\ UiLocal(w, v) /\ FilesLocal(w, v)
    BY <1>1, LocalKept DEF Ready
  <1> QED
    BY <1>1, <1>2, <1>3, OrdinaryResult

(* A world whose frames, pages and tables changed, and nothing more that   *)
(* the books look at.                                                      *)
LEMMA PagesResult ==
  ASSUME NEW w, NEW d, Ready(w, d), NEW v,
         Keeping(w, v, {"pages", "tables", "frames", "ok", "exiting"}),
         Mapping(v), Loaded(v), SurfaceHeld(v), FramesLocal(w, v)
  PROVE  Result(w, v, d)
  <1> PICK c : c = {"pages", "tables", "frames", "ok", "exiting"}
    OBVIOUS
  <1>1. Keeping(w, v, c)
    OBVIOUS
  <1>2. WindowKept(v) /\ Objects(v) /\ Streams(v) /\ ThreadsHeld(v) /\ WindowsHeld(v, d)
    <2>1. /\ c \cap {"slot", "window", "windows", "heap", "ui"} = {} /\ c \cap {"handles"} = {}
          /\ c \cap {"slot", "handles", "files", "directories", "sockets"} = {}
          /\ c \cap {"handles", "threads"} = {} /\ c \cap {"handles", "window", "windows"} = {}
      OBVIOUS
    <2> QED
      BY <1>1, <2>1, PartsKept DEF Ready, Books
  <1>3. HeapLocal(w, v) /\ SocketsLocal(w, v) /\ UiLocal(w, v) /\ FilesLocal(w, v)
    <2>1. c \cap {"heap"} = {} /\ c \cap {"sockets"} = {} /\ c \cap {"ui"} = {} /\ c \cap {"handles", "files"} = {}
      OBVIOUS
    <2> QED
      BY <1>1, <2>1, LocalKept DEF Ready
  <1>4. c \cap {"slot", "space", "aliases", "narrowed", "draws"} = {}
    OBVIOUS
  <1>5. Books(v, d)
    BY <1>2 DEF Books
  <1> QED
    BY <1>1, <1>3, <1>4, <1>5, OrdinaryResult

(* Pages of the process beyond its image, its TLS block and its stacks.    *)
LEMMA GrewFrames ==
  ASSUME NEW w, Mapping(w), Finite(w), ResourceAssumption, NEW S, NEW wanted \in Seq(S), NEW kind \in Kinds,
         NEW n \in 0..Len(wanted), NEW m \in 0..Len(wanted), NEW g,
         GrownTo(w, g, wanted, kind, n, m)
  PROVE  /\ Mapping(g) /\ FramesLocal(w, g)
         /\ FreshPages(w, [a \in First(wanted, n) |-> kind])
         /\ First(wanted, m) \subseteq First(wanted, n)
  <1> PICK k : k = [a \in First(wanted, n) |-> kind]
    OBVIOUS
  <1>1. n \in Nat /\ m \in 0..n /\ FrameCount \in Nat
    BY DEF GrownTo, ResourceAssumption
  <1>2. First(wanted, m) \in SUBSET DOMAIN k
    BY <1>1, FirstFew
  <1>3. FreshPages(w, k)
    BY DEF GrownTo, allocate_page, Recorded, FreshPages
  <1>4. Mapping(g) /\ Others(g.frames, w.slot) = Others(w.frames, w.slot)
    BY <1>2, <1>3, GrewMaps DEF GrownTo
  <1>5. IsFiniteSet(g.frames) /\ Cardinality(g.frames) <= FrameCount
    <2>1. g.frames = w.frames \cup Owned(w, First(wanted, n))
      BY DEF GrownTo, Grew
    <2>2. allocate_page(w, wanted, n) /\ IsFiniteSet(w.frames)
      BY DEF GrownTo, Finite
    <2>3. /\ IsFiniteSet(w.frames \cup Owned(w, First(wanted, n)))
          /\ Cardinality(w.frames \cup Owned(w, First(wanted, n))) <= FrameCount
      BY <1>1, <2>2, FramesFit
    <2> QED
      BY <2>1, <2>3
  <1> QED
    BY <1>2, <1>3, <1>4, <1>5 DEF FramesLocal

LEMMA MapResult ==
  ASSUME NEW w, NEW d, Ready(w, d), ResourceAssumption,
         NEW base \in Nat, NEW count \in Nat,
         \A i \in base..(base + count - 1) : <<"anon", i>> \notin Recorded(w),
         NEW g \in Grown(w, Anon(base, count), "ANON"),
         NEW v, v = IF g.ok THEN g ELSE RolledBack(g, Anon(base, count))
  PROVE  Result(w, v, d)
  <1> PICK wanted : wanted = Anon(base, count)
    OBVIOUS
  <1>1. /\ wanted \in Seq(Range(wanted))
        /\ \A a \in Range(wanted) : a[1] = "anon" /\ a \notin Recorded(w)
    <2>1. \A a \in Range(wanted) : a[1] = "anon" /\ \E i \in base..(base + count - 1) : a = <<"anon", i>>
      BY AnonPart
    <2>2. \A a \in Range(wanted) : a \notin Recorded(w)
      BY <2>1
    <2> QED
      BY <2>1, <2>2, AnonPart
  <1>2. Shape(w) /\ Finite(w) /\ Books(w, d) /\ Mapping(w) /\ Loaded(w) /\ SurfaceHeld(w) /\ "ANON" \in Kinds
    BY DEF Ready, Books, Kinds
  <1>3. PICK n \in 0..Len(wanted), m \in 0..Len(wanted) : GrownTo(w, g, wanted, "ANON", n, m)
    BY <1>1, <1>2, GrownEnds
  <1>4. CASE ~g.ok
    <2>1. Range(wanted) \cap Recorded(w) = {}
      BY <1>1
    <2>2. Restored(w, v)
      BY <1>1, <1>2, <1>3, <1>4, <2>1, RolledBackRestores
    <2> QED
      BY <2>2, RestoredResult
  <1>5. CASE g.ok
    <2> PICK k : k = [a \in First(wanted, n) |-> "ANON"]
      OBVIOUS
    <2>1. Mapping(g) /\ FramesLocal(w, g) /\ FreshPages(w, k)
      BY <1>1, <1>2, <1>3, GrewFrames
    <2>2. /\ Keeping(w, g, {"pages", "tables", "frames", "ok"})
          /\ DOMAIN g.pages = DOMAIN w.pages \cup First(wanted, n)
          /\ \A a \in DOMAIN w.pages : g.pages[a] = w.pages[a]
          /\ w.tables \subseteq g.tables
      BY <1>3 DEF GrownTo, Grew
    <2>3. \A a \in First(wanted, n) : g.pages[a].kind = "ANON"
      BY <1>3 DEF GrownTo, Grew
    <2>4. \A a \in First(wanted, n) : a \in Range(wanted)
      <3>1. ASSUME NEW i \in 1..n PROVE wanted[i] \in Range(wanted)
        <4>1. Len(wanted) \in Nat /\ DOMAIN wanted = 1..Len(wanted)
          BY <1>1
        <4>2. i \in DOMAIN wanted
          BY <4>1
        <4> QED
          BY <4>2 DEF Range
      <3> QED
        BY <3>1 DEF First
    <2>5. <<"anon", 2>> \in Recorded(w)
      BY <1>2, LoadPart DEF Loaded, Mapping, Recorded
    <2>6. g.threads = w.threads /\ g.window = w.window
      BY <2>2, FieldNames DEF Keeping
    <2>7. \A a \in First(wanted, n) : a[1] = "anon" /\ a # <<"anon", 2>>
      BY <1>1, <2>4, <2>5
    <2>8. Loaded(g)
      <3>1. \A a \in DOMAIN g.pages : g.pages[a].kind = "ANON" => a[1] = "anon" /\ a # <<"anon", 2>>
        BY <1>2, <2>2, <2>7 DEF Loaded
      <3>2. \A a \in DOMAIN g.pages : a[1] = "stack" => a[2] \in 0..(g.threads - 1)
        BY <1>2, <2>2, <2>6, <2>7 DEF Loaded
      <3>3. /\ g.threads \in Nat \ {0} /\ Range(LoadOrder) \subseteq g.tables
            /\ \A t \in 0..(g.threads - 1) : Range(Stack(t)) \subseteq g.tables
        BY <1>2, <2>2, <2>6 DEF Loaded
      <3> QED
        BY <3>1, <3>2, <3>3 DEF Loaded
    <2>9. SurfaceHeld(g)
      <3>1. \A a \in DOMAIN g.pages :
              a[1] = "surface" => w.window.window_object_open /\ a \in Range(Surface) /\ g.pages[a].kind = "SURFACE"
        BY <1>2, <2>2, <2>7 DEF SurfaceHeld
      <3> QED
        BY <1>2, <2>2, <2>6, <3>1 DEF SurfaceHeld
    <2>10. Keeping(w, g, {"pages", "tables", "frames", "ok", "exiting"})
      BY <2>2, KeepingMore
    <2> QED
      BY <1>5, <2>1, <2>8, <2>9, <2>10, PagesResult
  <1> QED
    BY <1>4, <1>5

(* Pages that a process gives up.                                          *)
LEMMA ShrunkFrames ==
  ASSUME NEW w, NEW d, Ready(w, d), ResourceAssumption, NEW r,
         NEW S \in SUBSET DOMAIN w.pages, Shrunk(w, r, S)
  PROVE  FramesLocal(w, r) /\ Mapping(r)
  <1>1. Mapping(r) /\ Others(r.frames, w.slot) = Others(w.frames, w.slot)
    BY ShrunkMaps DEF Ready, Books
  <1>2. r.frames = w.frames \ Owned(w, S)
    BY DEF Shrunk
  <1>3. r.frames \in SUBSET w.frames
    BY <1>2
  <1>4. IsFiniteSet(w.frames) /\ Cardinality(w.frames) <= FrameCount
    BY DEF Ready, Finite
  <1>5. IsFiniteSet(r.frames) /\ Cardinality(r.frames) <= Cardinality(w.frames)
    BY <1>3, <1>4, FS_Subset
  <1>7. Cardinality(r.frames) <= FrameCount
    <2>1. Cardinality(r.frames) \in Nat /\ Cardinality(w.frames) \in Nat /\ FrameCount \in Nat
      BY <1>4, <1>5, FS_CardinalityType DEF ResourceAssumption
    <2> QED
      BY <1>4, <1>5, <2>1
  <1>6. FramesLocal(w, r)
    BY <1>1, <1>5, <1>7 DEF FramesLocal
  <1> QED
    BY <1>1, <1>6

LEMMA UnmapResult ==
  ASSUME NEW w, NEW d, Ready(w, d), ResourceAssumption, NEW S \in SUBSET DOMAIN w.pages,
         \A a \in S : w.pages[a].kind = "ANON", NEW r, r = Returned(w, S),
         NEW v, v = [r EXCEPT !.exiting = ~r.ok]
  PROVE  Result(w, v, d)
  <1>1. Shrunk(w, r, S)
    BY ReturnedShrinks DEF Ready, Books
  <1>2. FramesLocal(w, r) /\ Mapping(r)
    BY <1>1, ShrunkFrames
  <1>3. Keeping(w, r, {"pages", "tables", "frames"})
    BY <1>1 DEF Shrunk
  <1>4. Keeping(r, v, {"exiting"}) /\ Shape(v)
    BY <1>3, FieldNames DEF Keeping, Shape
  <1>5. Keeping(w, v, {"pages", "tables", "frames", "ok", "exiting"})
    BY <1>3, <1>4 DEF Keeping
  <1>6. /\ v.pages = r.pages /\ v.tables = r.tables /\ v.frames = r.frames
        /\ v.threads = w.threads /\ v.window = w.window /\ v.slot = w.slot /\ r.slot = w.slot
    BY <1>3, <1>4, <1>5, FieldNames DEF Keeping
  <1>7. Mapping(v)
    BY <1>2, <1>6 DEF Mapping, Owned
  <1>8. /\ DOMAIN v.pages = DOMAIN w.pages \ S
        /\ \A a \in DOMAIN v.pages : v.pages[a] = w.pages[a]
        /\ v.tables = w.tables \ S
    BY <1>1, <1>6 DEF Shrunk
  <1>9. Loaded(w) /\ SurfaceHeld(w)
    BY DEF Ready, Books
  <1>10. \A a \in S : a[1] = "anon" /\ a # <<"anon", 2>>
    BY <1>9 DEF Loaded
  <1>11. Loaded(v)
    <2>1. Range(LoadOrder) \cap S = {}
      <3>1. \A a \in Range(LoadOrder) : a = <<"image", 1>> \/ a = <<"anon", 2>> \/ a[1] = "stack"
        BY LoadPart, StackPart
      <3> QED
        BY <1>10, <3>1
    <2>2. \A t : Range(Stack(t)) \cap S = {}
      BY <1>10, StackPart
    <2> QED
      BY <1>6, <1>8, <1>9, <2>1, <2>2 DEF Loaded
  <1>12. SurfaceHeld(v)
    <2>1. Range(Surface) \cap S = {}
      BY <1>10, SurfacePart
    <2> QED
      BY <1>6, <1>8, <1>9, <2>1 DEF SurfaceHeld
  <1>13. FramesLocal(w, v)
    BY <1>2, <1>6 DEF FramesLocal
  <1> QED
    BY <1>5, <1>7, <1>11, <1>12, <1>13, PagesResult

-----------------------------------------------------------------------------
(* Handles.                                                                *)

(* A nonempty set of naturals has a least element.                         *)
LEMMA LeastNatural ==
  ASSUME NEW T \in SUBSET Nat, T # {}
  PROVE  \E x \in T : \A y \in T : x <= y
  <1>1. IsWellFoundedOn(OpToRel(<, Nat), Nat)
    BY NatLessThanWellFounded
  <1>2. PICK x \in T : \A y \in T : ~ (<<y, x>> \in OpToRel(<, Nat))
    BY <1>1, WFMin
  <1>3. ASSUME NEW y \in T, y < x PROVE FALSE
    <2>1. <<y, x>> \in Nat \X Nat /\ <<y, x>>[1] < <<y, x>>[2]
      BY <1>3
    <2>2. <<y, x>> \in OpToRel(<, Nat)
      BY <2>1 DEF OpToRel
    <2> QED
      BY <1>2, <1>3, <2>2
  <1> QED
    BY <1>3

LEMMA FirstFreeIsFree ==
  ASSUME NEW S, IsFiniteSet(S)
  PROVE  FirstFree(S) \notin S /\ FirstFree(S) \in Nat \ {0}
  <1> PICK n \in Nat : n = Cardinality(S)
    BY FS_CardinalityType
  <1> PICK T : T = (1..(n + 1)) \ S
    OBVIOUS
  <1>1. T # {} /\ T \in SUBSET Nat
    <2>1. ~ (1..(n + 1) \subseteq S)
      <3> SUFFICES ASSUME 1..(n + 1) \subseteq S PROVE FALSE
        OBVIOUS
      <3>1. Cardinality(1..(n + 1)) = n + 1
        BY FS_Interval
      <3>2. Cardinality(1..(n + 1)) <= Cardinality(S)
        BY FS_Subset
      <3> QED
        BY <3>1, <3>2
    <2> QED
      BY <2>1
  <1>2. PICK x \in T : \A y \in T : x <= y
    BY <1>1, LeastNatural
  <1>3. Min(T) \in T
    BY <1>2 DEF Min
  <1> QED
    BY <1>3 DEF FirstFree

LEMMA HeldMembers ==
  ASSUME NEW w, NEW t, NEW i
  PROVE  i \in Held(w, t) <=> \E o \in DOMAIN w.handles : o.type = t /\ o.id = i
  BY DEF Held

LEMMA ObjectOf ==
  ASSUME NEW t, NEW i
  PROVE  Object(t, i).type = t /\ Object(t, i).id = i
  BY DEF Object

(* A handle to a new object.                                               *)
LEMMA InstallGives ==
  ASSUME NEW w, Shape(w), Objects(w), NEW t \in HandleTypes, NEW i, NEW v,
         v = native_handle_install(w, Object(t, i))
  PROVE  /\ Keeping(w, v, {"handles"}) /\ Objects(v)
         /\ Held(v, t) = Held(w, t) \cup {i}
         /\ \A u : u # t => Held(v, u) = Held(w, u)
  <1> PICK o : o = Object(t, i)
    OBVIOUS
  <1> PICK h : h = Joined(w.handles, [x \in {o} |-> 1])
    OBVIOUS
  <1>1. DOMAIN h = DOMAIN w.handles \cup {o}
    BY DEF Joined
  <1>2. /\ \A x \in DOMAIN w.handles : h[x] = w.handles[x]
        /\ o \notin DOMAIN w.handles => h[o] = 1
    BY DEF Joined
  <1>3. v = [w EXCEPT !.handles = h]
    BY DEF native_handle_install
  <1>4. v.handles = h /\ Keeping(w, v, {"handles"})
    BY <1>3, FieldNames DEF Keeping, Shape
  <1>5. o.type = t /\ o.id = i /\ o = Object(o.type, o.id)
    BY ObjectOf
  <1>6. Objects(v)
    <2>1. 1 \in Nat \ {0}
      OBVIOUS
    <2> QED
      BY <1>1, <1>2, <1>4, <1>5, <2>1 DEF Objects
  <1>7. Held(v, t) = Held(w, t) \cup {i}
    BY <1>1, <1>4, <1>5 DEF Held
  <1>8. \A u : u # t => Held(v, u) = Held(w, u)
    BY <1>1, <1>4, <1>5 DEF Held
  <1> QED
    BY <1>4, <1>6, <1>7, <1>8

(* A world whose handles changed, with the streams behind them.            *)
LEMMA HandlesResult ==
  ASSUME NEW w, NEW d, Ready(w, d), NEW v,
         Keeping(w, v, {"handles", "files", "directories", "sockets", "ok"}),
         Objects(v), Streams(v), ThreadsHeld(v), WindowsHeld(v, d), SocketsLocal(w, v), FilesLocal(w, v)
  PROVE  Result(w, v, d)
  <1> PICK c : c = {"handles", "files", "directories", "sockets", "ok"}
    OBVIOUS
  <1>1. Keeping(w, v, c)
    OBVIOUS
  <1>2. Mapping(v) /\ Loaded(v) /\ SurfaceHeld(v) /\ WindowKept(v)
    <2>1. /\ c \cap {"slot", "pages", "tables", "frames"} = {} /\ c \cap {"pages", "tables", "threads"} = {}
          /\ c \cap {"pages", "tables", "window"} = {}
          /\ c \cap {"slot", "window", "windows", "heap", "ui"} = {}
      OBVIOUS
    <2> QED
      BY <1>1, <2>1, PartsKept DEF Ready, Books
  <1>3. FramesLocal(w, v) /\ HeapLocal(w, v) /\ UiLocal(w, v)
    <2>1. c \cap {"frames"} = {} /\ c \cap {"heap"} = {} /\ c \cap {"ui"} = {}
      OBVIOUS
    <2> QED
      BY <1>1, <2>1, LocalKept DEF Ready
  <1>4. c \cap {"slot", "space", "aliases", "narrowed", "draws"} = {}
    OBVIOUS
  <1>5. Books(v, d)
    BY <1>2 DEF Books
  <1> QED
    BY <1>1, <1>3, <1>4, <1>5, OrdinaryResult

(* A call that undid what it did.                                          *)
LEMMA NothingResult ==
  ASSUME NEW w, NEW d, Ready(w, d), NEW v, Keeping(w, v, {"ok"})
  PROVE  Result(w, v, d)
  <1> PICK c : c = {"ok"}
    OBVIOUS
  <1>1. Keeping(w, v, c)
    OBVIOUS
  <1>2. Books(v, d)
    BY <1>1, PartsKept DEF Ready, Books
  <1>3. FramesLocal(w, v) /\ HeapLocal(w, v) /\ SocketsLocal(w, v) /\ UiLocal(w, v) /\ FilesLocal(w, v)
    BY <1>1, LocalKept DEF Ready
  <1> QED
    BY <1>1, <1>2, <1>3, OrdinaryResult

(* What the books say of the handles, taken apart.                         *)
LEMMA ReadyParts ==
  ASSUME NEW w, NEW d, Ready(w, d)
  PROVE  /\ Shape(w) /\ Mapping(w) /\ Loaded(w) /\ SurfaceHeld(w) /\ WindowKept(w)
         /\ Objects(w) /\ Streams(w) /\ ThreadsHeld(w) /\ WindowsHeld(w, d)
         /\ Finite(w)
  BY DEF Ready, Books

(* A handle to an object that is neither a thread's nor a window's.        *)
LEMMA StreamResult ==
  ASSUME NEW w, NEW d, Ready(w, d), NEW t \in {"FILE", "DIRECTORY", "SOCKET", "TIMER"}, NEW i,
         NEW o, Keeping(w, o, {"files", "directories", "sockets"}),
         NEW v, v = native_handle_install(o, Object(t, i)),
         Streams(v), SocketsLocal(w, v), FilesLocal(w, v)
  PROVE  Result(w, v, d)
  <1>1. Shape(o) /\ o.handles = w.handles
    BY FieldNames DEF Keeping
  <1>2. \A u : Held(o, u) = Held(w, u)
    BY <1>1 DEF Held
  <1>3. Objects(o)
    BY <1>1, ReadyParts DEF Objects
  <1>4. t \in HandleTypes
    BY DEF HandleTypes
  <1>5. /\ Keeping(o, v, {"handles"}) /\ Objects(v)
        /\ \A u : u # t => Held(v, u) = Held(o, u)
    BY <1>1, <1>3, <1>4, InstallGives
  <1>6. Keeping(w, v, {"handles", "files", "directories", "sockets", "ok"})
    <2>1. Keeping(w, v, {"files", "directories", "sockets"} \cup {"handles"})
      BY <1>5, KeepingTrans
    <2> QED
      BY <2>1, KeepingMore
  <1>7. /\ Held(v, "THREAD") = Held(w, "THREAD") /\ Held(v, "WINDOW") = Held(w, "WINDOW")
        /\ Held(v, "EVENT_QUEUE") = Held(w, "EVENT_QUEUE")
    BY <1>2, <1>5
  <1>8. v.threads = w.threads /\ v.window = w.window /\ v.windows = w.windows
    BY <1>6, FieldNames DEF Keeping
  <1>9. ThreadsHeld(v)
    BY <1>7, <1>8, ReadyParts DEF ThreadsHeld
  <1>10. WindowsHeld(v, d)
    BY <1>7, <1>8, ReadyParts DEF WindowsHeld
  <1> QED
    BY <1>5, <1>6, <1>9, <1>10, HandlesResult

FileOpened(w, i) ==
  LET o == [w EXCEPT !.files = @ \cup {i}]
  IN IF Full(w) THEN [o EXCEPT !.files = @ \ {i}]
     ELSE native_handle_install(o, Object("FILE", i))

LEMMA FileOpenResult ==
  ASSUME NEW w, NEW d, Ready(w, d), NEW i, i \notin w.files,
         NEW v, v = FileOpened(w, i)
  PROVE  Result(w, v, d)
  <1> PICK o : o = [w EXCEPT !.files = @ \cup {i}]
    OBVIOUS
  <1>0. v = IF Full(w) THEN [o EXCEPT !.files = @ \ {i}]
            ELSE native_handle_install(o, Object("FILE", i))
    BY DEF FileOpened
  <1>1. Shape(w) /\ Objects(w) /\ Streams(w) /\ Finite(w)
    BY ReadyParts
  <1>2. Keeping(w, o, {"files"}) /\ o.files = w.files \cup {i}
    BY <1>1, FieldNames DEF Keeping, Shape
  <1>3. CASE Full(w)
    <2>1. v = [o EXCEPT !.files = @ \ {i}]
      BY <1>0, <1>3
    <2>2. Shape(o)
      BY <1>2 DEF Keeping
    <2>3. Keeping(o, v, {"files"}) /\ v.files = o.files \ {i}
      BY <2>1, <2>2, FieldNames DEF Keeping, Shape
    <2>4. v.files = w.files
      BY <1>2, <2>3
    <2>5. Keeping(w, v, {"ok"})
      BY <1>2, <2>3, <2>4 DEF Keeping
    <2> QED
      BY <2>5, NothingResult
  <1>4. CASE ~Full(w)
    <2>1. v = native_handle_install(o, Object("FILE", i))
      BY <1>0, <1>4
    <2>2. /\ Shape(o) /\ o.handles = w.handles /\ o.slot = w.slot /\ o.directories = w.directories
          /\ o.sockets = w.sockets
      BY <1>2, FieldNames DEF Keeping
    <2>3. \A u : Held(o, u) = Held(w, u)
      BY <2>2 DEF Held
    <2>4. Objects(o) /\ "FILE" \in HandleTypes
      BY <1>1, <2>2 DEF Objects, HandleTypes
    <2>5. /\ Keeping(o, v, {"handles"})
          /\ Held(v, "FILE") = Held(o, "FILE") \cup {i}
          /\ \A u : u # "FILE" => Held(v, u) = Held(o, u)
      BY ONLY <2>1, <2>2, <2>4, InstallGives
    <2>6. /\ v.files = w.files \cup {i} /\ v.slot = w.slot /\ v.directories = w.directories
          /\ v.sockets = w.sockets
      BY <1>2, <2>2, <2>5, FieldNames DEF Keeping
    <2>7. /\ Held(v, "FILE") = Held(w, "FILE") \cup {i}
          /\ Held(v, "DIRECTORY") = Held(w, "DIRECTORY") /\ Held(v, "SOCKET") = Held(w, "SOCKET")
      BY <2>3, <2>5
    <2>8. Streams(v)
      BY <1>1, <2>6, <2>7 DEF Streams, Owned
    <2>9. FilesLocal(w, v)
      <3>1. IsFiniteSet(v.files)
        <4>1. IsFiniteSet(w.files)
          BY <1>1 DEF Finite
        <4>2. IsFiniteSet(w.files \cup {i})
          BY <4>1, FS_AddElement
        <4> QED
          BY <2>6, <4>2
      <3>2. v.files \ Held(v, "FILE") = w.files \ Held(w, "FILE")
        BY <2>6, <2>7
      <3> QED
        BY <3>1, <3>2 DEF FilesLocal
    <2>10. SocketsLocal(w, v)
      BY <1>1, <2>6 DEF SocketsLocal, Finite
    <2>11. Keeping(w, o, {"files", "directories", "sockets"})
      BY <1>2, KeepingMore
    <2> QED
      BY <2>1, <2>8, <2>9, <2>10, <2>11, StreamResult
  <1> QED
    BY <1>3, <1>4

DirectoryOpened(w, i) ==
  LET o == [w EXCEPT !.directories = @ \cup {i}]
  IN IF Full(w) THEN [o EXCEPT !.directories = @ \ {i}]
     ELSE native_handle_install(o, Object("DIRECTORY", i))

LEMMA DirectoryOpenResult ==
  ASSUME NEW w, NEW d, Ready(w, d), NEW i, i \notin w.directories,
         NEW v, v = DirectoryOpened(w, i)
  PROVE  Result(w, v, d)
  <1> PICK o : o = [w EXCEPT !.directories = @ \cup {i}]
    OBVIOUS
  <1>0. v = IF Full(w) THEN [o EXCEPT !.directories = @ \ {i}]
            ELSE native_handle_install(o, Object("DIRECTORY", i))
    BY DEF DirectoryOpened
  <1>1. Shape(w) /\ Objects(w) /\ Streams(w) /\ Finite(w)
    BY ReadyParts
  <1>2. Keeping(w, o, {"directories"}) /\ o.directories = w.directories \cup {i}
    BY <1>1, FieldNames DEF Keeping, Shape
  <1>3. CASE Full(w)
    <2>1. v = [o EXCEPT !.directories = @ \ {i}]
      BY <1>0, <1>3
    <2>2. Shape(o)
      BY <1>2 DEF Keeping
    <2>3. Keeping(o, v, {"directories"}) /\ v.directories = o.directories \ {i}
      BY <2>1, <2>2, FieldNames DEF Keeping, Shape
    <2>4. v.directories = w.directories
      BY <1>2, <2>3
    <2>5. Keeping(w, v, {"ok"})
      BY <1>2, <2>3, <2>4 DEF Keeping
    <2> QED
      BY <2>5, NothingResult
  <1>4. CASE ~Full(w)
    <2>1. v = native_handle_install(o, Object("DIRECTORY", i))
      BY <1>0, <1>4
    <2>2. /\ Shape(o) /\ o.handles = w.handles /\ o.slot = w.slot /\ o.files = w.files
          /\ o.sockets = w.sockets
      BY <1>2, FieldNames DEF Keeping
    <2>3. \A u : Held(o, u) = Held(w, u)
      BY <2>2 DEF Held
    <2>4. Objects(o) /\ "DIRECTORY" \in HandleTypes
      BY <1>1, <2>2 DEF Objects, HandleTypes
    <2>5. /\ Keeping(o, v, {"handles"})
          /\ Held(v, "DIRECTORY") = Held(o, "DIRECTORY") \cup {i}
          /\ \A u : u # "DIRECTORY" => Held(v, u) = Held(o, u)
      BY ONLY <2>1, <2>2, <2>4, InstallGives
    <2>6. /\ v.directories = w.directories \cup {i} /\ v.slot = w.slot /\ v.files = w.files
          /\ v.sockets = w.sockets
      BY <1>2, <2>2, <2>5, FieldNames DEF Keeping
    <2>7. /\ Held(v, "DIRECTORY") = Held(w, "DIRECTORY") \cup {i}
          /\ Held(v, "FILE") = Held(w, "FILE") /\ Held(v, "SOCKET") = Held(w, "SOCKET")
      BY <2>3, <2>5
    <2>8. Streams(v)
      <3>1. IsFiniteSet(v.directories)
        <4>1. IsFiniteSet(w.directories)
          BY <1>1 DEF Streams
        <4>2. IsFiniteSet(w.directories \cup {i})
          BY <4>1, FS_AddElement
        <4> QED
          BY <2>6, <4>2
      <3>2. Owned(v, Held(v, "SOCKET")) = Owned(w, Held(w, "SOCKET"))
        BY <2>6, <2>7 DEF Owned
      <3>3. Held(v, "DIRECTORY") = v.directories
        BY <1>1, <2>6, <2>7 DEF Streams
      <3> QED
        BY <1>1, <2>6, <2>7, <3>1, <3>2, <3>3 DEF Streams
    <2>9. FilesLocal(w, v)
      BY <1>1, <2>6, <2>7 DEF FilesLocal, Finite
    <2>10. SocketsLocal(w, v)
      BY <1>1, <2>6 DEF SocketsLocal, Finite
    <2>11. Keeping(w, o, {"files", "directories", "sockets"})
      BY <1>2, KeepingMore
    <2> QED
      BY <2>1, <2>8, <2>9, <2>10, <2>11, StreamResult
  <1> QED
    BY <1>3, <1>4

SocketOpened(w, i) ==
  LET o == [w EXCEPT !.sockets = @ \cup {<<w.slot, i>>}]
  IN IF Full(w) THEN [o EXCEPT !.sockets = @ \ {<<w.slot, i>>}]
     ELSE native_handle_install(o, Object("SOCKET", i))

LEMMA SocketOpenResult ==
  ASSUME NEW w, NEW d, Ready(w, d), NEW i, <<w.slot, i>> \notin w.sockets,
         NEW v, v = SocketOpened(w, i)
  PROVE  Result(w, v, d)
  <1> PICK o : o = [w EXCEPT !.sockets = @ \cup {<<w.slot, i>>}]
    OBVIOUS
  <1>0. v = IF Full(w) THEN [o EXCEPT !.sockets = @ \ {<<w.slot, i>>}]
            ELSE native_handle_install(o, Object("SOCKET", i))
    BY DEF SocketOpened
  <1>1. Shape(w) /\ Objects(w) /\ Streams(w) /\ Finite(w)
    BY ReadyParts
  <1>2. Keeping(w, o, {"sockets"}) /\ o.sockets = w.sockets \cup {<<w.slot, i>>}
    BY <1>1, FieldNames DEF Keeping, Shape
  <1>3. CASE Full(w)
    <2>1. v = [o EXCEPT !.sockets = @ \ {<<w.slot, i>>}]
      BY <1>0, <1>3
    <2>2. Shape(o)
      BY <1>2 DEF Keeping
    <2>3. Keeping(o, v, {"sockets"}) /\ v.sockets = o.sockets \ {<<w.slot, i>>}
      BY <2>1, <2>2, FieldNames DEF Keeping, Shape
    <2>4. v.sockets = w.sockets
      BY <1>2, <2>3
    <2>5. Keeping(w, v, {"ok"})
      BY <1>2, <2>3, <2>4 DEF Keeping
    <2> QED
      BY <2>5, NothingResult
  <1>4. CASE ~Full(w)
    <2>1. v = native_handle_install(o, Object("SOCKET", i))
      BY <1>0, <1>4
    <2>2. /\ Shape(o) /\ o.handles = w.handles /\ o.slot = w.slot /\ o.directories = w.directories
          /\ o.files = w.files
      BY <1>2, FieldNames DEF Keeping
    <2>3. \A u : Held(o, u) = Held(w, u)
      BY <2>2 DEF Held
    <2>4. Objects(o) /\ "SOCKET" \in HandleTypes
      BY <1>1, <2>2 DEF Objects, HandleTypes
    <2>5. /\ Keeping(o, v, {"handles"})
          /\ Held(v, "SOCKET") = Held(o, "SOCKET") \cup {i}
          /\ \A u : u # "SOCKET" => Held(v, u) = Held(o, u)
      BY ONLY <2>1, <2>2, <2>4, InstallGives
    <2>6. /\ v.sockets = w.sockets \cup {<<w.slot, i>>} /\ v.slot = w.slot /\ v.directories = w.directories
          /\ v.files = w.files
      BY <1>2, <2>2, <2>5, FieldNames DEF Keeping
    <2>7. /\ Held(v, "SOCKET") = Held(w, "SOCKET") \cup {i}
          /\ Held(v, "DIRECTORY") = Held(w, "DIRECTORY") /\ Held(v, "FILE") = Held(w, "FILE")
      BY <2>3, <2>5
    <2>8. Streams(v)
      <3>1. Owned(v, Held(v, "SOCKET")) = Owned(w, Held(w, "SOCKET")) \cup {<<w.slot, i>>}
        BY <2>6, <2>7 DEF Owned
      <3>2. Own(v.sockets, v.slot) = Own(w.sockets, w.slot) \cup {<<w.slot, i>>}
        BY <2>6 DEF Own
      <3> QED
        BY <1>1, <2>6, <2>7, <3>1, <3>2 DEF Streams
    <2>9. FilesLocal(w, v)
      BY <1>1, <2>6, <2>7 DEF FilesLocal, Finite
    <2>10. SocketsLocal(w, v)
      <3>1. Others(v.sockets, w.slot) = Others(w.sockets, w.slot)
        BY <2>6 DEF Others
      <3>2. IsFiniteSet(v.sockets)
        <4>1. IsFiniteSet(w.sockets)
          BY <1>1 DEF Finite
        <4>2. IsFiniteSet(w.sockets \cup {<<w.slot, i>>})
          BY <4>1, FS_AddElement
        <4> QED
          BY <2>6, <4>2
      <3> QED
        BY <3>1, <3>2 DEF SocketsLocal
    <2>11. Keeping(w, o, {"files", "directories", "sockets"})
      BY <1>2, KeepingMore
    <2> QED
      BY <2>1, <2>8, <2>9, <2>10, <2>11, StreamResult
  <1> QED
    BY <1>3, <1>4

LEMMA TimerResult ==
  ASSUME NEW w, NEW d, Ready(w, d), NEW i, NEW v, v = native_handle_install(w, Object("TIMER", i))
  PROVE  Result(w, v, d)
  <1>1. Shape(w) /\ Objects(w) /\ Streams(w) /\ Finite(w) /\ "TIMER" \in HandleTypes
    BY ReadyParts DEF HandleTypes
  <1>2. /\ Keeping(w, v, {"handles"})
        /\ \A u : u # "TIMER" => Held(v, u) = Held(w, u)
    BY <1>1, InstallGives
  <1>3. /\ v.slot = w.slot /\ v.files = w.files /\ v.directories = w.directories /\ v.sockets = w.sockets
    BY <1>2, FieldNames DEF Keeping
  <1>4. /\ Held(v, "FILE") = Held(w, "FILE") /\ Held(v, "DIRECTORY") = Held(w, "DIRECTORY")
        /\ Held(v, "SOCKET") = Held(w, "SOCKET")
    BY <1>2
  <1>5. Streams(v)
    BY <1>1, <1>3, <1>4 DEF Streams, Owned
  <1>6. FilesLocal(w, v) /\ SocketsLocal(w, v)
    BY <1>1, <1>3, <1>4 DEF FilesLocal, SocketsLocal, Finite
  <1>7. Keeping(w, w, {"files", "directories", "sockets"})
    BY <1>1 DEF Keeping
  <1> QED
    BY <1>5, <1>6, <1>7, StreamResult

(* A handle that is counted up or down, but not to nothing.                *)
LEMMA CountResult ==
  ASSUME NEW w, NEW d, Ready(w, d), NEW o \in DOMAIN w.handles, NEW n \in Nat \ {0},
         NEW v, v = [w EXCEPT !.handles[o] = n]
  PROVE  Result(w, v, d)
  <1>1. /\ Shape(w) /\ Objects(w) /\ Streams(w) /\ ThreadsHeld(w) /\ WindowsHeld(w, d)
        /\ Finite(w)
    BY ReadyParts
  <1> PICK h : h = [w.handles EXCEPT ![o] = n]
    OBVIOUS
  <1>2. /\ DOMAIN h = DOMAIN w.handles
        /\ \A x \in DOMAIN h : h[x] = w.handles[x] \/ h[x] = n
    OBVIOUS
  <1>3. Keeping(w, v, {"handles"}) /\ v.handles = h
    <2>1. v = [w EXCEPT !.handles = h]
      OBVIOUS
    <2> QED
      BY <1>1, <2>1, FieldNames DEF Keeping, Shape
  <1>4. \A t : Held(v, t) = Held(w, t)
    BY <1>2, <1>3 DEF Held
  <1>5. /\ v.slot = w.slot /\ v.files = w.files /\ v.directories = w.directories
        /\ v.sockets = w.sockets /\ v.threads = w.threads /\ v.window = w.window
        /\ v.windows = w.windows
    BY <1>3, FieldNames DEF Keeping
  <1>6. Objects(v)
    BY <1>1, <1>2, <1>3 DEF Objects
  <1>7. Streams(v)
    BY <1>1, <1>4, <1>5 DEF Streams, Owned
  <1>8. ThreadsHeld(v) /\ WindowsHeld(v, d)
    BY <1>1, <1>4, <1>5 DEF ThreadsHeld, WindowsHeld
  <1>9. FilesLocal(w, v) /\ SocketsLocal(w, v)
    BY <1>1, <1>4, <1>5 DEF FilesLocal, SocketsLocal, Finite
  <1>10. Keeping(w, v, {"handles", "files", "directories", "sockets", "ok"})
    BY <1>3, KeepingMore
  <1> QED
    BY <1>6, <1>7, <1>8, <1>9, <1>10, HandlesResult

-----------------------------------------------------------------------------
(* Threads.                                                                *)

(* The stack of the next thread is nobody's, so it can be taken.           *)
LEMMA NextStackFree ==
  ASSUME NEW w, ResourceAssumption, Loaded(w)
  PROVE  /\ Range(Stack(w.threads)) \cap Recorded(w) = {}
         /\ Range(Stack(w.threads)) \cap Range(LoadOrder) = {}
         /\ \A t \in 0..(w.threads - 1) : Range(Stack(w.threads)) \cap Range(Stack(t)) = {}
  <1> PICK n \in Nat \ {0} : n = w.threads
    BY DEF Loaded
  <1>1. \A a \in Range(Stack(n)) : a[1] = "stack" /\ a[2] = n
    BY StackPart
  <1>2. ~(n \in 0..(n - 1)) /\ n # 0
    OBVIOUS
  <1>3. Range(Stack(n)) \cap Recorded(w) = {}
    BY <1>1, <1>2 DEF Loaded, Recorded
  <1>4. Range(Stack(n)) \cap Range(LoadOrder) = {}
    <2>1. \A a \in Range(LoadOrder) : a = <<"image", 1>> \/ a = <<"anon", 2>> \/ a[2] = 0
      BY LoadPart, StackPart
    <2>2. \A a \in Range(Stack(n)) : a # <<"image", 1>> /\ a # <<"anon", 2>> /\ a[2] # 0
      BY <1>1, <1>2
    <2> QED
      BY <2>1, <2>2
  <1>5. ASSUME NEW t \in 0..(n - 1) PROVE Range(Stack(n)) \cap Range(Stack(t)) = {}
    <2>1. t # n
      OBVIOUS
    <2>2. \A a \in Range(Stack(t)) : a[2] = t
      BY StackPart
    <2> QED
      BY <1>1, <2>1, <2>2
  <1> QED
    BY <1>3, <1>4, <1>5

(* All pages of the stack were taken and mapped.                           *)
LEMMA StackTaken ==
  ASSUME NEW w, NEW d, Ready(w, d), ResourceAssumption, NEW g,
         NEW n \in 0..Len(Stack(w.threads)), NEW m \in 0..Len(Stack(w.threads)),
         GrownTo(w, g, Stack(w.threads), "STACK", n, m), g.ok
  PROVE  /\ Mapping(g) /\ FramesLocal(w, g)
         /\ Grew(w, g, [a \in Range(Stack(w.threads)) |-> "STACK"], Range(Stack(w.threads)))
         /\ FreshPages(w, [a \in Range(Stack(w.threads)) |-> "STACK"])
  <1> PICK st : st = Stack(w.threads)
    OBVIOUS
  <1>1. st \in Seq(Range(st)) /\ Len(st) \in Nat
    <2>1. st \in Seq(Range(st))
      BY StackPart
    <2> QED
      BY <2>1, LenProperties
  <1>2. m = Len(st) /\ n = Len(st)
    <2>1. m = Len(st) /\ m <= n
      BY DEF GrownTo
    <2> QED
      BY <1>1, <2>1
  <1>3. First(st, n) = Range(st) /\ First(st, m) = Range(st)
    BY <1>1, <1>2, FirstAll
  <1>4. Mapping(g) /\ FramesLocal(w, g) /\ FreshPages(w, [a \in First(st, n) |-> "STACK"])
    <2>1. "STACK" \in Kinds
      BY DEF Kinds
    <2>2. Mapping(w) /\ Finite(w)
      BY DEF Ready, Books
    <2> QED
      BY <1>1, <2>1, <2>2, GrewFrames
  <1>5. Grew(w, g, [a \in First(st, n) |-> "STACK"], First(st, m))
    BY DEF GrownTo
  <1> QED
    BY <1>3, <1>4, <1>5

(* What the books do not look at may change besides.                       *)
LEMMA ResultMore ==
  ASSUME NEW w, NEW r, NEW d, Result(w, r, d), NEW v, Keeping(r, v, {"exiting", "ok"})
  PROVE  Result(w, v, d)
  <1> PICK c : c = {"exiting", "ok"}
    OBVIOUS
  <1>1. /\ Keeping(r, v, c) /\ v.draws = r.draws /\ v.slot = r.slot /\ v.space = r.space
        /\ v.aliases = r.aliases /\ v.narrowed = r.narrowed /\ v.frames = r.frames
        /\ v.heap = r.heap /\ v.sockets = r.sockets /\ v.ui = r.ui /\ v.files = r.files
        /\ v.handles = r.handles /\ Shape(v)
    BY FieldNames DEF Keeping
  <1>2. Books(v, d /\ v.draws)
    <2> PICK e : e = (d /\ r.draws)
      OBVIOUS
    <2>1. Books(r, e)
      BY DEF Result
    <2>2. Books(v, e)
      BY <1>1, <2>1, PartsKept DEF Books
    <2> QED
      BY <1>1, <2>2
  <1>3. Held(v, "FILE") = Held(r, "FILE")
    BY <1>1 DEF Held
  <1>4. FramesLocal(w, v) /\ HeapLocal(w, v) /\ SocketsLocal(w, v) /\ UiLocal(w, v) /\ FilesLocal(w, v)
    BY <1>1, <1>3 DEF Result, Local, FramesLocal, HeapLocal, SocketsLocal, UiLocal, FilesLocal
  <1>5. Local(w, v)
    BY <1>1, <1>4 DEF Result, Local
  <1> QED
    BY <1>2, <1>5 DEF Result

(* Pages released all at once are those wanted, if all are mapped.         *)
LEMMA ReleaseGives ==
  ASSUME NEW w, Shape(w), Mapping(w), NEW S, NEW kind, NEW r, r = release_runtime_pages(w, S, kind),
         w.ok \in BOOLEAN
  PROVE  \E own \in SUBSET DOMAIN w.pages :
           /\ own = {a \in S \cap DOMAIN w.pages : w.pages[a].kind = kind}
           /\ IF own = S THEN Shrunk(w, r, own)
              ELSE \E x : Shrunk(w, x, own) /\ r = Failed(x)
  <1> PICK own : own = {a \in S \cap Recorded(w) :
                          w.pages[a].kind = kind /\ (w.pages[a].mapped => a \in w.tables)}
    OBVIOUS
  <1> PICK x : x = Returned(w, own)
    OBVIOUS
  <1>1. own = {a \in S \cap DOMAIN w.pages : w.pages[a].kind = kind}
    BY DEF Mapping, Recorded
  <1>2. own \in SUBSET DOMAIN w.pages
    BY <1>1
  <1>3. Shrunk(w, x, own)
    BY <1>2, ReturnedShrinks
  <1>4. r = IF own = S THEN x ELSE Failed(x)
    BY DEF release_runtime_pages
  <1> QED
    BY <1>1, <1>2, <1>3, <1>4

LEMMA ThreadBackResult ==
  ASSUME NEW w, NEW d, Ready(w, d), ResourceAssumption, NEW g,
         NEW S, Mapping(g), FreshPages(w, [a \in S |-> "STACK"]),
         Grew(w, g, [a \in S |-> "STACK"], S), g.ok \in BOOLEAN,
         NEW r, r = release_runtime_pages(g, S, "STACK"),
         NEW e, NEW v, v = [r EXCEPT !.exiting = e]
  PROVE  Result(w, v, d)
  <1> PICK k : k = [a \in S |-> "STACK"]
    OBVIOUS
  <1>1. DOMAIN k = S /\ \A a \in S : k[a] = "STACK"
    OBVIOUS
  <1>2. /\ Shape(g) /\ S \subseteq DOMAIN g.pages
        /\ \A a \in S : g.pages[a].kind = "STACK"
    BY <1>1 DEF Grew, Keeping
  <1>3. Shrunk(g, r, S)
    <2>1. S = {a \in S \cap DOMAIN g.pages : g.pages[a].kind = "STACK"}
      BY <1>2
    <2> QED
      BY <1>2, <2>1, ReleaseGives
  <1>4. Restored(w, r)
    <2>1. S \in SUBSET DOMAIN k /\ Grew(w, g, k, S) /\ FreshPages(w, k) /\ Shrunk(g, r, DOMAIN k) /\ Mapping(w)
      BY <1>1, <1>3, ReadyParts
    <2> QED
      BY <2>1, GrewBack
  <1>5. Result(w, r, d)
    BY <1>4, RestoredResult
  <1>6. Keeping(r, v, {"exiting", "ok"})
    <2>1. Shape(r)
      BY <1>4 DEF Restored, Keeping
    <2> QED
      BY <2>1, FieldNames DEF Keeping, Shape
  <1> QED
    BY <1>5, <1>6, ResultMore

(* The thread counts once it has its stack and its handle.                 *)
LEMMA ThreadMoreResult ==
  ASSUME NEW w, NEW d, Ready(w, d), ResourceAssumption, NEW g, NEW S, S = Range(Stack(w.threads)),
         Mapping(g), FramesLocal(w, g), Grew(w, g, [a \in S |-> "STACK"], S),
         NEW h, h = native_handle_install(g, Object("THREAD", g.threads)),
         NEW v, v = [h EXCEPT !.threads = @ + 1]
  PROVE  Result(w, v, d)
  <1> PICK k : k = [a \in S |-> "STACK"]
    OBVIOUS
  <1>1. DOMAIN k = S /\ \A a \in S : k[a] = "STACK"
    OBVIOUS
  <1>2. /\ Keeping(w, g, {"pages", "tables", "frames", "ok"})
        /\ DOMAIN g.pages = DOMAIN w.pages \cup S
        /\ \A a \in DOMAIN w.pages : g.pages[a] = w.pages[a]
        /\ \A a \in S : g.pages[a].kind = "STACK"
        /\ g.tables = w.tables \cup S
    BY <1>1 DEF Grew
  <1>3. /\ Loaded(w) /\ SurfaceHeld(w) /\ WindowKept(w) /\ Objects(w) /\ Streams(w)
        /\ ThreadsHeld(w) /\ WindowsHeld(w, d) /\ Finite(w)
    BY ReadyParts
  <1>4. /\ Shape(g) /\ g.handles = w.handles /\ g.threads = w.threads
    BY <1>2, FieldNames DEF Keeping
  <1>5. Objects(g) /\ "THREAD" \in HandleTypes /\ \A u : Held(g, u) = Held(w, u)
    BY <1>3, <1>4 DEF Objects, HandleTypes, Held
  <1>6. /\ Keeping(g, h, {"handles"}) /\ Objects(h)
        /\ Held(h, "THREAD") = Held(g, "THREAD") \cup {g.threads}
        /\ \A u : u # "THREAD" => Held(h, u) = Held(g, u)
    BY <1>4, <1>5, InstallGives
  <1>7. Keeping(h, v, {"threads"}) /\ v.threads = h.threads + 1
    <2>1. Shape(h)
      BY <1>6 DEF Keeping
    <2> QED
      BY <2>1, FieldNames DEF Keeping, Shape
  <1> PICK c : c = {"pages", "tables", "frames", "ok", "handles", "threads"}
    OBVIOUS
  <1>8. Keeping(w, v, c)
    BY <1>2, <1>6, <1>7 DEF Keeping
  <1>9. /\ v.pages = g.pages /\ v.tables = g.tables /\ v.frames = g.frames /\ v.handles = h.handles
        /\ v.threads = w.threads + 1 /\ v.window = w.window /\ v.windows = w.windows
        /\ v.slot = w.slot /\ g.slot = w.slot /\ v.files = w.files /\ v.directories = w.directories
        /\ v.sockets = w.sockets
    BY <1>2, <1>6, <1>7, FieldNames DEF Keeping
  <1>10. /\ Held(v, "THREAD") = Held(w, "THREAD") \cup {w.threads}
         /\ \A u : u # "THREAD" => Held(v, u) = Held(w, u)
    <2>1. \A u : Held(v, u) = Held(h, u)
      BY <1>9 DEF Held
    <2> QED
      BY <1>4, <1>5, <1>6, <2>1
  <1>11. Mapping(v)
    BY <1>9 DEF Mapping, Owned
  <1> PICK n \in Nat \ {0} : n = w.threads
    BY <1>3 DEF Loaded
  <1>12. Loaded(v)
    <2>1. ASSUME NEW t \in 0..n PROVE Range(Stack(t)) \subseteq v.tables
      <3>1. t \in 0..(n - 1) \/ t = n
        OBVIOUS
      <3>2. CASE t \in 0..(n - 1)
        BY <1>2, <1>3, <1>9, <3>2 DEF Loaded
      <3>3. CASE t = n
        BY <1>2, <1>9, <3>3
      <3> QED
        BY <3>1, <3>2, <3>3
    <2>2. v.threads = n + 1 /\ (n + 1) - 1 = n /\ n + 1 \in Nat \ {0}
      BY <1>9
    <2>3. \A a \in S : a[1] = "stack" /\ a[2] = n
      BY StackPart
    <2>4. ASSUME NEW a \in DOMAIN v.pages, a[1] = "stack" PROVE a[2] \in 0..n
      <3>1. CASE a \in S
        BY <2>3, <3>1
      <3>2. CASE a \in DOMAIN w.pages
        <4>1. a[2] \in 0..(n - 1)
          BY <1>2, <1>3, <2>4, <3>2 DEF Loaded
        <4> QED
          BY <4>1
      <3> QED
        BY <1>2, <1>9, <3>1, <3>2
    <2>5. \A a \in DOMAIN v.pages : v.pages[a].kind = "ANON" => a[1] = "anon" /\ a # <<"anon", 2>>
      BY <1>2, <1>3, <1>9 DEF Loaded
    <2>6. Range(LoadOrder) \subseteq v.tables
      BY <1>2, <1>3, <1>9 DEF Loaded
    <2> QED
      BY <2>1, <2>2, <2>4, <2>5, <2>6 DEF Loaded
  <1>13. SurfaceHeld(v)
    <2>1. \A a \in S : a[1] = "stack"
      BY StackPart
    <2>2. \A a \in DOMAIN v.pages :
            a[1] = "surface" => w.window.window_object_open /\ a \in Range(Surface) /\ v.pages[a].kind = "SURFACE"
      BY <1>2, <1>3, <1>9, <2>1 DEF SurfaceHeld
    <2> QED
      BY <1>2, <1>3, <1>9, <2>2 DEF SurfaceHeld
  <1>14. c \cap {"slot", "window", "windows", "heap", "ui"} = {}
    OBVIOUS
  <1>15. WindowKept(v)
    BY <1>3, <1>8, <1>14, PartsKept
  <1>16. Objects(v)
    BY <1>6, <1>9 DEF Objects
  <1>17. Streams(v)
    BY <1>3, <1>9, <1>10 DEF Streams, Owned
  <1>18. ThreadsHeld(v)
    <2>1. Held(w, "THREAD") \subseteq 1..(n - 1)
      BY <1>3 DEF ThreadsHeld
    <2>2. Held(w, "THREAD") \cup {n} \subseteq 1..n
      BY <2>1
    <2>3. v.threads - 1 = n
      BY <1>9
    <2> QED
      BY <1>10, <2>2, <2>3 DEF ThreadsHeld
  <1>19. WindowsHeld(v, d)
    BY <1>3, <1>9, <1>10 DEF WindowsHeld
  <1>20. Books(v, d)
    BY <1>11, <1>12, <1>13, <1>15, <1>16, <1>17, <1>18, <1>19 DEF Books
  <1>21. FramesLocal(w, v)
    BY <1>9 DEF FramesLocal
  <1>22. HeapLocal(w, v) /\ SocketsLocal(w, v) /\ UiLocal(w, v)
    <2>1. c \cap {"heap"} = {} /\ c \cap {"sockets"} = {} /\ c \cap {"ui"} = {}
      OBVIOUS
    <2> QED
      BY <1>3, <1>8, <2>1, LocalKept
  <1>23. FilesLocal(w, v)
    BY <1>3, <1>9, <1>10 DEF FilesLocal, Finite
  <1>24. c \cap {"slot", "space", "aliases", "narrowed", "draws"} = {}
    OBVIOUS
  <1> QED
    BY <1>8, <1>20, <1>21, <1>22, <1>23, <1>24, OrdinaryResult

LEMMA ThreadResult ==
  ASSUME NEW w, NEW d, Ready(w, d), ResourceAssumption, NEW g \in Grown(w, Stack(w.threads), "STACK"),
         NEW fpu, NEW back, back = release_runtime_pages(g, Range(Stack(w.threads)), "STACK"),
         NEW v, v = IF ~g.ok THEN RolledBack(g, Stack(w.threads))
                    ELSE IF ~fpu \/ Full(g) THEN [back EXCEPT !.exiting = fpu /\ ~back.ok]
                    ELSE [native_handle_install(g, Object("THREAD", g.threads)) EXCEPT !.threads = @ + 1]
  PROVE  Result(w, v, d)
  <1> PICK st : st = Stack(w.threads)
    OBVIOUS
  <1>1. /\ Shape(w) /\ Mapping(w) /\ Loaded(w) /\ "STACK" \in Kinds /\ st \in Seq(Range(st))
    BY ReadyParts, StackPart DEF Kinds
  <1>2. PICK n \in 0..Len(st), m \in 0..Len(st) : GrownTo(w, g, st, "STACK", n, m)
    BY <1>1, GrownEnds
  <1>3. CASE ~g.ok
    <2>1. Range(st) \cap Recorded(w) = {}
      BY <1>1, NextStackFree
    <2>2. Restored(w, v)
      BY <1>1, <1>2, <1>3, <2>1, RolledBackRestores
    <2> QED
      BY <2>2, RestoredResult
  <1>4. CASE g.ok
    <2> PICK S : S = Range(st)
      OBVIOUS
    <2>1. /\ Mapping(g) /\ FramesLocal(w, g)
          /\ Grew(w, g, [a \in S |-> "STACK"], S) /\ FreshPages(w, [a \in S |-> "STACK"])
      BY <1>2, <1>4, StackTaken
    <2>2. g.ok \in BOOLEAN
      BY <1>2 DEF GrownTo
    <2>3. CASE ~fpu \/ Full(g)
      <3>1. v = [back EXCEPT !.exiting = fpu /\ ~back.ok]
        BY <1>4, <2>3
      <3> QED
        BY <2>1, <2>2, <3>1, ThreadBackResult
    <2>4. CASE ~(~fpu \/ Full(g))
      <3>1. v = [native_handle_install(g, Object("THREAD", g.threads)) EXCEPT !.threads = @ + 1]
        BY <1>4, <2>4
      <3> QED
        BY <2>1, <3>1, ThreadMoreResult
    <2> QED
      BY <2>3, <2>4
  <1> QED
    BY <1>3, <1>4

-----------------------------------------------------------------------------
(* Handles that are closed.                                                *)

(* All that is gone is the handle to i of type t.                          *)
Forgets(w, v, t, i) ==
  /\ Objects(v)
  /\ Held(v, t) = Held(w, t) \ {i}
  /\ \A u : u # t => Held(v, u) = Held(w, u)

LEMMA ForgetGives ==
  ASSUME NEW w, Objects(w), NEW o \in DOMAIN w.handles, NEW t, t = o.type, NEW v,
         v.handles = Without(w.handles, {o})
  PROVE  Forgets(w, v, t, o.id)
  <1> PICK h : h = Without(w.handles, {o})
    OBVIOUS
  <1>1. DOMAIN h = DOMAIN w.handles \ {o} /\ \A x \in DOMAIN h : h[x] = w.handles[x]
    BY DEF Without
  <1>2. v.handles = h
    OBVIOUS
  <1>3. Objects(v)
    BY <1>1, <1>2 DEF Objects
  <1>4. \A x \in DOMAIN w.handles : x.type = t /\ x.id = o.id => x = o
    BY DEF Objects
  <1>5. Held(v, t) = Held(w, t) \ {o.id}
    BY <1>1, <1>2, <1>4 DEF Held
  <1>6. \A u : u # t => Held(v, u) = Held(w, u)
    BY <1>1, <1>2 DEF Held
  <1> QED
    BY <1>3, <1>5, <1>6 DEF Forgets

LEMMA ForgetKeeps ==
  ASSUME NEW w, Shape(w), NEW o, NEW v, v = [w EXCEPT !.handles = Without(@, {o})]
  PROVE  Keeping(w, v, {"handles"}) /\ v.handles = Without(w.handles, {o})
  BY FieldNames DEF Keeping, Shape

LEMMA HeldIds ==
  ASSUME NEW w, Objects(w), NEW o \in DOMAIN w.handles
  PROVE  /\ o.id \in Held(w, o.type) /\ o.type \in HandleTypes
         /\ w.handles[o] \in Nat \ {0} /\ o = Object(o.type, o.id)
  BY DEF Held, Objects

(* The last handle to a file, a directory, a socket, a timer or a thread.  *)
LEMMA StreamCloseResult ==
  ASSUME NEW w, NEW d, Ready(w, d), NEW o \in DOMAIN w.handles,
         o.type \in {"FILE", "DIRECTORY", "SOCKET", "TIMER", "THREAD"},
         NEW x, Keeping(w, x, {"files", "directories", "sockets"}),
         NEW v, v = [x EXCEPT !.handles = Without(@, {o})],
         x.files = IF o.type = "FILE" THEN w.files \ {o.id} ELSE w.files,
         x.directories = IF o.type = "DIRECTORY" THEN w.directories \ {o.id} ELSE w.directories,
         x.sockets = IF o.type = "SOCKET" THEN w.sockets \ {<<w.slot, o.id>>} ELSE w.sockets
  PROVE  Result(w, v, d)
  <1> PICK t : t = o.type
    OBVIOUS
  <1>1. /\ Objects(w) /\ Streams(w) /\ ThreadsHeld(w) /\ WindowsHeld(w, d) /\ Finite(w)
    BY ReadyParts
  <1>2. Shape(x) /\ x.handles = w.handles /\ x.slot = w.slot
    BY FieldNames DEF Keeping
  <1>3. Objects(x) /\ \A u : Held(x, u) = Held(w, u)
    BY <1>1, <1>2 DEF Objects, Held
  <1>4. /\ Keeping(x, v, {"handles"}) /\ Objects(v)
        /\ Held(v, t) = Held(x, t) \ {o.id}
        /\ \A u : u # t => Held(v, u) = Held(x, u)
    <2>1. o \in DOMAIN x.handles /\ t = o.type
      BY <1>2
    <2>2. v = [x EXCEPT !.handles = Without(@, {o})]
      OBVIOUS
    <2>3. Keeping(x, v, {"handles"}) /\ v.handles = Without(x.handles, {o})
      BY <1>2, <2>2, ForgetKeeps
    <2>4. Objects(x) /\ o \in DOMAIN x.handles /\ t = o.type /\ v.handles = Without(x.handles, {o})
      BY <1>3, <2>1, <2>3
    <2>5. Forgets(x, v, t, o.id)
      BY <2>4, ForgetGives
    <2> QED
      BY <2>3, <2>5 DEF Forgets
  <1>5. /\ v.files = x.files /\ v.directories = x.directories /\ v.sockets = x.sockets
        /\ v.slot = w.slot /\ v.threads = w.threads /\ v.window = w.window /\ v.windows = w.windows
    BY <1>2, <1>4, FieldNames DEF Keeping
  <1>6. o.id \in Held(w, t)
    BY <1>1, HeldIds
  <1>7. \A u : Held(v, u) = IF u = t THEN Held(w, u) \ {o.id} ELSE Held(w, u)
    BY <1>3, <1>4
  <1>8. Streams(v)
    <2>1. Held(v, "FILE") \subseteq v.files
      BY <1>1, <1>5, <1>7 DEF Streams
    <2>2. Held(v, "DIRECTORY") = v.directories
      BY <1>1, <1>5, <1>7 DEF Streams
    <2>3. IsFiniteSet(v.directories)
      <3>1. IsFiniteSet(w.directories) /\ v.directories \in SUBSET w.directories
        BY <1>1, <1>5 DEF Streams
      <3> QED
        BY <3>1, FS_Subset
    <2>4. Owned(v, Held(v, "SOCKET")) = Own(v.sockets, v.slot)
      <3>1. CASE o.type # "SOCKET"
        <4>1. Held(v, "SOCKET") = Held(w, "SOCKET") /\ v.sockets = w.sockets
          BY <1>5, <1>7, <3>1
        <4> QED
          BY <1>1, <1>5, <4>1 DEF Streams, Owned
      <3>2. CASE o.type = "SOCKET"
        <4>1. Held(v, "SOCKET") = Held(w, "SOCKET") \ {o.id}
          BY <1>7, <3>2
        <4>2. v.sockets = w.sockets \ {<<w.slot, o.id>>}
          BY <1>5, <3>2
        <4>3. Owned(v, Held(v, "SOCKET")) = Owned(w, Held(w, "SOCKET")) \ {<<w.slot, o.id>>}
          BY <1>5, <4>1 DEF Owned
        <4>4. Own(v.sockets, v.slot) = Own(w.sockets, w.slot) \ {<<w.slot, o.id>>}
          BY <1>5, <4>2 DEF Own
        <4> QED
          BY <1>1, <4>3, <4>4 DEF Streams
      <3> QED
        BY <3>1, <3>2
    <2> QED
      BY <2>1, <2>2, <2>3, <2>4 DEF Streams
  <1>9. ThreadsHeld(v)
    BY <1>1, <1>5, <1>7 DEF ThreadsHeld
  <1>10. WindowsHeld(v, d)
    <2>1. Held(v, "WINDOW") = Held(w, "WINDOW") /\ Held(v, "EVENT_QUEUE") = Held(w, "EVENT_QUEUE")
      BY <1>7
    <2> QED
      BY <1>1, <1>5, <2>1 DEF WindowsHeld
  <1>11. FilesLocal(w, v)
    <2>1. IsFiniteSet(w.files) /\ v.files \in SUBSET w.files
      BY <1>1, <1>5 DEF Finite
    <2>2. IsFiniteSet(v.files)
      BY <2>1, FS_Subset
    <2>3. v.files \ Held(v, "FILE") = w.files \ Held(w, "FILE")
      BY <1>5, <1>6, <1>7
    <2> QED
      BY <2>2, <2>3 DEF FilesLocal
  <1>12. SocketsLocal(w, v)
    <2>1. IsFiniteSet(w.sockets) /\ v.sockets \in SUBSET w.sockets
      BY <1>1, <1>5 DEF Finite
    <2>2. IsFiniteSet(v.sockets)
      BY <2>1, FS_Subset
    <2>3. Others(v.sockets, w.slot) = Others(w.sockets, w.slot)
      BY <1>5 DEF Others
    <2> QED
      BY <2>2, <2>3 DEF SocketsLocal
  <1>13. Keeping(w, v, {"handles", "files", "directories", "sockets", "ok"})
    <2>1. Keeping(w, v, {"files", "directories", "sockets"} \cup {"handles"})
      BY <1>4, KeepingTrans
    <2> QED
      BY <2>1, KeepingMore
  <1> QED
    BY <1>4, <1>8, <1>9, <1>10, <1>11, <1>12, <1>13, HandlesResult

-----------------------------------------------------------------------------
(* Windows that are closed.                                                *)

(* What window_release_surface makes of a world: the pages in own are gone. *)
Released(w, v, draws, own) ==
  /\ Keeping(w, v, {"pages", "tables", "frames", "ok", "draws", "heap", "ui", "window"})
  /\ DOMAIN v.pages = DOMAIN w.pages \ own
  /\ \A a \in DOMAIN v.pages : v.pages[a] = w.pages[a]
  /\ v.tables = w.tables \ own
  /\ v.frames = w.frames \ Owned(w, own)
  /\ v.heap = w.heap \ {<<w.slot, "pixels">>}
  /\ v.ui = w.ui \ {w.slot}
  /\ v.draws \in BOOLEAN /\ (v.draws <=> w.draws /\ (w.slot \notin w.ui \/ draws))
  /\ v.ok \in BOOLEAN
  /\ v.ok <=> w.ok /\ (w.slot \notin w.ui \/ draws) /\ own = w.window.surface

(* The window's record, without its window.                                *)
Shut(w, x) ==
  /\ DOMAIN x = WindowFields
  /\ x.surface = {} /\ x.window_object_open \in BOOLEAN /\ ~x.window_object_open
  /\ x.allocated \in BOOLEAN /\ (x.allocated <=> w.window.event_object_open)
  /\ x.event_object_open \in BOOLEAN
  /\ x.event_object_open <=> w.window.event_object_open
  /\ w.window.event_object_open => x.generation = w.window.generation

LEMMA CloseOnScreen ==
  ASSUME NEW w, Shape(w), w.ok \in BOOLEAN, w.draws \in BOOLEAN, NEW draws \in BOOLEAN,
         NEW x, x = ui_native_window_close(w, draws)
  PROVE  /\ Keeping(w, x, {"ui", "ok", "draws"})
         /\ x.ui = w.ui \ {w.slot}
         /\ x.draws \in BOOLEAN /\ (x.draws <=> w.draws /\ (w.slot \notin w.ui \/ draws))
         /\ x.ok \in BOOLEAN /\ (x.ok <=> w.ok /\ (w.slot \notin w.ui \/ draws))
  <1>1. CASE w.slot \notin w.ui
    <2>1. x = w
      BY <1>1 DEF ui_native_window_close
    <2>2. w.ui = w.ui \ {w.slot}
      BY <1>1
    <2> QED
      BY <1>1, <2>1, <2>2 DEF Keeping
  <1>2. CASE w.slot \in w.ui
    <2> PICK y : y = [w EXCEPT !.ui = @ \ {w.slot}]
      OBVIOUS
    <2>1. Keeping(w, y, {"ui"}) /\ y.ui = w.ui \ {w.slot}
      BY FieldNames DEF Keeping, Shape
    <2>2. y.ok = w.ok /\ y.draws = w.draws
      BY <2>1, FieldNames DEF Keeping
    <2>3. CASE draws
      <3>1. x = y
        BY <1>2, <2>3 DEF ui_native_window_close
      <3> QED
        BY <2>1, <2>2, <2>3, <3>1 DEF Keeping
    <2>4. CASE ~draws
      <3> PICK z : z = Failed(y)
        OBVIOUS
      <3>1. Keeping(y, z, {"ok"}) /\ z.ok = FALSE
        BY <2>1, FailedGives DEF Keeping
      <3>2. x = [z EXCEPT !.draws = FALSE]
        BY <1>2, <2>4 DEF ui_native_window_close
      <3>3. Shape(z) /\ z.ui = w.ui \ {w.slot}
        BY <2>1, <3>1, FieldNames DEF Keeping
      <3>4. Keeping(z, x, {"draws"}) /\ x.draws = FALSE
        BY <3>2, <3>3, FieldNames DEF Keeping, Shape
      <3>5. x.ui = w.ui \ {w.slot} /\ x.ok = FALSE
        BY <3>1, <3>3, <3>4, FieldNames DEF Keeping
      <3>6. Keeping(w, x, {"ui", "ok", "draws"})
        BY <2>1, <3>1, <3>4 DEF Keeping
      <3> QED
        BY <1>2, <2>4, <3>4, <3>5, <3>6
    <2> QED
      BY <2>3, <2>4
  <1> QED
    BY <1>1, <1>2

LEMMA FinalizeGives ==
  ASSUME NEW w, Shape(w), DOMAIN w.window = WindowFields, ~w.window.window_object_open,
         w.window.event_object_open \in BOOLEAN, w.window.allocated, w.window.window_object_open \in BOOLEAN,
         w.window.allocated \in BOOLEAN, w.window.surface = {},
         NEW v, v = window_finalize_if_unreferenced(w)
  PROVE  Keeping(w, v, {"window"}) /\ Shut(w, v.window)
  <1>1. CASE w.window.event_object_open
    <2>1. v = w
      BY <1>1 DEF window_finalize_if_unreferenced
    <2>2. Keeping(w, v, {"window"})
      BY <2>1 DEF Keeping
    <2> QED
      BY <1>1, <2>1, <2>2 DEF Shut
  <1>2. CASE ~w.window.event_object_open
    <2>1. v = [w EXCEPT !.window = NoWindow]
      BY <1>2 DEF window_finalize_if_unreferenced
    <2>2. Keeping(w, v, {"window"}) /\ v.window = NoWindow
      BY <2>1, FieldNames DEF Keeping, Shape
    <2>3. Shut(w, NoWindow)
      BY <1>2 DEF Shut, NoWindow, WindowFields
    <2> QED
      BY <2>2, <2>3
  <1> QED
    BY <1>1, <1>2

(* A record of a window that can be closed.                                *)
WindowRecord(x) ==
  /\ DOMAIN x = WindowFields
  /\ x.allocated \in BOOLEAN /\ x.window_object_open \in BOOLEAN /\ x.event_object_open \in BOOLEAN

LEMMA ReleaseSurfaceGives ==
  ASSUME NEW w, Shape(w), Mapping(w), w.ok \in BOOLEAN, w.draws \in BOOLEAN, NEW draws \in BOOLEAN,
         WindowRecord(w.window), w.window.allocated,
         NEW v, v = window_release_surface(w, draws)
  PROVE  \E own \in SUBSET DOMAIN w.pages :
           /\ own = {a \in w.window.surface \cap DOMAIN w.pages : w.pages[a].kind = "SURFACE"}
           /\ Released(w, v, draws, own) /\ Shut(w, v.window)
  <1> PICK S : S = w.window.surface
    OBVIOUS
  <1> PICK x : x = ui_native_window_close(w, draws)
    OBVIOUS
  <1>1. /\ Keeping(w, x, {"ui", "ok", "draws"})
        /\ x.ui = w.ui \ {w.slot}
        /\ x.draws \in BOOLEAN /\ (x.draws <=> w.draws /\ (w.slot \notin w.ui \/ draws))
        /\ x.ok \in BOOLEAN /\ (x.ok <=> w.ok /\ (w.slot \notin w.ui \/ draws))
    BY CloseOnScreen
  <1>2. /\ Shape(x) /\ x.slot = w.slot /\ x.pages = w.pages /\ x.tables = w.tables
        /\ x.frames = w.frames /\ x.heap = w.heap /\ x.window = w.window
    BY <1>1, FieldNames DEF Keeping
  <1>3. Mapping(x)
    BY <1>2 DEF Mapping, Owned
  <1> PICK b : b = release_runtime_pages(x, S, "SURFACE")
    OBVIOUS
  <1>4. PICK own \in SUBSET DOMAIN x.pages :
          /\ own = {a \in S \cap DOMAIN x.pages : x.pages[a].kind = "SURFACE"}
          /\ IF own = S THEN Shrunk(x, b, own) ELSE \E y : Shrunk(x, y, own) /\ b = Failed(y)
    <2>1. Shape(x) /\ Mapping(x) /\ x.ok \in BOOLEAN /\ b = release_runtime_pages(x, S, "SURFACE")
      BY <1>1, <1>2, <1>3
    <2> QED
      BY ONLY <2>1, ReleaseGives
  <1>5. /\ Keeping(x, b, {"pages", "tables", "frames", "ok"})
        /\ DOMAIN b.pages = DOMAIN x.pages \ own
        /\ \A a \in DOMAIN b.pages : b.pages[a] = x.pages[a]
        /\ b.tables = x.tables \ own
        /\ b.frames = x.frames \ Owned(x, own)
        /\ b.ok \in BOOLEAN /\ (b.ok <=> x.ok /\ own = S)
    <2>1. CASE own = S
      <3>1. Shrunk(x, b, own)
        BY <1>4, <2>1
      <3>2. Keeping(x, b, {"pages", "tables", "frames", "ok"}) /\ b.ok = x.ok
        BY <3>1, FieldNames DEF Shrunk, Keeping
      <3> QED
        BY <1>1, <2>1, <3>1, <3>2 DEF Shrunk
    <2>2. CASE own # S
      <3>1. PICK y : Shrunk(x, y, own) /\ b = Failed(y)
        BY <1>4, <2>2
      <3>2. Keeping(x, y, {"pages", "tables", "frames"})
        BY <3>1 DEF Shrunk
      <3>3. Keeping(y, b, {"ok"}) /\ b.ok = FALSE
        <4>1. Shape(y)
          BY ONLY <3>2 DEF Keeping
        <4> QED
          BY ONLY <3>1, <4>1, FailedGives
      <3>4. b.pages = y.pages /\ b.tables = y.tables /\ b.frames = y.frames
        BY <3>3, FieldNames DEF Keeping
      <3>5. Keeping(x, b, {"pages", "tables", "frames", "ok"})
        BY <3>2, <3>3 DEF Keeping
      <3> QED
        BY <2>2, <3>1, <3>3, <3>4, <3>5 DEF Shrunk
    <2> QED
      BY <2>1, <2>2
  <1>6. /\ Shape(b) /\ b.slot = w.slot /\ b.heap = w.heap /\ b.window = w.window
        /\ b.ui = x.ui /\ b.draws = x.draws
    BY <1>2, <1>5, FieldNames DEF Keeping
  <1> PICK h : h = w.heap \ {<<w.slot, "pixels">>}
    OBVIOUS
  <1> PICK n : n = [w.window EXCEPT !.surface = {}, !.window_object_open = FALSE]
    OBVIOUS
  <1>7. /\ DOMAIN n = WindowFields /\ n.surface = {} /\ n.window_object_open = FALSE
        /\ n.allocated = w.window.allocated /\ n.event_object_open = w.window.event_object_open
        /\ n.generation = w.window.generation
    BY DEF WindowRecord, WindowFields
  <1> PICK y : y = [b EXCEPT !.heap = h, !.window = n]
    OBVIOUS
  <1>8. v = window_finalize_if_unreferenced(y)
    <2>1. [b EXCEPT !.heap = @ \ {<<w.slot, "pixels">>},
                    !.window.surface = {}, !.window.window_object_open = FALSE] = y
      <3>1. b.heap = w.heap /\ b.window = w.window /\ {"heap", "window"} \subseteq DOMAIN b
        BY <1>6, FieldNames DEF Shape
      <3>2. [b EXCEPT !.heap = @ \ {<<w.slot, "pixels">>},
                      !.window.surface = {}, !.window.window_object_open = FALSE]
              = [b EXCEPT !.heap = b.heap \ {<<w.slot, "pixels">>},
                          !.window = [b.window EXCEPT !.surface = {}, !.window_object_open = FALSE]]
        BY ONLY <3>1
      <3> QED
        BY ONLY <3>1, <3>2, h = w.heap \ {<<w.slot, "pixels">>},
                n = [w.window EXCEPT !.surface = {}, !.window_object_open = FALSE],
                y = [b EXCEPT !.heap = h, !.window = n]
    <2> QED
      BY <2>1 DEF window_release_surface
  <1>9. Keeping(b, y, {"heap", "window"}) /\ y.heap = h /\ y.window = n
    BY <1>6, FieldNames DEF Keeping, Shape
  <1>10. Keeping(y, v, {"window"}) /\ Shut(y, v.window)
    <2>1. Shape(y)
      BY <1>9 DEF Keeping
    <2>2. /\ DOMAIN y.window = WindowFields /\ ~y.window.window_object_open
          /\ y.window.event_object_open \in BOOLEAN /\ y.window.allocated
          /\ y.window.window_object_open \in BOOLEAN /\ y.window.allocated \in BOOLEAN
          /\ y.window.surface = {}
      BY <1>7, <1>9 DEF WindowRecord
    <2> QED
      BY ONLY <1>8, <2>1, <2>2, FinalizeGives
  <1>11. Shut(w, v.window)
    BY <1>7, <1>9, <1>10 DEF Shut
  <1>12. Keeping(w, v, {"pages", "tables", "frames", "ok", "draws", "heap", "ui", "window"})
    BY <1>1, <1>5, <1>9, <1>10 DEF Keeping
  <1>13. /\ v.pages = b.pages /\ v.tables = b.tables /\ v.frames = b.frames /\ v.ok = b.ok
         /\ v.draws = b.draws /\ v.heap = h /\ v.ui = b.ui
    <2>1. /\ y.pages = b.pages /\ y.tables = b.tables /\ y.frames = b.frames /\ y.ok = b.ok
          /\ y.draws = b.draws /\ y.heap = h /\ y.ui = b.ui
      BY ONLY <1>9, FieldNames DEF Keeping
    <2>2. /\ v.pages = y.pages /\ v.tables = y.tables /\ v.frames = y.frames /\ v.ok = y.ok
          /\ v.draws = y.draws /\ v.heap = y.heap /\ v.ui = y.ui
      BY ONLY <1>10, FieldNames DEF Keeping
    <2> QED
      BY ONLY <2>1, <2>2
  <1>14. Released(w, v, draws, own)
    <2>1. Owned(x, own) = Owned(w, own)
      BY <1>2 DEF Owned
    <2>2. v.ok \in BOOLEAN /\ (v.ok <=> w.ok /\ (w.slot \notin w.ui \/ draws) /\ own = w.window.surface)
      BY <1>1, <1>5, <1>13
    <2>3. v.draws \in BOOLEAN /\ (v.draws <=> w.draws /\ (w.slot \notin w.ui \/ draws))
      BY <1>1, <1>6, <1>13
    <2> QED
      BY <1>1, <1>2, <1>5, <1>6, <1>12, <1>13, <2>1, <2>2, <2>3 DEF Released
  <1> QED
    BY <1>2, <1>4, <1>11, <1>14

LEMMA ReleasedMaps ==
  ASSUME NEW w, NEW v, NEW draws, NEW own, Mapping(w), Released(w, v, draws, own)
  PROVE  Mapping(v) /\ Others(v.frames, w.slot) = Others(w.frames, w.slot)
  <1>1. v.slot = w.slot
    BY FieldNames DEF Released, Keeping
  <1>2. /\ DOMAIN v.pages = DOMAIN w.pages \ own
        /\ \A a \in DOMAIN v.pages : v.pages[a] = w.pages[a]
        /\ v.tables = w.tables \ own
        /\ v.frames = w.frames \ Owned(w, own)
    BY DEF Released
  <1>3. /\ \A a \in DOMAIN v.pages : v.pages[a] \in [kind : Kinds, mapped : BOOLEAN]
        /\ v.tables = {a \in DOMAIN v.pages : v.pages[a].mapped}
    BY <1>2 DEF Mapping
  <1>4. Own(v.frames, w.slot) = Owned(w, DOMAIN v.pages)
    <2>1. Own(v.frames, w.slot) = Own(w.frames, w.slot) \ Owned(w, own)
      BY <1>2 DEF Own
    <2>2. Owned(w, DOMAIN w.pages \ own) = Owned(w, DOMAIN w.pages) \ Owned(w, own)
      BY OwnedOne DEF Owned
    <2> QED
      BY <1>2, <2>1, <2>2 DEF Mapping
  <1>5. Others(v.frames, w.slot) = Others(w.frames, w.slot)
    <2>1. \A x \in Owned(w, own) : x[1] = w.slot
      BY DEF Owned
    <2> QED
      BY <1>2, <2>1 DEF Others
  <1>6. Owned(v, DOMAIN v.pages) = Owned(w, DOMAIN v.pages)
    BY <1>1 DEF Owned
  <1> QED
    BY <1>1, <1>3, <1>4, <1>5, <1>6 DEF Mapping

(* What the books keep when a window is closed, and what it leaves others. *)
LEMMA ReleasedResult ==
  ASSUME NEW w, NEW d, Ready(w, d), ResourceAssumption, NEW draws \in BOOLEAN, w.window.allocated,
         NEW v, v = window_release_surface(w, draws)
  PROVE  /\ Mapping(v) /\ Loaded(v) /\ SurfaceHeld(v) /\ WindowKept(v) /\ Shut(w, v.window)
         /\ Keeping(w, v, {"pages", "tables", "frames", "ok", "draws", "heap", "ui", "window"})
         /\ FramesLocal(w, v) /\ HeapLocal(w, v) /\ UiLocal(w, v)
         /\ v.ok \in BOOLEAN /\ v.draws \in BOOLEAN /\ (v.ok <=> v.draws)
  <1>1. /\ Shape(w) /\ Mapping(w) /\ Loaded(w) /\ SurfaceHeld(w) /\ WindowKept(w) /\ Finite(w)
        /\ w.ok \in BOOLEAN /\ w.ok /\ w.draws \in BOOLEAN /\ w.draws
    BY ReadyParts DEF Ready
  <1>2. WindowRecord(w.window)
    BY <1>1 DEF WindowKept, WindowRecord
  <1>3. PICK own \in SUBSET DOMAIN w.pages :
          /\ own = {a \in w.window.surface \cap DOMAIN w.pages : w.pages[a].kind = "SURFACE"}
          /\ Released(w, v, draws, own) /\ Shut(w, v.window)
    BY <1>1, <1>2, ReleaseSurfaceGives
  <1>4. own = w.window.surface
    <2>1. CASE w.window.window_object_open
      <3>1. Range(Surface) \subseteq DOMAIN w.pages
        BY <1>1, <2>1 DEF SurfaceHeld, Mapping
      <3>2. \A a \in Range(Surface) : w.pages[a].kind = "SURFACE"
        BY <1>1, <3>1, SurfacePart DEF SurfaceHeld
      <3> QED
        BY <1>1, <1>3, <2>1, <3>1, <3>2 DEF SurfaceHeld
    <2>2. CASE ~w.window.window_object_open
      BY <1>1, <1>3, <2>2 DEF SurfaceHeld
    <2> QED
      BY <2>1, <2>2
  <1>5. \A a \in own : a[1] = "surface" /\ w.pages[a].kind = "SURFACE"
    <2>1. \A a \in own : a \in Range(Surface)
      BY <1>1, <1>4 DEF SurfaceHeld
    <2> QED
      BY <1>3, <2>1, SurfacePart
  <1>6. /\ Keeping(w, v, {"pages", "tables", "frames", "ok", "draws", "heap", "ui", "window"})
        /\ DOMAIN v.pages = DOMAIN w.pages \ own
        /\ \A a \in DOMAIN v.pages : v.pages[a] = w.pages[a]
        /\ v.tables = w.tables \ own
        /\ v.frames = w.frames \ Owned(w, own)
        /\ v.heap = w.heap \ {<<w.slot, "pixels">>}
        /\ v.ui = w.ui \ {w.slot}
    BY <1>3 DEF Released
  <1>7. v.threads = w.threads /\ v.windows = w.windows /\ v.slot = w.slot
    BY <1>6, FieldNames DEF Keeping
  <1>8. Mapping(v) /\ Others(v.frames, w.slot) = Others(w.frames, w.slot)
    BY <1>1, <1>3, ReleasedMaps
  <1>9. Loaded(v)
    <2>1. Range(LoadOrder) \cap own = {}
      <3>1. \A a \in Range(LoadOrder) : a = <<"image", 1>> \/ a = <<"anon", 2>> \/ a[1] = "stack"
        BY LoadPart, StackPart
      <3> QED
        BY <1>5, <3>1
    <2>2. \A t : Range(Stack(t)) \cap own = {}
      BY <1>5, StackPart
    <2> QED
      BY <1>1, <1>6, <1>7, <2>1, <2>2 DEF Loaded
  <1>10. /\ DOMAIN v.window = WindowFields /\ v.window.surface = {}
         /\ v.window.window_object_open \in BOOLEAN /\ ~v.window.window_object_open
    BY <1>3 DEF Shut
  <1>11. SurfaceHeld(v)
    <2>1. ASSUME NEW a \in DOMAIN v.pages, a[1] = "surface" PROVE FALSE
      <3>1. a \in DOMAIN w.pages /\ a \notin own
        BY <1>6
      <3>2. w.window.window_object_open /\ a \in Range(Surface)
        BY <1>1, <2>1, <3>1 DEF SurfaceHeld
      <3>3. w.window.surface = Range(Surface)
        BY <1>1, <3>2 DEF SurfaceHeld
      <3> QED
        BY <1>4, <3>1, <3>2, <3>3
    <2> QED
      BY <1>10, <2>1 DEF SurfaceHeld
  <1>12. WindowKept(v)
    <2>1. {v.window.window_object_open, v.window.event_object_open} \subseteq BOOLEAN
      BY <1>3 DEF Shut
    <2>2. v.window.allocated = (v.window.window_object_open \/ v.window.event_object_open)
      <3>1. v.window.allocated \in BOOLEAN /\ v.window.event_object_open \in BOOLEAN
        BY <1>3 DEF Shut
      <3>2. v.window.allocated <=> (v.window.window_object_open \/ v.window.event_object_open)
        BY <1>3 DEF Shut
      <3> QED
        BY <3>1, <3>2, <1>10
    <2>3. v.windows \in Nat
      BY <1>1, <1>7 DEF WindowKept
    <2>4. v.window.allocated => v.window.generation \in 1..v.windows
      <3>1. v.window.allocated => v.window.generation = w.window.generation
        BY <1>3 DEF Shut
      <3> QED
        BY <1>1, <1>7, <3>1 DEF WindowKept
    <2>5. <<v.slot, "pixels">> \notin v.heap /\ v.slot \notin v.ui
      BY <1>6, <1>7
    <2> QED
      BY <1>10, <2>1, <2>2, <2>3, <2>4, <2>5 DEF WindowKept
  <1>13. FramesLocal(w, v)
    <2>1. v.frames \in SUBSET w.frames /\ IsFiniteSet(w.frames) /\ Cardinality(w.frames) <= FrameCount
      BY <1>1, <1>6 DEF Finite
    <2>2. IsFiniteSet(v.frames) /\ Cardinality(v.frames) <= Cardinality(w.frames)
      BY <2>1, FS_Subset
    <2>3. Cardinality(v.frames) \in Nat /\ Cardinality(w.frames) \in Nat /\ FrameCount \in Nat
      BY <2>1, <2>2, FS_CardinalityType DEF ResourceAssumption
    <2>4. Cardinality(v.frames) <= FrameCount
      BY <2>1, <2>2, <2>3
    <2> QED
      BY <1>8, <2>2, <2>4 DEF FramesLocal
  <1>14. HeapLocal(w, v) /\ UiLocal(w, v)
    <2>1. Others(v.heap, w.slot) = Others(w.heap, w.slot)
      BY <1>6 DEF Others
    <2> QED
      BY <1>6, <2>1 DEF HeapLocal, UiLocal
  <1>15. v.ok \in BOOLEAN /\ v.draws \in BOOLEAN /\ (v.ok <=> v.draws)
    <2>1. /\ v.ok \in BOOLEAN /\ (v.ok <=> w.ok /\ (w.slot \notin w.ui \/ draws) /\ own = w.window.surface)
          /\ v.draws \in BOOLEAN /\ (v.draws <=> w.draws /\ (w.slot \notin w.ui \/ draws))
      BY <1>3 DEF Released
    <2> QED
      BY <1>1, <1>4, <2>1
  <1> QED
    BY <1>3, <1>6, <1>8, <1>9, <1>11, <1>12, <1>13, <1>14, <1>15

LEMMA WindowCloseResult ==
  ASSUME NEW w, NEW d, Ready(w, d), ResourceAssumption, NEW draws \in BOOLEAN,
         NEW o \in DOMAIN w.handles, o.type = "WINDOW",
         w.window.allocated, w.window.generation = o.id,
         NEW x, x = window_release_surface(w, draws),
         NEW v, v = IF x.ok THEN [x EXCEPT !.handles = Without(@, {o})] ELSE x
  PROVE  Result(w, v, d)
  <1>1. /\ Objects(w) /\ Streams(w) /\ ThreadsHeld(w) /\ WindowsHeld(w, d) /\ Finite(w)
    BY ReadyParts
  <1>2. /\ Mapping(x) /\ Loaded(x) /\ SurfaceHeld(x) /\ WindowKept(x) /\ Shut(w, x.window)
        /\ Keeping(w, x, {"pages", "tables", "frames", "ok", "draws", "heap", "ui", "window"})
        /\ FramesLocal(w, x) /\ HeapLocal(w, x) /\ UiLocal(w, x)
        /\ x.ok \in BOOLEAN /\ x.draws \in BOOLEAN /\ (x.ok <=> x.draws)
    BY ReleasedResult
  <1>3. /\ Shape(x) /\ x.handles = w.handles /\ x.slot = w.slot /\ x.files = w.files
        /\ x.directories = w.directories /\ x.sockets = w.sockets /\ x.threads = w.threads
        /\ x.windows = w.windows /\ x.space = w.space /\ x.aliases = w.aliases
        /\ x.narrowed = w.narrowed
    BY <1>2, FieldNames DEF Keeping
  <1>4. Objects(x) /\ \A u : Held(x, u) = Held(w, u)
    BY <1>1, <1>3 DEF Objects, Held
  <1>5. /\ Keeping(x, v, {"handles"}) /\ Objects(v)
        /\ Held(v, "WINDOW") = IF x.ok THEN Held(w, "WINDOW") \ {o.id} ELSE Held(w, "WINDOW")
        /\ \A u : u # "WINDOW" => Held(v, u) = Held(w, u)
    <2>1. CASE x.ok
      <3>1. /\ Shape(x) /\ Objects(x)
            /\ o \in DOMAIN x.handles /\ o.type = "WINDOW" /\ v = [x EXCEPT !.handles = Without(@, {o})]
        BY <1>3, <1>4, <2>1
      <3>2. /\ Keeping(x, v, {"handles"}) /\ Objects(v)
            /\ Held(v, "WINDOW") = Held(x, "WINDOW") \ {o.id}
            /\ \A u : u # "WINDOW" => Held(v, u) = Held(x, u)
        <4>1. Keeping(x, v, {"handles"}) /\ v.handles = Without(x.handles, {o})
          BY <3>1, ForgetKeeps
        <4> PICK t : t = "WINDOW"
          OBVIOUS
        <4>2. Objects(x) /\ o \in DOMAIN x.handles /\ t = o.type /\ v.handles = Without(x.handles, {o})
          BY <3>1, <4>1
        <4>3. Forgets(x, v, t, o.id)
          BY <4>2, ForgetGives
        <4> QED
          BY <4>1, <4>3 DEF Forgets
      <3> QED
        BY <1>4, <2>1, <3>2
    <2>2. CASE ~x.ok
      <3>1. v = x
        BY <2>2
      <3>2. Keeping(x, v, {"handles"})
        BY <1>3, <3>1 DEF Keeping
      <3> QED
        BY <1>4, <2>2, <3>1, <3>2
    <2> QED
      BY <1>2, <2>1, <2>2
  <1>6. /\ v.pages = x.pages /\ v.tables = x.tables /\ v.frames = x.frames /\ v.slot = w.slot
        /\ v.files = w.files /\ v.directories = w.directories /\ v.sockets = w.sockets
        /\ v.threads = w.threads /\ v.windows = w.windows /\ v.window = x.window
        /\ v.space = w.space /\ v.aliases = w.aliases /\ v.narrowed = w.narrowed
        /\ v.draws = x.draws /\ v.heap = x.heap /\ v.ui = x.ui /\ Shape(v)
    BY <1>3, <1>5, FieldNames DEF Keeping
  <1> PICK c : c = {"handles"}
    OBVIOUS
  <1>7. Mapping(v) /\ Loaded(v) /\ SurfaceHeld(v) /\ WindowKept(v)
    <2>1. /\ c \cap {"slot", "pages", "tables", "frames"} = {} /\ c \cap {"pages", "tables", "threads"} = {}
          /\ c \cap {"pages", "tables", "window"} = {}
          /\ c \cap {"slot", "window", "windows", "heap", "ui"} = {}
      OBVIOUS
    <2>2. Keeping(x, v, c)
      BY <1>5
    <2> QED
      BY <1>2, <2>1, <2>2, PartsKept
  <1>8. /\ Held(v, "FILE") = Held(w, "FILE") /\ Held(v, "DIRECTORY") = Held(w, "DIRECTORY")
        /\ Held(v, "SOCKET") = Held(w, "SOCKET") /\ Held(v, "THREAD") = Held(w, "THREAD")
        /\ Held(v, "EVENT_QUEUE") = Held(w, "EVENT_QUEUE")
    BY <1>5
  <1>9. Streams(v)
    BY <1>1, <1>6, <1>8 DEF Streams, Owned
  <1>10. ThreadsHeld(v)
    BY <1>1, <1>6, <1>8 DEF ThreadsHeld
  <1>11. WindowsHeld(v, d /\ v.draws)
    <2>1. Held(v, "WINDOW") \subseteq 1..v.windows
      BY <1>1, <1>2, <1>5, <1>6 DEF WindowsHeld
    <2>2. Held(v, "EVENT_QUEUE") = IF v.window.event_object_open THEN {v.window.generation} ELSE {}
      <3>1. CASE w.window.event_object_open
        <4>1. v.window.event_object_open /\ v.window.generation = w.window.generation
          BY <1>2, <1>6, <3>1 DEF Shut
        <4> QED
          BY <1>1, <1>8, <3>1, <4>1 DEF WindowsHeld
      <3>2. CASE ~w.window.event_object_open
        <4>1. ~v.window.event_object_open
          BY <1>2, <1>6, <3>2 DEF Shut
        <4> QED
          BY <1>1, <1>8, <3>2, <4>1 DEF WindowsHeld
      <3> QED
        BY <3>1, <3>2
    <2>3. v.window.window_object_open \in BOOLEAN /\ ~v.window.window_object_open
      BY <1>2, <1>6 DEF Shut
    <2>4. ASSUME d, v.draws PROVE Held(v, "WINDOW") = {}
      <3>1. x.ok
        BY <1>2, <1>6, <2>4
      <3>2. o.id \in Held(w, "WINDOW")
        BY <1>1, HeldIds
      <3>3. Held(w, "WINDOW") \subseteq {o.id}
        BY <1>1, <2>4 DEF WindowsHeld
      <3> QED
        BY <1>5, <3>1, <3>3
    <2> QED
      BY <2>1, <2>2, <2>3, <2>4 DEF WindowsHeld
  <1>12. Books(v, d /\ v.draws)
    BY <1>5, <1>7, <1>9, <1>10, <1>11 DEF Books
  <1>13. FramesLocal(w, v) /\ HeapLocal(w, v) /\ UiLocal(w, v)
    BY <1>2, <1>6 DEF FramesLocal, HeapLocal, UiLocal
  <1>14. SocketsLocal(w, v) /\ FilesLocal(w, v)
    BY <1>1, <1>6, <1>8 DEF SocketsLocal, FilesLocal, Finite
  <1>15. Local(w, v)
    BY <1>2, <1>6, <1>13, <1>14 DEF Local
  <1> QED
    BY <1>12, <1>15 DEF Result

Unqueued(w) == [w EXCEPT !.window.event_object_open = FALSE]

Forgotten(w, o) == [w EXCEPT !.handles = Without(@, {o})]

(* The queue of events of a window, the last handle to it closed.          *)
LEMMA EventsCloseResult ==
  ASSUME NEW w, NEW d, Ready(w, d), NEW o \in DOMAIN w.handles, o.type = "EVENT_QUEUE",
         NEW e, e = Unqueued(w),
         NEW x, x = window_finalize_if_unreferenced(e), NEW v, v = Forgotten(x, o)
  PROVE  Result(w, v, d) /\ x.ok = w.ok /\ w.window.allocated /\ w.window.generation = o.id
  <1>1. /\ Objects(w) /\ Streams(w) /\ ThreadsHeld(w) /\ WindowsHeld(w, d) /\ WindowKept(w)
        /\ SurfaceHeld(w) /\ Finite(w) /\ Shape(w)
    BY ReadyParts
  <1>2. w.window.event_object_open /\ w.window.generation = o.id
    <2>1. o.id \in Held(w, "EVENT_QUEUE")
      BY <1>1, HeldIds
    <2> QED
      BY <1>1, <2>1 DEF WindowsHeld
  <1>3. w.window.allocated
    BY <1>1, <1>2 DEF WindowKept
  <1> PICK n : n = [w.window EXCEPT !.event_object_open = FALSE]
    OBVIOUS
  <1>4. /\ DOMAIN n = WindowFields /\ n.event_object_open = FALSE
        /\ n.allocated = w.window.allocated /\ n.window_object_open = w.window.window_object_open
        /\ n.surface = w.window.surface /\ n.generation = w.window.generation
    BY <1>1 DEF WindowKept, WindowFields
  <1>5. Keeping(w, e, {"window"}) /\ e.window = n
    <2>1. e = [w EXCEPT !.window = n]
      BY <1>1 DEF Unqueued, Shape, Fields, ProcessFields
    <2> QED
      BY <1>1, <2>1, FieldNames DEF Keeping, Shape
  <1>6. /\ Keeping(w, x, {"window"})
        /\ x.window = IF w.window.window_object_open THEN n ELSE NoWindow
    <2>1. CASE w.window.window_object_open
      <3>1. x = e
        BY <1>4, <1>5, <2>1 DEF window_finalize_if_unreferenced
      <3> QED
        BY <1>5, <2>1, <3>1
    <2>2. CASE ~w.window.window_object_open
      <3>1. x = [e EXCEPT !.window = NoWindow]
        BY <1>3, <1>4, <1>5, <2>2 DEF window_finalize_if_unreferenced
      <3>2. Shape(e)
        BY <1>5 DEF Keeping
      <3>3. Keeping(e, x, {"window"}) /\ x.window = NoWindow
        BY <3>1, <3>2, FieldNames DEF Keeping, Shape
      <3>4. Keeping(w, x, {"window"})
        BY <1>5, <3>3 DEF Keeping
      <3> QED
        BY <2>2, <3>3, <3>4
    <2> QED
      BY <2>1, <2>2
  <1>7. Shape(x) /\ x.handles = w.handles /\ x.ok = w.ok
    BY <1>6, FieldNames DEF Keeping
  <1>8. Objects(x) /\ \A u : Held(x, u) = Held(w, u)
    BY <1>1, <1>7 DEF Objects, Held
  <1>9. /\ Keeping(x, v, {"handles"}) /\ Objects(v)
        /\ Held(v, "EVENT_QUEUE") = Held(x, "EVENT_QUEUE") \ {o.id}
        /\ \A u : u # "EVENT_QUEUE" => Held(v, u) = Held(x, u)
    <2>1. /\ Shape(x) /\ Objects(x)
          /\ o \in DOMAIN x.handles /\ o.type = "EVENT_QUEUE" /\ v = [x EXCEPT !.handles = Without(@, {o})]
      BY <1>7, <1>8 DEF Forgotten
    <2>2. Keeping(x, v, {"handles"}) /\ v.handles = Without(x.handles, {o})
      BY ONLY <2>1, ForgetKeeps
    <2> PICK t : t = "EVENT_QUEUE"
      OBVIOUS
    <2>3. Objects(x) /\ o \in DOMAIN x.handles /\ t = o.type /\ v.handles = Without(x.handles, {o})
      BY <2>1, <2>2
    <2>4. Forgets(x, v, t, o.id)
      BY <2>3, ForgetGives
    <2> QED
      BY <2>2, <2>4 DEF Forgets
  <1> PICK c : c = {"window", "handles"}
    OBVIOUS
  <1>10. Keeping(w, v, c)
    BY <1>6, <1>9 DEF Keeping
  <1>11. /\ Held(v, "FILE") = Held(w, "FILE") /\ Held(v, "DIRECTORY") = Held(w, "DIRECTORY")
         /\ Held(v, "SOCKET") = Held(w, "SOCKET") /\ Held(v, "THREAD") = Held(w, "THREAD")
         /\ Held(v, "WINDOW") = Held(w, "WINDOW")
         /\ Held(v, "EVENT_QUEUE") = Held(w, "EVENT_QUEUE") \ {o.id}
    BY <1>8, <1>9
  <1>12. /\ v.slot = w.slot /\ v.files = w.files /\ v.directories = w.directories
         /\ v.sockets = w.sockets /\ v.threads = w.threads /\ v.windows = w.windows
         /\ v.pages = w.pages /\ v.tables = w.tables /\ v.heap = w.heap /\ v.ui = w.ui
    BY <1>10, FieldNames DEF Keeping
  <1>13. v.window = IF w.window.window_object_open THEN n ELSE NoWindow
    BY <1>6, <1>9, FieldNames DEF Keeping
  <1>14. Mapping(v) /\ Loaded(v)
    <2>1. /\ c \cap {"slot", "pages", "tables", "frames"} = {} /\ c \cap {"pages", "tables", "threads"} = {}
      OBVIOUS
    <2> QED
      BY <1>10, <2>1, PartsKept, ReadyParts
  <1> PICK b \in BOOLEAN : b <=> w.window.window_object_open
    BY <1>1 DEF WindowKept
  <1>15. /\ DOMAIN v.window = WindowFields
         /\ v.window.window_object_open \in BOOLEAN /\ (v.window.window_object_open <=> b)
         /\ v.window.event_object_open \in BOOLEAN /\ ~v.window.event_object_open
         /\ v.window.allocated \in BOOLEAN /\ (v.window.allocated <=> b)
         /\ v.window.surface = w.window.surface
         /\ b => v.window.generation = w.window.generation
    <2>1. CASE b
      <3>1. v.window = n /\ w.window.allocated \in BOOLEAN /\ w.window.window_object_open \in BOOLEAN
        BY <1>1, <1>13, <2>1 DEF WindowKept
      <3> QED
        BY <1>3, <1>4, <2>1, <3>1
    <2>2. CASE ~b
      <3>1. v.window = NoWindow /\ w.window.surface = {}
        BY <1>1, <1>13, <2>2 DEF SurfaceHeld
      <3>2. /\ DOMAIN NoWindow = WindowFields /\ NoWindow.window_object_open = FALSE
            /\ NoWindow.event_object_open = FALSE /\ NoWindow.allocated = FALSE
            /\ NoWindow.surface = {}
        BY DEF NoWindow, WindowFields
      <3> QED
        BY <2>2, <3>1, <3>2
    <2> QED
      BY <2>1, <2>2
  <1>16. SurfaceHeld(v)
    BY <1>1, <1>12, <1>15 DEF SurfaceHeld
  <1>17. WindowKept(v)
    <2>1. {v.window.window_object_open, v.window.event_object_open} \subseteq BOOLEAN
      BY <1>15
    <2>2. v.window.allocated = (v.window.window_object_open \/ v.window.event_object_open)
      BY <1>15
    <2>3. v.windows \in Nat
      BY <1>1, <1>12 DEF WindowKept
    <2>4. v.window.allocated => v.window.generation \in 1..v.windows
      BY <1>1, <1>3, <1>12, <1>15 DEF WindowKept
    <2>5. /\ <<v.slot, "pixels">> \in v.heap <=> v.window.window_object_open
          /\ v.slot \in v.ui => v.window.window_object_open
      BY <1>1, <1>12, <1>15 DEF WindowKept
    <2>6. DOMAIN v.window = WindowFields
      BY <1>15
    <2> QED
      BY <2>1, <2>2, <2>3, <2>4, <2>5, <2>6, Zenon DEF WindowKept
  <1>18. Streams(v)
    <2>1. Held(v, "FILE") \subseteq v.files /\ Held(v, "DIRECTORY") = v.directories
      BY <1>1, <1>11, <1>12 DEF Streams
    <2>2. IsFiniteSet(v.directories)
      BY <1>1, <1>12 DEF Streams
    <2>3. Owned(v, Held(v, "SOCKET")) = Owned(w, Held(w, "SOCKET"))
      BY <1>11, <1>12 DEF Owned
    <2>4. Owned(w, Held(w, "SOCKET")) = Own(v.sockets, v.slot)
      BY <1>1, <1>12 DEF Streams
    <2> QED
      BY <2>1, <2>2, <2>3, <2>4 DEF Streams
  <1>19. ThreadsHeld(v)
    BY <1>1, <1>11, <1>12 DEF ThreadsHeld
  <1>20. WindowsHeld(v, d)
    <2>1. Held(v, "EVENT_QUEUE") = {}
      BY <1>1, <1>2, <1>11 DEF WindowsHeld
    <2>2. Held(v, "WINDOW") \subseteq 1..v.windows
      BY <1>1, <1>11, <1>12 DEF WindowsHeld
    <2>3. v.window.window_object_open => v.window.generation \in Held(v, "WINDOW")
      BY <1>1, <1>11, <1>15 DEF WindowsHeld
    <2>4. ASSUME d PROVE Held(v, "WINDOW") = IF v.window.window_object_open THEN {v.window.generation} ELSE {}
      <3>1. Held(w, "WINDOW") = IF w.window.window_object_open THEN {w.window.generation} ELSE {}
        BY <1>1, <2>4 DEF WindowsHeld
      <3>2. CASE b
        BY <1>11, <1>15, <3>1, <3>2
      <3>3. CASE ~b
        BY <1>11, <1>15, <3>1, <3>3
      <3> QED
        BY <3>2, <3>3
    <2> QED
      BY <1>15, <2>1, <2>2, <2>3, <2>4 DEF WindowsHeld
  <1>21. Books(v, d)
    BY <1>9, <1>14, <1>16, <1>17, <1>18, <1>19, <1>20 DEF Books
  <1>22. FramesLocal(w, v) /\ HeapLocal(w, v) /\ SocketsLocal(w, v) /\ UiLocal(w, v)
    <2>1. c \cap {"frames"} = {} /\ c \cap {"heap"} = {} /\ c \cap {"sockets"} = {} /\ c \cap {"ui"} = {}
      OBVIOUS
    <2> QED
      BY <1>1, <1>10, <2>1, LocalKept
  <1>23. FilesLocal(w, v)
    BY <1>1, <1>11, <1>12 DEF FilesLocal, Finite
  <1>24. c \cap {"slot", "space", "aliases", "narrowed", "draws"} = {}
    OBVIOUS
  <1>25. Result(w, v, d)
    BY <1>10, <1>21, <1>22, <1>23, <1>24, OrdinaryResult
  <1> QED
    BY <1>2, <1>3, <1>7, <1>25

LEMMA CloseResult ==
  ASSUME NEW w, NEW d, Ready(w, d), ResourceAssumption, NEW draws \in BOOLEAN,
         NEW o \in DOMAIN w.handles, NEW v, v = native_handle_close(w, o, draws)
  PROVE  Result(w, v, d)
  <1>1. /\ Shape(w) /\ Objects(w) /\ Streams(w) /\ Mapping(w) /\ WindowsHeld(w, d)
        /\ w.ok \in BOOLEAN /\ w.ok
    BY ReadyParts DEF Ready
  <1>2. o.id \in Held(w, o.type) /\ o.type \in HandleTypes /\ w.handles[o] \in Nat \ {0}
    BY <1>1, HeldIds
  <1>3. CASE w.handles[o] > 1
    <2> PICK n : n = w.handles[o] - 1
      OBVIOUS
    <2>1. n \in Nat \ {0}
      BY <1>2, <1>3
    <2>2. v = [w EXCEPT !.handles[o] = n]
      BY <1>3 DEF native_handle_close
    <2> QED
      BY <2>1, <2>2, CountResult
  <1>4. CASE ~(w.handles[o] > 1)
    <2> PICK x : x = close_resource(w, o, draws)
      OBVIOUS
    <2>1. v = IF x.ok THEN [x EXCEPT !.handles = Without(@, {o})] ELSE x
      BY <1>4 DEF native_handle_close
    <2>2. CASE o.type = "FILE"
      <3>1. x = [w EXCEPT !.files = @ \ {o.id}]
        BY <1>1, <1>2, <2>2 DEF close_resource, Streams
      <3>2. Keeping(w, x, {"files"}) /\ x.files = w.files \ {o.id}
        BY <1>1, <3>1, FieldNames DEF Keeping, Shape
      <3>3. x.directories = w.directories /\ x.sockets = w.sockets /\ x.ok = w.ok
        BY <3>2, FieldNames DEF Keeping
      <3>4. v = [x EXCEPT !.handles = Without(@, {o})]
        BY <1>1, <2>1, <3>3
      <3>5. Keeping(w, x, {"files", "directories", "sockets"})
        BY <3>2, KeepingMore
      <3> QED
        BY <2>2, <3>2, <3>3, <3>4, <3>5, StreamCloseResult
    <2>3. CASE o.type = "DIRECTORY"
      <3>1. x = [w EXCEPT !.directories = @ \ {o.id}]
        BY <2>3 DEF close_resource
      <3>2. Keeping(w, x, {"directories"}) /\ x.directories = w.directories \ {o.id}
        BY <1>1, <3>1, FieldNames DEF Keeping, Shape
      <3>3. x.files = w.files /\ x.sockets = w.sockets /\ x.ok = w.ok
        BY <3>2, FieldNames DEF Keeping
      <3>4. v = [x EXCEPT !.handles = Without(@, {o})]
        BY <1>1, <2>1, <3>3
      <3>5. Keeping(w, x, {"files", "directories", "sockets"})
        BY <3>2, KeepingMore
      <3> QED
        BY <2>3, <3>2, <3>3, <3>4, <3>5, StreamCloseResult
    <2>4. CASE o.type = "SOCKET"
      <3> PICK p : p = <<w.slot, o.id>>
        OBVIOUS
      <3>1. p \in w.sockets
        <4>1. p \in Owned(w, Held(w, "SOCKET"))
          BY <1>2, <2>4 DEF Owned
        <4> QED
          BY <1>1, <4>1 DEF Streams, Own
      <3>2. x = [w EXCEPT !.sockets = @ \ {p}]
        BY <2>4, <3>1 DEF close_resource
      <3>3. Keeping(w, x, {"sockets"}) /\ x.sockets = w.sockets \ {p}
        BY <1>1, <3>2, FieldNames DEF Keeping, Shape
      <3>4. x.files = w.files /\ x.directories = w.directories /\ x.ok = w.ok
        BY <3>3, FieldNames DEF Keeping
      <3>5. v = [x EXCEPT !.handles = Without(@, {o})]
        BY <1>1, <2>1, <3>4
      <3>6. Keeping(w, x, {"files", "directories", "sockets"})
        BY <3>3, KeepingMore
      <3> QED
        BY <2>4, <3>3, <3>4, <3>5, <3>6, StreamCloseResult
    <2>5. CASE o.type \in {"TIMER", "THREAD"}
      <3>1. x = w
        BY <2>5 DEF close_resource
      <3>2. v = [x EXCEPT !.handles = Without(@, {o})]
        BY <1>1, <2>1, <3>1
      <3>3. Keeping(w, x, {"files", "directories", "sockets"})
        BY <1>1, <3>1 DEF Keeping
      <3> QED
        BY <2>5, <3>1, <3>2, <3>3, StreamCloseResult
    <2>6. CASE o.type = "WINDOW"
      <3>1. CASE w.window.allocated /\ w.window.generation = o.id
        <4>1. x = window_release_surface(w, draws)
          BY <2>6, <3>1 DEF close_resource
        <4> QED
          BY <2>1, <2>6, <3>1, <4>1, WindowCloseResult
      <3>2. CASE ~(w.window.allocated /\ w.window.generation = o.id)
        <4>1. x = Failed(w)
          BY <2>6, <3>2 DEF close_resource
        <4>2. Keeping(w, x, {"ok"}) /\ x.ok = FALSE
          BY <1>1, <4>1, FailedGives
        <4>3. v = x
          BY <2>1, <4>2
        <4> QED
          BY <4>2, <4>3, NothingResult
      <3> QED
        BY <3>1, <3>2
    <2>7. CASE o.type = "EVENT_QUEUE"
      <3> PICK e : e = Unqueued(w)
        OBVIOUS
      <3> PICK y : y = window_finalize_if_unreferenced(e)
        OBVIOUS
      <3> PICK z : z = Forgotten(y, o)
        OBVIOUS
      <3>1. Result(w, z, d) /\ y.ok = w.ok /\ w.window.allocated /\ w.window.generation = o.id
        BY <2>7, EventsCloseResult
      <3>2. x = y
        BY <2>7, <3>1 DEF close_resource, Unqueued
      <3>3. v = z
        BY <1>1, <2>1, <3>1, <3>2 DEF Forgotten
      <3> QED
        BY <3>1, <3>3
    <2> QED
      BY <1>2, <2>2, <2>3, <2>4, <2>5, <2>6, <2>7 DEF HandleTypes
  <1> QED
    BY <1>3, <1>4

-----------------------------------------------------------------------------
(* A window that is opened, and all the ways not to.                       *)

(* k is w with a new window, its pixels, and the pages in A of its surface,*)
(* of which those in done are mapped.                                      *)
Opened(w, k, A, done) ==
  /\ Keeping(w, k, {"pages", "tables", "frames", "ok", "heap", "ui", "window", "windows", "handles"})
  /\ A \subseteq Range(Surface) /\ A \cap DOMAIN w.pages = {} /\ done \subseteq A
  /\ DOMAIN k.pages = DOMAIN w.pages \cup A
  /\ \A a \in DOMAIN w.pages : k.pages[a] = w.pages[a]
  /\ \A a \in A : k.pages[a].kind = "SURFACE"
  /\ k.tables = w.tables \cup done
  /\ k.frames = w.frames \cup Owned(w, A)
  /\ Mapping(k)
  /\ k.heap = w.heap \cup {<<w.slot, "pixels">>}
  /\ k.ui \subseteq w.ui \cup {w.slot} /\ w.ui \subseteq k.ui
  /\ k.windows = w.windows + 1
  /\ WindowRecord(k.window)
  /\ k.window.allocated /\ k.window.window_object_open
  /\ k.window.generation = w.windows + 1 /\ k.window.surface = Range(Surface)
  /\ k.ok \in BOOLEAN

(* What comes back of the window: all but, perhaps, a handle to nothing.   *)
Unopened(w, v) ==
  /\ Keeping(w, v, {"pages", "tables", "frames", "ok", "draws", "heap", "ui", "window", "windows", "handles"})
  /\ DOMAIN v.pages = DOMAIN w.pages /\ (\A a \in DOMAIN w.pages : v.pages[a] = w.pages[a])
  /\ v.tables = w.tables /\ v.frames = w.frames /\ v.heap = w.heap /\ v.ui = w.ui
  /\ v.windows = w.windows + 1
  /\ WindowRecord(v.window) /\ v.window.surface = {}
  /\ ~v.window.allocated /\ ~v.window.window_object_open /\ ~v.window.event_object_open
  /\ v.draws \in BOOLEAN

LEMMA OpenedCloses ==
  ASSUME NEW w, NEW d, Ready(w, d), ResourceAssumption, ~w.window.allocated, NEW k, NEW A, NEW done,
         Opened(w, k, A, done), ~k.window.event_object_open, NEW draws \in BOOLEAN, NEW x, x = window_release_surface(k, draws)
  PROVE  /\ Unopened(w, x) /\ x.handles = k.handles /\ x.ok \in BOOLEAN
         /\ k.ok /\ A = Range(Surface) => (x.ok <=> x.draws)
  <1>1. /\ Shape(w) /\ Mapping(w) /\ SurfaceHeld(w) /\ WindowKept(w)
        /\ w.draws \in BOOLEAN /\ w.draws
    BY ReadyParts DEF Ready
  <1>2. ~w.window.window_object_open /\ w.slot \notin w.ui /\ <<w.slot, "pixels">> \notin w.heap
    BY <1>1 DEF WindowKept
  <1>3. /\ Keeping(w, k, {"pages", "tables", "frames", "ok", "heap", "ui", "window", "windows", "handles"})
        /\ A \subseteq Range(Surface) /\ A \cap DOMAIN w.pages = {} /\ done \subseteq A
        /\ DOMAIN k.pages = DOMAIN w.pages \cup A
        /\ \A a \in DOMAIN w.pages : k.pages[a] = w.pages[a]
        /\ \A a \in A : k.pages[a].kind = "SURFACE"
        /\ k.tables = w.tables \cup done
        /\ k.frames = w.frames \cup Owned(w, A)
        /\ Mapping(k)
        /\ k.heap = w.heap \cup {<<w.slot, "pixels">>}
        /\ k.ui \subseteq w.ui \cup {w.slot} /\ w.ui \subseteq k.ui
        /\ k.windows = w.windows + 1
    BY DEF Opened
  <1>4. /\ WindowRecord(k.window) /\ k.window.allocated /\ ~k.window.event_object_open
        /\ k.window.surface = Range(Surface) /\ k.ok \in BOOLEAN
    BY DEF Opened
  <1>5. Shape(k) /\ k.slot = w.slot /\ k.draws = w.draws
    BY <1>3, FieldNames DEF Keeping
  <1>6. PICK own \in SUBSET DOMAIN k.pages :
          /\ own = {a \in k.window.surface \cap DOMAIN k.pages : k.pages[a].kind = "SURFACE"}
          /\ Released(k, x, draws, own) /\ Shut(k, x.window)
    BY <1>1, <1>3, <1>4, <1>5, ReleaseSurfaceGives
  <1>7. own = A
    <2>1. Range(Surface) \cap DOMAIN w.pages = {}
      BY <1>1, <1>2, SurfacePart DEF SurfaceHeld
    <2> QED
      BY <1>3, <1>4, <1>6, <2>1
  <1>8. /\ Keeping(k, x, {"pages", "tables", "frames", "ok", "draws", "heap", "ui", "window"})
        /\ DOMAIN x.pages = DOMAIN k.pages \ A
        /\ \A a \in DOMAIN x.pages : x.pages[a] = k.pages[a]
        /\ x.tables = k.tables \ A
        /\ x.frames = k.frames \ Owned(k, A)
        /\ x.heap = k.heap \ {<<k.slot, "pixels">>}
        /\ x.ui = k.ui \ {k.slot}
        /\ x.draws \in BOOLEAN /\ (x.draws <=> k.draws /\ (k.slot \notin k.ui \/ draws))
        /\ x.ok \in BOOLEAN
        /\ x.ok <=> k.ok /\ (k.slot \notin k.ui \/ draws) /\ A = k.window.surface
    BY <1>6, <1>7 DEF Released
  <1>9. DOMAIN x.pages = DOMAIN w.pages /\ \A a \in DOMAIN w.pages : x.pages[a] = w.pages[a]
    BY <1>3, <1>8
  <1>10. x.tables = w.tables
    <2>1. w.tables \subseteq DOMAIN w.pages
      BY <1>1 DEF Mapping
    <2> QED
      BY <1>3, <1>8, <2>1
  <1>11. x.frames = w.frames
    <2>1. ASSUME NEW a \in A PROVE <<w.slot, a>> \notin w.frames
      <3>1. <<w.slot, a>> \notin Own(w.frames, w.slot)
        BY <1>1, <1>3, OwnedOne DEF Mapping
      <3> QED
        BY <3>1 DEF Own
    <2>2. Owned(k, A) = Owned(w, A) /\ Owned(w, A) \cap w.frames = {}
      BY <1>5, <2>1 DEF Owned
    <2> QED
      BY <1>3, <1>8, <2>2
  <1>12. x.heap = w.heap /\ x.ui = w.ui
    BY <1>2, <1>3, <1>5, <1>8
  <1>13. x.handles = k.handles /\ x.windows = w.windows + 1
    <2>1. x.handles = k.handles /\ x.windows = k.windows
      BY <1>8, FieldNames DEF Keeping
    <2> QED
      BY <1>3, <2>1
  <1>14. Keeping(w, x, {"pages", "tables", "frames", "ok", "draws", "heap", "ui", "window", "windows", "handles"})
    BY <1>3, <1>8 DEF Keeping
  <1>15. /\ WindowRecord(x.window) /\ x.window.surface = {}
         /\ ~x.window.allocated /\ ~x.window.window_object_open /\ ~x.window.event_object_open
    BY <1>4, <1>6 DEF Shut, WindowRecord
  <1>16. Unopened(w, x)
    BY <1>8, <1>9, <1>10, <1>11, <1>12, <1>13, <1>14, <1>15 DEF Unopened
  <1>17. k.ok /\ A = Range(Surface) => (x.ok <=> x.draws)
    BY <1>1, <1>4, <1>5, <1>8
  <1> QED
    BY <1>8, <1>13, <1>16, <1>17

LEMMA UnopenedResult ==
  ASSUME NEW w, NEW d, Ready(w, d), ~w.window.allocated, NEW v, Unopened(w, v),
         Objects(v), Held(v, "WINDOW") \subseteq Held(w, "WINDOW") \cup {w.windows + 1},
         v.draws => Held(v, "WINDOW") = Held(w, "WINDOW"),
         \A u : u # "WINDOW" => Held(v, u) = Held(w, u)
  PROVE  Result(w, v, d)
  <1>1. /\ Mapping(w) /\ Loaded(w) /\ SurfaceHeld(w) /\ WindowKept(w) /\ Finite(w)
        /\ Streams(w) /\ ThreadsHeld(w) /\ WindowsHeld(w, d) /\ d \in BOOLEAN
    BY ReadyParts DEF Ready
  <1>2. /\ Keeping(w, v, {"pages", "tables", "frames", "ok", "draws", "heap", "ui", "window",
                          "windows", "handles"})
        /\ DOMAIN v.pages = DOMAIN w.pages /\ (\A a \in DOMAIN w.pages : v.pages[a] = w.pages[a])
        /\ v.tables = w.tables /\ v.frames = w.frames /\ v.heap = w.heap /\ v.ui = w.ui
        /\ v.windows = w.windows + 1
        /\ WindowRecord(v.window) /\ v.window.surface = {}
        /\ ~v.window.allocated /\ ~v.window.window_object_open /\ ~v.window.event_object_open
        /\ v.draws \in BOOLEAN
    BY DEF Unopened
  <1>3. /\ Shape(v) /\ v.slot = w.slot /\ v.space = w.space /\ v.aliases = w.aliases
        /\ v.narrowed = w.narrowed /\ v.files = w.files /\ v.directories = w.directories
        /\ v.sockets = w.sockets /\ v.threads = w.threads
    BY <1>2, FieldNames DEF Keeping
  <1>4. w.windows \in Nat /\ ~w.window.window_object_open /\ w.window.event_object_open \in BOOLEAN
        /\ ~w.window.event_object_open
    BY <1>1 DEF WindowKept
  <1>5. Mapping(v)
    BY <1>1, <1>2, <1>3 DEF Mapping, Owned
  <1>6. Loaded(v)
    BY <1>1, <1>2, <1>3 DEF Loaded
  <1>7. SurfaceHeld(v)
    BY <1>1, <1>2, <1>4 DEF SurfaceHeld
  <1>8. WindowKept(v)
    <2>1. /\ {v.window.window_object_open, v.window.event_object_open} \subseteq BOOLEAN
          /\ DOMAIN v.window = WindowFields
      BY <1>2 DEF WindowRecord
    <2>2. v.window.allocated = (v.window.window_object_open \/ v.window.event_object_open)
      BY <1>2 DEF WindowRecord
    <2>3. v.windows \in Nat
      BY <1>2, <1>4
    <2>4. <<v.slot, "pixels">> \notin v.heap /\ v.slot \notin v.ui
      BY <1>1, <1>2, <1>3, <1>4 DEF WindowKept
    <2> QED
      BY <1>2, <2>1, <2>2, <2>3, <2>4 DEF WindowKept
  <1>9. /\ Held(v, "FILE") = Held(w, "FILE") /\ Held(v, "DIRECTORY") = Held(w, "DIRECTORY")
        /\ Held(v, "SOCKET") = Held(w, "SOCKET") /\ Held(v, "THREAD") = Held(w, "THREAD")
        /\ Held(v, "EVENT_QUEUE") = Held(w, "EVENT_QUEUE")
    OBVIOUS
  <1>10. Streams(v)
    BY <1>1, <1>3, <1>9 DEF Streams, Owned
  <1>11. ThreadsHeld(v)
    BY <1>1, <1>3, <1>9 DEF ThreadsHeld
  <1>12. WindowsHeld(v, d /\ v.draws)
    <2>1. Held(v, "WINDOW") \subseteq 1..v.windows
      <3> PICK n \in Nat : n = w.windows
        BY <1>4
      <3>1. Held(w, "WINDOW") \subseteq 1..n
        BY <1>1 DEF WindowsHeld
      <3>2. \A i \in 1..n : i \in 1..(n + 1)
        OBVIOUS
      <3>3. n + 1 \in 1..(n + 1)
        OBVIOUS
      <3> QED
        BY <1>2, <3>1, <3>2, <3>3
    <2>2. Held(v, "EVENT_QUEUE") = {}
      BY <1>1, <1>4, <1>9 DEF WindowsHeld
    <2>3. d /\ v.draws => Held(v, "WINDOW") = {}
      BY <1>1, <1>4 DEF WindowsHeld
    <2> QED
      BY <1>2, <2>1, <2>2, <2>3 DEF WindowsHeld
  <1>13. Books(v, d /\ v.draws)
    BY <1>5, <1>6, <1>7, <1>8, <1>10, <1>11, <1>12 DEF Books
  <1>14. FramesLocal(w, v) /\ HeapLocal(w, v) /\ SocketsLocal(w, v) /\ UiLocal(w, v) /\ FilesLocal(w, v)
    BY <1>1, <1>2, <1>3, <1>9 DEF FramesLocal, HeapLocal, SocketsLocal, UiLocal, FilesLocal, Finite
  <1>15. Local(w, v)
    BY <1>2, <1>3, <1>14 DEF Local
  <1> QED
    BY <1>13, <1>15 DEF Result

(* The call may have failed besides.                                       *)
LEMMA ThenResult ==
  ASSUME NEW w, NEW x, NEW d, Result(w, x, d)
  PROVE  Result(w, Then(x), d)
  <1>1. Shape(x)
    BY DEF Result, Local
  <1> PICK v : v = Then(x)
    OBVIOUS
  <1>2. Keeping(x, v, {"ok"})
    BY <1>1, ThenGives
  <1>3. Keeping(x, v, {"exiting", "ok"})
    BY <1>2, KeepingMore
  <1> QED
    BY <1>3, ResultMore

(* The handle of the new window.                                           *)
NewHandle(w, k, o) ==
  /\ Objects(k) /\ o \in DOMAIN k.handles /\ o.type = "WINDOW" /\ o.id = w.windows + 1
  /\ k.handles[o] = 1
  /\ Held(k, "WINDOW") = Held(w, "WINDOW") \cup {w.windows + 1}
  /\ \A u : u # "WINDOW" => Held(k, u) = Held(w, u)

LEMMA UndoResult ==
  ASSUME NEW w, NEW d, Ready(w, d), ResourceAssumption, ~w.window.allocated, NEW k, NEW done,
         Opened(w, k, Range(Surface), done), ~k.window.event_object_open, k.ok,
         NEW o, NewHandle(w, k, o),
         NEW draws \in BOOLEAN, NEW v, v = native_handle_close(k, o, draws)
  PROVE  Result(w, v, d)
  <1> PICK x : x = window_release_surface(k, draws)
    OBVIOUS
  <1>1. Unopened(w, x) /\ x.handles = k.handles /\ x.ok \in BOOLEAN /\ (x.ok <=> x.draws)
    <2> PICK A : A = Range(Surface)
      OBVIOUS
    <2>1. /\ Unopened(w, x) /\ x.handles = k.handles /\ x.ok \in BOOLEAN
          /\ k.ok /\ A = Range(Surface) => (x.ok <=> x.draws)
      BY OpenedCloses
    <2> QED
      BY <2>1
  <1>2. Objects(x) /\ \A u : Held(x, u) = Held(k, u)
    BY <1>1 DEF NewHandle, Objects, Held
  <1>3. v = IF x.ok THEN Forgotten(x, o) ELSE x
    <2>1. x = close_resource(k, o, draws)
      BY DEF close_resource, Opened, NewHandle
    <2>2. ~(k.handles[o] > 1)
      BY DEF NewHandle
    <2> QED
      BY <2>1, <2>2 DEF native_handle_close, Forgotten
  <1>4. Shape(x)
    BY <1>1 DEF Unopened, Keeping
  <1>5. CASE x.ok
    <2>1. Keeping(x, v, {"handles"}) /\ v.handles = Without(x.handles, {o})
      BY <1>3, <1>4, <1>5, ForgetKeeps DEF Forgotten
    <2>2. o \in DOMAIN x.handles /\ "WINDOW" = o.type /\ o.id = w.windows + 1
      BY <1>1 DEF NewHandle
    <2>3. Forgets(x, v, "WINDOW", o.id)
      BY <1>2, <2>1, <2>2, ForgetGives
    <2>4. /\ Objects(v) /\ Held(v, "WINDOW") = Held(x, "WINDOW") \ {w.windows + 1}
          /\ \A u : u # "WINDOW" => Held(v, u) = Held(x, u)
      BY <2>2, <2>3 DEF Forgets
    <2>5. w.windows + 1 \notin Held(w, "WINDOW")
      <3>1. w.windows \in Nat /\ Held(w, "WINDOW") \subseteq 1..w.windows
        BY ReadyParts DEF WindowKept, WindowsHeld
      <3> QED
        BY <3>1
    <2>6. Held(v, "WINDOW") = Held(w, "WINDOW") /\ \A u : u # "WINDOW" => Held(v, u) = Held(w, u)
      BY <1>2, <2>4, <2>5 DEF NewHandle
    <2>7. Unopened(w, v)
      <3>1. /\ v.pages = x.pages /\ v.tables = x.tables /\ v.frames = x.frames /\ v.heap = x.heap
            /\ v.ui = x.ui /\ v.windows = x.windows /\ v.window = x.window /\ v.draws = x.draws
        BY <2>1, FieldNames DEF Keeping
      <3>2. Keeping(w, v, {"pages", "tables", "frames", "ok", "draws", "heap", "ui", "window",
                           "windows", "handles"})
        BY <1>1, <2>1 DEF Unopened, Keeping
      <3> QED
        BY <1>1, <3>1, <3>2 DEF Unopened
    <2> QED
      BY <2>4, <2>6, <2>7, UnopenedResult
  <1>6. CASE ~x.ok
    <2>1. v = x /\ ~x.draws
      BY <1>1, <1>3, <1>6
    <2>2. /\ Held(x, "WINDOW") = Held(w, "WINDOW") \cup {w.windows + 1}
          /\ \A u : u # "WINDOW" => Held(x, u) = Held(w, u)
      BY <1>2 DEF NewHandle
    <2> QED
      BY <1>1, <1>2, <2>1, <2>2, UnopenedResult
  <1> QED
    BY <1>5, <1>6

(* The heap refused the pixels; only the count of windows is another.      *)
LEMMA UncountedResult ==
  ASSUME NEW w, NEW d, Ready(w, d), ~w.window.allocated, NEW v, v = [w EXCEPT !.windows = @ + 1]
  PROVE  Result(w, v, d)
  <1> PICK c : c = {"windows"}
    OBVIOUS
  <1>1. /\ Shape(w) /\ WindowKept(w) /\ WindowsHeld(w, d) /\ Finite(w)
    BY ReadyParts
  <1>2. Keeping(w, v, c) /\ v.windows = w.windows + 1
    BY <1>1, FieldNames DEF Keeping, Shape
  <1>3. /\ v.window = w.window /\ v.handles = w.handles /\ v.slot = w.slot /\ v.heap = w.heap
        /\ v.ui = w.ui
    BY <1>2, FieldNames DEF Keeping
  <1>4. Mapping(v) /\ Loaded(v) /\ SurfaceHeld(v) /\ Objects(v) /\ Streams(v) /\ ThreadsHeld(v)
    BY <1>2, PartsKept, ReadyParts
  <1> PICK n \in Nat : n = w.windows
    BY <1>1 DEF WindowKept
  <1>5. WindowKept(v)
    <2>1. n + 1 \in Nat
      OBVIOUS
    <2> QED
      BY <1>1, <1>2, <1>3, <2>1 DEF WindowKept
  <1>6. WindowsHeld(v, d)
    <2>1. \A t : Held(v, t) = Held(w, t)
      BY <1>3 DEF Held
    <2>2. \A i \in 1..n : i \in 1..(n + 1)
      OBVIOUS
    <2>3. Held(v, "WINDOW") \subseteq 1..v.windows
      BY <1>1, <1>2, <2>1, <2>2 DEF WindowsHeld
    <2> QED
      BY <1>1, <1>3, <2>1, <2>3 DEF WindowsHeld
  <1>7. Books(v, d)
    BY <1>4, <1>5, <1>6 DEF Books
  <1>8. FramesLocal(w, v) /\ HeapLocal(w, v) /\ SocketsLocal(w, v) /\ UiLocal(w, v) /\ FilesLocal(w, v)
    BY <1>1, <1>2, LocalKept
  <1> QED
    BY <1>2, <1>7, <1>8, OrdinaryResult

NewWindow(n) ==
  [allocated |-> TRUE, window_object_open |-> TRUE, event_object_open |-> FALSE,
   generation |-> n, surface |-> Range(Surface)]

LEMMA GrownOpened ==
  ASSUME NEW w, NEW d, Ready(w, d), ResourceAssumption, ~w.window.allocated,
         NEW b, Keeping(w, b, {"windows", "heap", "window"}),
         b.windows = w.windows + 1, b.heap = w.heap \cup {<<w.slot, "pixels">>},
         b.window = NewWindow(w.windows + 1),
         NEW g \in Grown(b, Surface, "SURFACE")
  PROVE  /\ FramesLocal(w, g) /\ g.handles = w.handles /\ g.ui = w.ui /\ g.ok \in BOOLEAN
         /\ g.window = b.window
         /\ \E A, done : Opened(w, g, A, done) /\ (g.ok => A = Range(Surface) /\ done = Range(Surface))
  <1>1. /\ Shape(w) /\ Mapping(w) /\ Finite(w) /\ WindowKept(w)
    BY ReadyParts
  <1>2. /\ Shape(b) /\ b.slot = w.slot /\ b.pages = w.pages /\ b.tables = w.tables
        /\ b.frames = w.frames /\ b.handles = w.handles /\ b.ui = w.ui /\ b.files = w.files
        /\ b.sockets = w.sockets
    BY FieldNames DEF Keeping
  <1>3. Mapping(b) /\ Finite(b)
    BY <1>1, <1>2 DEF Mapping, Owned, Finite
  <1>4. Surface \in Seq(Range(Surface)) /\ "SURFACE" \in Kinds
    BY SurfacePart DEF Kinds
  <1>5. PICK n \in 0..Len(Surface), m \in 0..Len(Surface) : GrownTo(b, g, Surface, "SURFACE", n, m)
    BY <1>2, <1>3, <1>4, GrownEnds
  <1> PICK A : A = First(Surface, n)
    OBVIOUS
  <1> PICK done : done = First(Surface, m)
    OBVIOUS
  <1> PICK k : k = [a \in A |-> "SURFACE"]
    OBVIOUS
  <1>6. Mapping(g) /\ FramesLocal(b, g) /\ FreshPages(b, k) /\ done \subseteq A
    BY <1>3, <1>4, <1>5, GrewFrames
  <1>7. Grew(b, g, k, done) /\ g.ok \in BOOLEAN /\ (g.ok => m = Len(Surface)) /\ m <= n
    BY <1>5 DEF GrownTo
  <1>8. DOMAIN k = A /\ \A a \in A : k[a] = "SURFACE"
    OBVIOUS
  <1>9. /\ Keeping(b, g, {"pages", "tables", "frames", "ok"})
        /\ DOMAIN g.pages = DOMAIN w.pages \cup A
        /\ \A a \in DOMAIN w.pages : g.pages[a] = w.pages[a]
        /\ \A a \in A : g.pages[a].kind = "SURFACE"
        /\ g.tables = w.tables \cup done
        /\ g.frames = w.frames \cup Owned(b, A)
    BY <1>2, <1>7, <1>8 DEF Grew
  <1>10. Owned(b, A) = Owned(w, A) /\ A \cap DOMAIN w.pages = {}
    BY <1>2, <1>6, <1>8 DEF Owned, FreshPages
  <1>11. A \subseteq Range(Surface)
    <2>1. Len(Surface) \in Nat /\ n \in 0..Len(Surface)
      BY <1>4
    <2>2. First(Surface, n) \subseteq First(Surface, Len(Surface))
      BY <2>1, FirstFew
    <2> QED
      BY <1>4, <2>2, FirstAll
  <1>12. g.ok => A = Range(Surface) /\ done = Range(Surface)
    <2>1. Len(Surface) \in Nat
      BY <1>4
    <2>2. g.ok => m = Len(Surface) /\ n = Len(Surface)
      BY <1>7, <2>1
    <2> QED
      BY <1>4, <2>2, FirstAll
  <1>13. /\ g.handles = w.handles /\ g.ui = w.ui /\ g.window = b.window /\ g.heap = b.heap
         /\ g.windows = b.windows
    BY <1>2, <1>9, FieldNames DEF Keeping
  <1>14. Keeping(w, g, {"pages", "tables", "frames", "ok", "heap", "ui", "window", "windows", "handles"})
    BY <1>9 DEF Keeping
  <1>15. /\ WindowRecord(g.window) /\ g.window.allocated /\ g.window.window_object_open
         /\ g.window.generation = w.windows + 1 /\ g.window.surface = Range(Surface)
    BY <1>13 DEF NewWindow, WindowRecord, WindowFields
  <1>16. Opened(w, g, A, done)
    BY <1>6, <1>7, <1>9, <1>10, <1>11, <1>13, <1>14, <1>15 DEF Opened
  <1>17. FramesLocal(w, g)
    BY <1>2, <1>6 DEF FramesLocal
  <1> QED
    BY <1>7, <1>12, <1>13, <1>16, <1>17

LEMMA OpenedMore ==
  ASSUME NEW w, NEW k, NEW A, NEW done, Opened(w, k, A, done), NEW v,
         Keeping(k, v, {"handles", "ok", "ui", "window"}), v.ok \in BOOLEAN,
         v.ui = k.ui \/ v.ui = k.ui \cup {w.slot},
         WindowRecord(v.window), v.window.allocated, v.window.window_object_open,
         v.window.generation = k.window.generation, v.window.surface = k.window.surface
  PROVE  Opened(w, v, A, done)
  <1>1. /\ v.pages = k.pages /\ v.tables = k.tables /\ v.frames = k.frames /\ v.heap = k.heap
        /\ v.windows = k.windows /\ v.slot = k.slot
    BY FieldNames DEF Keeping
  <1>2. Keeping(w, v, {"pages", "tables", "frames", "ok", "heap", "ui", "window", "windows", "handles"})
    BY DEF Opened, Keeping
  <1>3. Mapping(v)
    BY <1>1 DEF Opened, Mapping, Owned
  <1>4. v.ui \subseteq w.ui \cup {w.slot} /\ w.ui \subseteq v.ui
    BY DEF Opened
  <1> QED
    BY <1>1, <1>2, <1>3, <1>4 DEF Opened

LEMMA OpenedSame ==
  ASSUME NEW w, NEW k, NEW A, NEW done, Opened(w, k, A, done), NEW v,
         Keeping(k, v, {"handles", "ok"}), v.ok \in BOOLEAN
  PROVE  Opened(w, v, A, done) /\ v.window = k.window /\ v.ui = k.ui
  <1>1. v.ui = k.ui /\ v.window = k.window
    BY FieldNames DEF Keeping
  <1>2. Keeping(k, v, {"handles", "ok", "ui", "window"})
    BY KeepingMore
  <1>3. WindowRecord(v.window) /\ v.window.allocated /\ v.window.window_object_open
    BY <1>1 DEF Opened
  <1> QED
    BY <1>1, <1>2, <1>3, OpenedMore

SameOpened(w, k, v, A, done) ==
  Opened(w, v, A, done) /\ v.window = k.window /\ v.ui = k.ui

LEMMA OpenedStays ==
  ASSUME NEW w, NEW k, NEW A, NEW done, Opened(w, k, A, done), NEW v,
         Keeping(k, v, {"handles", "ok"}), v.ok \in BOOLEAN
  PROVE  SameOpened(w, k, v, A, done)
  BY OpenedSame DEF SameOpened

(* The window is given up before it has a handle.                          *)
LEMMA SurfaceBackResult ==
  ASSUME NEW w, NEW d, Ready(w, d), ResourceAssumption, ~w.window.allocated, NEW k, NEW A, NEW done,
         Opened(w, k, A, done), ~k.window.event_object_open, k.handles = w.handles,
         NEW draws \in BOOLEAN, NEW v, v = Then(window_release_surface(k, draws))
  PROVE  Result(w, v, d)
  <1> PICK x : x = window_release_surface(k, draws)
    OBVIOUS
  <1>1. Unopened(w, x) /\ x.handles = w.handles
    BY OpenedCloses
  <1>2. Objects(x) /\ \A u : Held(x, u) = Held(w, u)
    BY <1>1, ReadyParts DEF Objects, Held
  <1>3. /\ Held(x, "WINDOW") \subseteq Held(w, "WINDOW") \cup {w.windows + 1}
        /\ x.draws => Held(x, "WINDOW") = Held(w, "WINDOW")
        /\ \A u : u # "WINDOW" => Held(x, u) = Held(w, u)
    BY <1>2
  <1>4. Result(w, x, d)
    BY <1>1, <1>2, <1>3, UnopenedResult
  <1> QED
    BY <1>4, ThenResult

(* A handle to an object that had none is counted once.                    *)
LEMMA InstallCounts ==
  ASSUME NEW w, Shape(w), NEW t, NEW i, i \notin Held(w, t), NEW o, o = Object(t, i),
         NEW v, v = native_handle_install(w, o)
  PROVE  /\ DOMAIN v.handles = DOMAIN w.handles \cup {o} /\ v.handles[o] = 1
         /\ \A x \in DOMAIN w.handles : v.handles[x] = w.handles[x]
  <1>1. o \notin DOMAIN w.handles
    BY ObjectOf DEF Held
  <1> PICK h : h = Joined(w.handles, [x \in {o} |-> 1])
    OBVIOUS
  <1>2. /\ DOMAIN h = DOMAIN w.handles \cup {o} /\ h[o] = 1
        /\ \A x \in DOMAIN w.handles : h[x] = w.handles[x]
    BY <1>1 DEF Joined
  <1>3. v.handles = h
    BY FieldNames DEF native_handle_install, Shape
  <1> QED
    BY <1>2, <1>3

(* No handle of an earlier window is mistaken for one of the new window.   *)
LEMMA NewIds ==
  ASSUME NEW w, NEW d, Ready(w, d), ~w.window.allocated
  PROVE  /\ w.windows + 1 \notin Held(w, "WINDOW") /\ Held(w, "EVENT_QUEUE") = {}
         /\ w.windows \in Nat /\ ~w.window.window_object_open
  <1>1. WindowKept(w) /\ WindowsHeld(w, d)
    BY ReadyParts
  <1>2. w.windows \in Nat /\ Held(w, "WINDOW") \subseteq 1..w.windows
    BY <1>1 DEF WindowKept, WindowsHeld
  <1>3. ~w.window.window_object_open /\ ~w.window.event_object_open
    BY <1>1 DEF WindowKept
  <1>4. Held(w, "EVENT_QUEUE") = {}
    BY <1>1, <1>3 DEF WindowsHeld
  <1> QED
    BY <1>2, <1>3, <1>4

(* The first handle is there.                                              *)
LEMMA FirstHandle ==
  ASSUME NEW w, NEW d, Ready(w, d), ~w.window.allocated, NEW k, NEW A, NEW done,
         Opened(w, k, A, done), k.handles = w.handles, k.ok,
         NEW o, o = Object("WINDOW", k.window.generation), NEW f, f = native_handle_install(k, o)
  PROVE  /\ Opened(w, f, A, done) /\ NewHandle(w, f, o) /\ Keeping(k, f, {"handles"})
         /\ Shape(f) /\ f.window = k.window /\ f.ok /\ f.ok \in BOOLEAN /\ f.ui = k.ui
  <1>1. Shape(k) /\ k.window.generation = w.windows + 1 /\ k.ok \in BOOLEAN
    BY DEF Opened, Keeping
  <1> PICK i : i = w.windows + 1
    OBVIOUS
  <1> PICK t : t = "WINDOW"
    OBVIOUS
  <1>2. Objects(k) /\ (\A u : Held(k, u) = Held(w, u)) /\ t \in HandleTypes
    BY ReadyParts DEF Objects, Held, HandleTypes
  <1>3. o = Object(t, i) /\ f = native_handle_install(k, Object(t, i))
    BY <1>1
  <1>4. /\ Keeping(k, f, {"handles"}) /\ Objects(f)
        /\ Held(f, t) = Held(k, t) \cup {i}
        /\ \A u : u # t => Held(f, u) = Held(k, u)
    BY <1>1, <1>2, <1>3, InstallGives
  <1>5. i \notin Held(k, t)
    BY <1>2, NewIds
  <1>6. DOMAIN f.handles = DOMAIN k.handles \cup {o} /\ f.handles[o] = 1
    BY <1>1, <1>3, <1>5, InstallCounts
  <1>7. Shape(f) /\ f.ok = k.ok
    BY <1>4, FieldNames DEF Keeping
  <1>8. Keeping(k, f, {"handles", "ok"})
    BY <1>4, KeepingMore
  <1>11. f.ok \in BOOLEAN /\ f.ok
    BY <1>1, <1>7
  <1>9. Opened(w, f, A, done) /\ f.window = k.window /\ f.ui = k.ui
    <2>1. f.ok \in BOOLEAN
      BY <1>11
    <2>2. Opened(w, k, A, done)
      OBVIOUS
    <2>3. SameOpened(w, k, f, A, done)
      BY ONLY <1>8, <2>1, <2>2, OpenedStays
    <2> QED
      BY ONLY <2>3 DEF SameOpened
  <1>10. NewHandle(w, f, o)
    BY <1>2, <1>3, <1>4, <1>6, ObjectOf DEF NewHandle
  <1> QED
    BY <1>4, <1>7, <1>9, <1>10, <1>11

LEMMA FirstUndone ==
  ASSUME NEW w, NEW d, Ready(w, d), ResourceAssumption, ~w.window.allocated, NEW f, NEW done,
         Opened(w, f, Range(Surface), done), ~f.window.event_object_open, NEW o, NewHandle(w, f, o),
         NEW draws \in BOOLEAN, NEW v, v = Undo(f, o, draws)
  PROVE  Result(w, v, d)
  <1>1. Shape(f)
    BY DEF Opened, Keeping
  <1> PICK k : k = Then(f)
    OBVIOUS
  <1>2. Keeping(f, k, {"ok"}) /\ k.ok = TRUE
    BY <1>1, ThenGives
  <1>3. Keeping(f, k, {"handles", "ok"}) /\ k.ok \in BOOLEAN /\ k.ok
    BY <1>2, KeepingMore
  <1>4. Opened(w, k, Range(Surface), done) /\ k.window = f.window
    <2>1. SameOpened(w, f, k, Range(Surface), done)
      BY <1>3, OpenedStays
    <2> QED
      BY ONLY <2>1 DEF SameOpened
  <1>5. k.handles = f.handles
    BY <1>2, FieldNames DEF Keeping
  <1>6. NewHandle(w, k, o)
    BY <1>5 DEF NewHandle, Objects, Held
  <1> PICK x : x = native_handle_close(k, o, draws)
    OBVIOUS
  <1>7. Result(w, x, d)
    BY <1>3, <1>4, <1>6, UndoResult
  <1>8. v = Then(x)
    BY DEF Undo
  <1> QED
    BY <1>7, <1>8, ThenResult

(* Both handles are there, and perhaps the window is on the screen.        *)
Handed(w, v, o, q) ==
  /\ Objects(v) /\ o \in DOMAIN v.handles /\ q \in DOMAIN v.handles /\ o # q
  /\ o.type = "WINDOW" /\ q.type = "EVENT_QUEUE" /\ o.id = w.windows + 1 /\ q.id = w.windows + 1
  /\ v.handles[o] = 1 /\ v.handles[q] = 1
  /\ Held(v, "WINDOW") = Held(w, "WINDOW") \cup {w.windows + 1}
  /\ Held(v, "EVENT_QUEUE") = {w.windows + 1}
  /\ \A u : u \notin {"WINDOW", "EVENT_QUEUE"} => Held(v, u) = Held(w, u)

Queued(w) == [w EXCEPT !.window.event_object_open = TRUE]

Onscreen(w) == [w EXCEPT !.ui = @ \cup {w.slot}]

LEMMA QueuedGives ==
  ASSUME NEW w, Shape(w), DOMAIN w.window = WindowFields, NEW v, v = Queued(w)
  PROVE  /\ Keeping(w, v, {"window"}) /\ DOMAIN v.window = WindowFields
         /\ v.window.event_object_open = TRUE
         /\ v.window.allocated = w.window.allocated
         /\ v.window.window_object_open = w.window.window_object_open
         /\ v.window.surface = w.window.surface /\ v.window.generation = w.window.generation
  <1> PICK n : n = [w.window EXCEPT !.event_object_open = TRUE]
    OBVIOUS
  <1>1. /\ DOMAIN n = WindowFields /\ n.event_object_open = TRUE
        /\ n.allocated = w.window.allocated /\ n.window_object_open = w.window.window_object_open
        /\ n.surface = w.window.surface /\ n.generation = w.window.generation
    BY DEF WindowFields
  <1>2. v = [w EXCEPT !.window = n]
    BY DEF Queued, Shape, Fields, ProcessFields
  <1>3. Keeping(w, v, {"window"}) /\ v.window = n
    BY <1>2, FieldNames DEF Keeping, Shape
  <1> QED
    BY <1>1, <1>3

LEMMA OnscreenGives ==
  ASSUME NEW w, Shape(w), NEW v, v = Onscreen(w)
  PROVE  Keeping(w, v, {"ui"}) /\ v.ui = w.ui \cup {w.slot}
  BY FieldNames DEF Onscreen, Keeping, Shape

Both(w, f, v, A, done, o, q) ==
  /\ Opened(w, v, A, done) /\ Handed(w, v, o, q) /\ v.window.event_object_open = TRUE
  /\ Keeping(f, v, {"handles", "window", "ui"})

LEMMA SecondHandle ==
  ASSUME NEW w, NEW d, Ready(w, d), ~w.window.allocated, NEW f, NEW A, NEW done,
         Opened(w, f, A, done), f.ok, NEW o, NewHandle(w, f, o),
         NEW q, q = Object("EVENT_QUEUE", f.window.generation),
         NEW h, h = native_handle_install(f, q), NEW z, z = Queued(h),
         NEW v, v = z \/ v = Onscreen(z)
  PROVE  Both(w, f, v, A, done, o, q)
  <1>1. Shape(f) /\ f.window.generation = w.windows + 1 /\ f.ok \in BOOLEAN /\ f.slot = w.slot
    BY FieldNames DEF Opened, Keeping
  <1>2. WindowRecord(f.window) /\ f.window.allocated /\ f.window.window_object_open
    BY DEF Opened
  <1> PICK i : i = w.windows + 1
    OBVIOUS
  <1> PICK t : t = "EVENT_QUEUE"
    OBVIOUS
  <1>3. Objects(f) /\ t \in HandleTypes /\ Held(f, t) = {}
    BY NewIds DEF NewHandle, HandleTypes
  <1>4. q = Object(t, i) /\ h = native_handle_install(f, Object(t, i))
    BY <1>1
  <1>5. /\ Keeping(f, h, {"handles"}) /\ Objects(h)
        /\ Held(h, t) = Held(f, t) \cup {i}
        /\ \A u : u # t => Held(h, u) = Held(f, u)
    BY <1>1, <1>3, <1>4, InstallGives
  <1>6. /\ DOMAIN h.handles = DOMAIN f.handles \cup {q} /\ h.handles[q] = 1
        /\ \A x \in DOMAIN f.handles : h.handles[x] = f.handles[x]
    BY <1>1, <1>3, <1>4, InstallCounts
  <1>7. Shape(h) /\ h.window = f.window /\ h.ok = f.ok /\ h.ui = f.ui /\ h.slot = f.slot
    BY <1>5, FieldNames DEF Keeping
  <1>8. DOMAIN h.window = WindowFields
    BY <1>2, <1>7 DEF WindowRecord
  <1>9. /\ Keeping(h, z, {"window"}) /\ DOMAIN z.window = WindowFields
        /\ z.window.event_object_open = TRUE
        /\ z.window.allocated = f.window.allocated
        /\ z.window.window_object_open = f.window.window_object_open
        /\ z.window.surface = f.window.surface /\ z.window.generation = f.window.generation
    <2>1. Shape(h) /\ DOMAIN h.window = WindowFields /\ z = Queued(h)
      BY <1>7, <1>8
    <2>2. /\ Keeping(h, z, {"window"}) /\ DOMAIN z.window = WindowFields
          /\ z.window.event_object_open = TRUE
          /\ z.window.allocated = h.window.allocated
          /\ z.window.window_object_open = h.window.window_object_open
          /\ z.window.surface = h.window.surface /\ z.window.generation = h.window.generation
      BY ONLY <2>1, QueuedGives, Zenon
    <2>3. h.window = f.window
      BY <1>7
    <2> QED
      BY ONLY <2>2, <2>3, Zenon
  <1>10. Shape(z) /\ z.handles = h.handles /\ z.ui = f.ui /\ z.slot = w.slot
    BY <1>1, <1>7, <1>9, FieldNames DEF Keeping
  <1>11. Keeping(z, v, {"ui"}) /\ (v.ui = f.ui \/ v.ui = f.ui \cup {w.slot})
    <2>1. CASE v = z
      BY <1>10, <2>1 DEF Keeping
    <2>2. CASE v = Onscreen(z)
      BY <1>10, <2>2, OnscreenGives
    <2> QED
      BY <2>1, <2>2
  <1>12. v.handles = h.handles /\ v.window = z.window
    BY <1>10, <1>11, FieldNames DEF Keeping
  <1>13. Keeping(f, v, {"handles", "window", "ui"})
    BY <1>5, <1>9, <1>11 DEF Keeping
  <1>14. v.ok = f.ok
    BY <1>13, FieldNames DEF Keeping
  <1>15. v.ok \in BOOLEAN /\ v.ok
    BY <1>1, <1>14
  <1>16. Keeping(f, v, {"handles", "ok", "ui", "window"})
    BY <1>13, KeepingMore
  <1>17. /\ WindowRecord(v.window) /\ v.window.allocated /\ v.window.window_object_open
         /\ v.window.generation = f.window.generation /\ v.window.surface = f.window.surface
    BY <1>2, <1>9, <1>12 DEF WindowRecord
  <1>18. Opened(w, v, A, done)
    <2>1. v.ok \in BOOLEAN
      BY <1>15
    <2>2. Opened(w, f, A, done)
      OBVIOUS
    <2> QED
      BY ONLY <1>11, <1>16, <1>17, <2>1, <2>2, OpenedMore, Zenon
  <1>19. q.type = t /\ q.id = i
    BY <1>4, ObjectOf
  <1>20. Objects(v) /\ \A u : Held(v, u) = Held(h, u)
    BY <1>5, <1>12 DEF Objects, Held
  <1>21. Handed(w, v, o, q)
    BY <1>3, <1>5, <1>6, <1>12, <1>19, <1>20 DEF NewHandle, Handed
  <1> QED
    BY <1>9, <1>12, <1>13, <1>18, <1>21 DEF Both

(* The window is open and drawn.                                           *)
LEMMA ShownResult ==
  ASSUME NEW w, NEW d, Ready(w, d), ResourceAssumption, ~w.window.allocated, NEW v,
         Opened(w, v, Range(Surface), Range(Surface)), FramesLocal(w, v),
         NEW o, NEW q, Handed(w, v, o, q), v.window.event_object_open = TRUE
  PROVE  Result(w, v, d)
  <1>1. /\ Shape(w) /\ Mapping(w) /\ Loaded(w) /\ SurfaceHeld(w) /\ WindowKept(w) /\ Finite(w)
        /\ Streams(w) /\ ThreadsHeld(w) /\ WindowsHeld(w, d) /\ d \in BOOLEAN
    BY ReadyParts DEF Ready
  <1>2. /\ Keeping(w, v, {"pages", "tables", "frames", "ok", "heap", "ui", "window", "windows", "handles"})
        /\ DOMAIN v.pages = DOMAIN w.pages \cup Range(Surface)
        /\ \A a \in DOMAIN w.pages : v.pages[a] = w.pages[a]
        /\ \A a \in Range(Surface) : v.pages[a].kind = "SURFACE"
        /\ v.tables = w.tables \cup Range(Surface)
        /\ Mapping(v)
        /\ v.heap = w.heap \cup {<<w.slot, "pixels">>}
        /\ v.ui \subseteq w.ui \cup {w.slot} /\ w.ui \subseteq v.ui
        /\ v.windows = w.windows + 1
    BY DEF Opened
  <1>3. /\ DOMAIN v.window = WindowFields
        /\ v.window.allocated \in BOOLEAN /\ v.window.allocated
        /\ v.window.window_object_open \in BOOLEAN /\ v.window.window_object_open
        /\ v.window.event_object_open \in BOOLEAN /\ v.window.event_object_open
        /\ v.window.generation = w.windows + 1 /\ v.window.surface = Range(Surface)
    BY DEF Opened, WindowRecord
  <1>4. /\ Shape(v) /\ v.slot = w.slot /\ v.threads = w.threads /\ v.files = w.files
        /\ v.directories = w.directories /\ v.sockets = w.sockets
    BY <1>2, FieldNames DEF Keeping
  <1>5. w.windows \in Nat /\ ~w.window.window_object_open
    BY NewIds
  <1>6. /\ Held(v, "WINDOW") = Held(w, "WINDOW") \cup {w.windows + 1}
        /\ Held(v, "EVENT_QUEUE") = {w.windows + 1}
        /\ Held(v, "FILE") = Held(w, "FILE") /\ Held(v, "DIRECTORY") = Held(w, "DIRECTORY")
        /\ Held(v, "SOCKET") = Held(w, "SOCKET") /\ Held(v, "THREAD") = Held(w, "THREAD")
        /\ Objects(v)
    BY DEF Handed
  <1>7. \A a \in Range(Surface) : a[1] = "surface"
    BY SurfacePart
  <1>8. Loaded(v)
    <2>1. \A a \in DOMAIN v.pages : v.pages[a].kind = "ANON" => a[1] = "anon" /\ a # <<"anon", 2>>
      BY <1>1, <1>2 DEF Loaded
    <2>2. \A a \in DOMAIN v.pages : a[1] = "stack" => a[2] \in 0..(v.threads - 1)
      BY <1>1, <1>2, <1>4, <1>7 DEF Loaded
    <2>3. /\ v.threads \in Nat \ {0} /\ Range(LoadOrder) \subseteq v.tables
          /\ \A t \in 0..(v.threads - 1) : Range(Stack(t)) \subseteq v.tables
      BY <1>1, <1>2, <1>4 DEF Loaded
    <2> QED
      BY <2>1, <2>2, <2>3 DEF Loaded
  <1>9. SurfaceHeld(v)
    <2>1. \A a \in DOMAIN v.pages :
            a[1] = "surface" => v.window.window_object_open /\ a \in Range(Surface) /\ v.pages[a].kind = "SURFACE"
      BY <1>1, <1>2, <1>3, <1>5 DEF SurfaceHeld
    <2> QED
      BY <1>2, <1>3, <2>1 DEF SurfaceHeld
  <1>10. WindowKept(v)
    <2>1. {v.window.window_object_open, v.window.event_object_open} \subseteq BOOLEAN
      BY <1>3
    <2>2. v.window.allocated = (v.window.window_object_open \/ v.window.event_object_open)
      BY <1>3
    <2>3. v.windows \in Nat /\ v.window.generation \in 1..v.windows
      BY <1>2, <1>3, <1>5
    <2>4. <<v.slot, "pixels">> \in v.heap
      BY <1>2, <1>4
    <2> QED
      BY <1>3, <2>1, <2>2, <2>3, <2>4 DEF WindowKept
  <1>11. Streams(v)
    BY <1>1, <1>4, <1>6 DEF Streams, Owned
  <1>12. ThreadsHeld(v)
    BY <1>1, <1>4, <1>6 DEF ThreadsHeld
  <1>13. WindowsHeld(v, d)
    <2> PICK n \in Nat : n = w.windows
      BY <1>5
    <2>1. Held(v, "WINDOW") \subseteq 1..v.windows
      <3>1. Held(w, "WINDOW") \subseteq 1..n
        BY <1>1 DEF WindowsHeld
      <3>2. \A i \in 1..n : i \in 1..(n + 1)
        OBVIOUS
      <3>3. n + 1 \in 1..(n + 1)
        OBVIOUS
      <3> QED
        BY <1>2, <1>6, <3>1, <3>2, <3>3
    <2>2. Held(v, "EVENT_QUEUE") = {v.window.generation} /\ v.window.generation \in Held(v, "WINDOW")
      BY <1>3, <1>6
    <2>3. d => Held(v, "WINDOW") = {v.window.generation}
      <3>1. d => Held(w, "WINDOW") = {}
        BY <1>1, <1>5 DEF WindowsHeld
      <3> QED
        BY <1>3, <1>6, <3>1
    <2> QED
      BY <1>3, <2>1, <2>2, <2>3 DEF WindowsHeld
  <1>14. Books(v, d)
    BY <1>2, <1>6, <1>8, <1>9, <1>10, <1>11, <1>12, <1>13 DEF Books
  <1>15. HeapLocal(w, v)
    <2>1. Others(v.heap, w.slot) = Others(w.heap, w.slot)
      BY <1>2 DEF Others
    <2> QED
      BY <1>2, <2>1 DEF HeapLocal
  <1>16. SocketsLocal(w, v) /\ FilesLocal(w, v) /\ UiLocal(w, v)
    <2>1. UiLocal(w, v)
      BY <1>2 DEF UiLocal
    <2> QED
      BY <1>1, <1>4, <1>6, <2>1 DEF SocketsLocal, FilesLocal, Finite
  <1> PICK c : c = {"pages", "tables", "frames", "ok", "heap", "ui", "window", "windows", "handles"}
    OBVIOUS
  <1>17. Keeping(w, v, c) /\ c \cap {"slot", "space", "aliases", "narrowed", "draws"} = {}
    BY <1>2
  <1> QED
    BY <1>14, <1>15, <1>16, <1>17, OrdinaryResult

LEMMA UnqueuedGives ==
  ASSUME NEW w, Shape(w), DOMAIN w.window = WindowFields, NEW v, v = Unqueued(w)
  PROVE  /\ Keeping(w, v, {"window"}) /\ DOMAIN v.window = WindowFields
         /\ v.window.event_object_open = FALSE
         /\ v.window.allocated = w.window.allocated
         /\ v.window.window_object_open = w.window.window_object_open
         /\ v.window.surface = w.window.surface /\ v.window.generation = w.window.generation
  <1> PICK n : n = [w.window EXCEPT !.event_object_open = FALSE]
    OBVIOUS
  <1>1. /\ DOMAIN n = WindowFields /\ n.event_object_open = FALSE
        /\ n.allocated = w.window.allocated /\ n.window_object_open = w.window.window_object_open
        /\ n.surface = w.window.surface /\ n.generation = w.window.generation
    BY DEF WindowFields
  <1>2. v = [w EXCEPT !.window = n]
    BY DEF Unqueued, Shape, Fields, ProcessFields
  <1>3. Keeping(w, v, {"window"}) /\ v.window = n
    BY <1>2, FieldNames DEF Keeping, Shape
  <1> QED
    BY <1>1, <1>3

(* The window has its own handle and none for its events.                  *)
Handled(w, y, A, done, o) ==
  Opened(w, y, A, done) /\ NewHandle(w, y, o) /\ y.window.event_object_open = FALSE

(* Both handles are closed again, first that of the queue of events.       *)
LEMMA QueueUndone ==
  ASSUME NEW w, NEW d, Ready(w, d), ~w.window.allocated, NEW x, NEW A, NEW done,
         Opened(w, x, A, done), NEW o, NEW q, Handed(w, x, o, q), x.ok,
         NEW draws, NEW y, y = native_handle_close(x, q, draws)
  PROVE  Handled(w, y, A, done, o)
  <1>1. Shape(x) /\ x.ok \in BOOLEAN /\ x.window.generation = w.windows + 1
    BY DEF Opened, Keeping
  <1>2. /\ DOMAIN x.window = WindowFields
        /\ x.window.allocated \in BOOLEAN /\ x.window.allocated
        /\ x.window.window_object_open \in BOOLEAN /\ x.window.window_object_open
    BY DEF Opened, WindowRecord
  <1>3. /\ Objects(x) /\ o \in DOMAIN x.handles /\ q \in DOMAIN x.handles /\ o # q
        /\ o.type = "WINDOW" /\ q.type = "EVENT_QUEUE" /\ o.id = w.windows + 1 /\ q.id = w.windows + 1
        /\ x.handles[o] = 1 /\ x.handles[q] = 1
        /\ Held(x, "WINDOW") = Held(w, "WINDOW") \cup {w.windows + 1}
        /\ Held(x, "EVENT_QUEUE") = {w.windows + 1}
        /\ \A u : u \notin {"WINDOW", "EVENT_QUEUE"} => Held(x, u) = Held(w, u)
    BY DEF Handed
  <1> PICK e : e = Unqueued(x)
    OBVIOUS
  <1>4. /\ Keeping(x, e, {"window"}) /\ DOMAIN e.window = WindowFields
        /\ e.window.event_object_open = FALSE
        /\ e.window.allocated = x.window.allocated
        /\ e.window.window_object_open = x.window.window_object_open
        /\ e.window.surface = x.window.surface /\ e.window.generation = x.window.generation
    BY ONLY <1>1, <1>2, e = Unqueued(x), UnqueuedGives
  <1>5. Shape(e) /\ e.handles = x.handles /\ e.ok = x.ok /\ e.ui = x.ui
    BY <1>4, FieldNames DEF Keeping
  <1>6. e.window.window_object_open
    BY <1>2, <1>4
  <1>7. window_finalize_if_unreferenced(e) = e
    BY <1>6 DEF window_finalize_if_unreferenced
  <1>8. close_resource(x, q, draws) = e
    <2>1. ~(~x.window.allocated \/ x.window.generation # q.id)
      BY <1>1, <1>2, <1>3
    <2> QED
      BY <1>3, <1>7, <2>1 DEF close_resource, Unqueued
  <1>9. y = Forgotten(e, q)
    <2>1. ~(x.handles[q] > 1)
      BY <1>3
    <2>2. e.ok
      BY <1>5
    <2> QED
      BY <1>8, <2>1, <2>2 DEF native_handle_close, Forgotten
  <1>10. Keeping(e, y, {"handles"}) /\ y.handles = Without(x.handles, {q})
    <2>3. y = [e EXCEPT !.handles = Without(@, {q})]
      BY <1>9 DEF Forgotten
    <2>4. Shape(e)
      BY <1>5
    <2>1. Keeping(e, y, {"handles"}) /\ y.handles = Without(e.handles, {q})
      BY ONLY <2>3, <2>4, ForgetKeeps
    <2> QED
      BY <1>5, <2>1
  <1>11. y.window = e.window /\ y.ui = x.ui /\ y.ok = x.ok
    BY <1>5, <1>10, FieldNames DEF Keeping
  <1>12. Keeping(x, y, {"handles", "ok", "ui", "window"})
    BY <1>4, <1>10 DEF Keeping
  <1>13. /\ WindowRecord(y.window) /\ y.window.allocated /\ y.window.window_object_open
         /\ y.window.generation = x.window.generation /\ y.window.surface = x.window.surface
         /\ y.window.event_object_open = FALSE
    BY <1>2, <1>4, <1>11 DEF WindowRecord
  <1>14. Opened(w, y, A, done)
    <2>1. y.ok \in BOOLEAN
      BY <1>1, <1>11
    <2>2. Opened(w, x, A, done)
      OBVIOUS
    <2>3. y.ui = x.ui \/ y.ui = x.ui \cup {w.slot}
      BY <1>11
    <2> QED
      BY ONLY <1>12, <1>13, <2>1, <2>2, <2>3, OpenedMore, Zenon
  <1> PICK t : t = "EVENT_QUEUE"
    OBVIOUS
  <1>15. Forgets(x, y, t, q.id)
    BY <1>3, <1>10, ForgetGives
  <1>16. /\ Objects(y) /\ Held(y, "EVENT_QUEUE") = {}
         /\ \A u : u # "EVENT_QUEUE" => Held(y, u) = Held(x, u)
    BY <1>3, <1>15 DEF Forgets
  <1>17. o \in DOMAIN y.handles /\ y.handles[o] = 1
    BY <1>3, <1>10 DEF Without
  <1>18. NewHandle(w, y, o)
    <2>1. Held(w, "EVENT_QUEUE") = {}
      BY NewIds
    <2> QED
      BY <1>3, <1>16, <1>17, <2>1 DEF NewHandle
  <1> QED
    BY <1>13, <1>14, <1>18 DEF Handled

LEMMA HandedSame ==
  ASSUME NEW w, NEW x, NEW y, NEW o, NEW q, Handed(w, x, o, q), y.handles = x.handles
  PROVE  Handed(w, y, o, q)
  <1>1. Objects(y)
    BY DEF Handed, Objects
  <1>2. \A u : Held(y, u) = Held(x, u)
    BY DEF Held
  <1> QED
    BY <1>1, <1>2 DEF Handed

LEMMA NewHandleSame ==
  ASSUME NEW w, NEW x, NEW y, NEW o, NewHandle(w, x, o), y.handles = x.handles
  PROVE  NewHandle(w, y, o)
  <1>1. Objects(y)
    BY DEF NewHandle, Objects
  <1>2. \A u : Held(y, u) = Held(x, u)
    BY DEF Held
  <1> QED
    BY <1>1, <1>2 DEF NewHandle

LEMMA BothUndone ==
  ASSUME NEW w, NEW d, Ready(w, d), ResourceAssumption, ~w.window.allocated, NEW z, NEW done,
         Opened(w, z, Range(Surface), done), NEW o, NEW q, Handed(w, z, o, q),
         NEW draws \in BOOLEAN, NEW v, v = Undo(Undo(z, q, draws), o, draws)
  PROVE  Result(w, v, d)
  <1> PICK A : A = Range(Surface)
    OBVIOUS
  <1>1. Shape(z)
    BY DEF Opened, Keeping
  <1> PICK x : x = Then(z)
    OBVIOUS
  <1>2. Keeping(z, x, {"ok"}) /\ x.ok = TRUE
    BY <1>1, ThenGives
  <1>3. Keeping(z, x, {"handles", "ok"}) /\ x.ok \in BOOLEAN /\ x.ok
    BY <1>2, KeepingMore
  <1>4. Opened(w, x, A, done)
    BY <1>3, OpenedSame
  <1>5. x.handles = z.handles
    BY <1>2, FieldNames DEF Keeping
  <1>6. Handed(w, x, o, q)
    <2>1. Handed(w, z, o, q)
      OBVIOUS
    <2> QED
      BY ONLY <1>5, <2>1, HandedSame, Zenon
  <1> PICK y : y = native_handle_close(x, q, draws)
    OBVIOUS
  <1>7. Opened(w, y, A, done) /\ NewHandle(w, y, o) /\ y.window.event_object_open = FALSE
    <2>1. Ready(w, d) /\ ~w.window.allocated /\ y = native_handle_close(x, q, draws)
      OBVIOUS
    <2>2. x.ok
      BY <1>3
    <2>3. Handled(w, y, A, done, o)
      BY ONLY <1>4, <1>6, <2>1, <2>2, QueueUndone
    <2> QED
      BY <2>3 DEF Handled
  <1> PICK f : f = Then(y)
    OBVIOUS
  <1>8. Shape(y)
    BY <1>7 DEF Opened, Keeping
  <1>9. Keeping(y, f, {"ok"}) /\ f.ok = TRUE
    BY <1>8, ThenGives
  <1>10. Keeping(y, f, {"handles", "ok"}) /\ f.ok \in BOOLEAN
    BY <1>9, KeepingMore
  <1>11. Opened(w, f, A, done) /\ f.window = y.window
    BY <1>7, <1>10, OpenedSame
  <1>12. f.handles = y.handles
    BY <1>9, FieldNames DEF Keeping
  <1>13. NewHandle(w, f, o)
    <2>1. NewHandle(w, y, o)
      BY <1>7
    <2> QED
      BY ONLY <1>12, <2>1, NewHandleSame, Zenon
  <1>14. v = Undo(f, o, draws)
    BY DEF Undo
  <1>15. ~f.window.event_object_open
    BY <1>7, <1>11
  <1> QED
    BY <1>11, <1>13, <1>14, <1>15, FirstUndone

LEMMA OpenWindowResult ==
  ASSUME NEW w, NEW d, Ready(w, d), ResourceAssumption, ~w.window.allocated, NEW g,
         Opened(w, g, Range(Surface), Range(Surface)), FramesLocal(w, g), g.handles = w.handles,
         ~g.window.event_object_open, g.ok, NEW screen, NEW draws \in BOOLEAN,
         NEW v, v = OpenWindow(g, screen, draws)
  PROVE  Result(w, v, d)
  <1> PICK o : o = Object("WINDOW", g.window.generation)
    OBVIOUS
  <1> PICK q : q = Object("EVENT_QUEUE", g.window.generation)
    OBVIOUS
  <1> PICK f : f = native_handle_install(g, o)
    OBVIOUS
  <1> PICK h : h = native_handle_install(f, q)
    OBVIOUS
  <1> PICK z : z = Queued(h)
    OBVIOUS
  <1> PICK u : u = IF screen = "refused" THEN z ELSE [z EXCEPT !.ui = @ \cup {g.slot}]
    OBVIOUS
  <1> PICK A : A = Range(Surface)
    OBVIOUS
  <1>1. v = IF Full(g) THEN Then(window_release_surface(g, draws))
            ELSE IF Full(f) THEN Undo(f, o, draws)
            ELSE IF screen = "drawn" THEN u ELSE Undo(Undo(u, q, draws), o, draws)
    BY DEF OpenWindow, Queued
  <1>2. /\ Opened(w, f, A, A) /\ NewHandle(w, f, o) /\ Keeping(g, f, {"handles"})
        /\ Shape(f) /\ f.window = g.window /\ f.ok /\ f.ok \in BOOLEAN /\ f.ui = g.ui
    BY FirstHandle
  <1>3. ~f.window.event_object_open
    BY <1>2
  <1>4. u = z \/ u = Onscreen(z)
    <2>1. f.slot = g.slot
      BY <1>2, FieldNames DEF Keeping
    <2>2. z.slot = g.slot
      <3>1. h.slot = f.slot /\ Shape(h)
        BY <1>2, FieldNames DEF native_handle_install, Shape
      <3>2. z.slot = h.slot
        BY <3>1 DEF Queued
      <3> QED
        BY <2>1, <3>1, <3>2
    <2> QED
      BY <2>2 DEF Onscreen
  <1>5. /\ Opened(w, u, A, A) /\ Handed(w, u, o, q) /\ u.window.event_object_open = TRUE
        /\ Keeping(f, u, {"handles", "window", "ui"})
    <2>1. /\ Ready(w, d) /\ ~w.window.allocated /\ h = native_handle_install(f, q) /\ z = Queued(h)
          /\ q = Object("EVENT_QUEUE", f.window.generation)
      BY <1>2
    <2>2. f.ok
      BY <1>2
    <2>3. Opened(w, f, A, A) /\ NewHandle(w, f, o)
      BY <1>2
    <2>4. Both(w, f, u, A, A, o, q)
      BY ONLY <1>4, <2>1, <2>2, <2>3, SecondHandle
    <2> QED
      BY <2>4 DEF Both
  <1>6. u.frames = g.frames
    <2>1. u.frames = f.frames
      BY <1>5, FieldNames DEF Keeping
    <2>2. f.frames = g.frames
      BY <1>2, FieldNames DEF Keeping
    <2> QED
      BY <2>1, <2>2
  <1>7. FramesLocal(w, u)
    BY <1>6 DEF FramesLocal
  <1>8. CASE Full(g)
    BY <1>1, <1>8, SurfaceBackResult
  <1>9. CASE ~Full(g) /\ Full(f)
    BY <1>1, <1>2, <1>3, <1>9, FirstUndone
  <1>10. CASE ~Full(g) /\ ~Full(f) /\ screen = "drawn"
    <2>1. v = u
      BY <1>1, <1>10
    <2> QED
      BY <1>5, <1>7, <2>1, ShownResult
  <1>11. CASE ~Full(g) /\ ~Full(f) /\ screen # "drawn"
    BY <1>1, <1>5, <1>11, BothUndone
  <1> QED
    BY <1>8, <1>9, <1>10, <1>11

LEMMA WindowCreateResult ==
  ASSUME NEW w, NEW d, Ready(w, d), ResourceAssumption, ~w.window.allocated,
         NEW b, Keeping(w, b, {"windows", "heap", "window"}),
         b.windows = w.windows + 1, b.heap = w.heap \cup {<<w.slot, "pixels">>},
         b.window = NewWindow(w.windows + 1),
         NEW g \in Grown(b, Surface, "SURFACE"), NEW screen, NEW draws \in BOOLEAN, NEW v,
         v = IF ~g.ok THEN Then(window_release_surface(g, draws)) ELSE OpenWindow(g, screen, draws)
  PROVE  Result(w, v, d)
  <1>1. /\ FramesLocal(w, g) /\ g.handles = w.handles /\ g.ui = w.ui /\ g.ok \in BOOLEAN
        /\ g.window = b.window
        /\ \E A, done : Opened(w, g, A, done) /\ (g.ok => A = Range(Surface) /\ done = Range(Surface))
    BY GrownOpened
  <1>2. ~g.window.event_object_open
    BY <1>1 DEF NewWindow
  <1> PICK A, done : Opened(w, g, A, done) /\ (g.ok => A = Range(Surface) /\ done = Range(Surface))
    BY <1>1
  <1>3. CASE ~g.ok
    <2>1. v = Then(window_release_surface(g, draws))
      BY <1>3
    <2> QED
      BY <1>1, <1>2, <2>1, SurfaceBackResult
  <1>4. CASE g.ok
    <2>1. v = OpenWindow(g, screen, draws)
      BY <1>4
    <2> QED
      BY <1>1, <1>2, <1>4, <2>1, OpenWindowResult
  <1> QED
    BY <1>3, <1>4

-----------------------------------------------------------------------------
(* The system calls.                                                       *)

LEMMA ReadyWorld ==
  ASSUME IInv, NEW s \in Live
  PROVE  /\ s \in Slot /\ Ready(World(s), drawn) /\ World(s).slot = s
         /\ \A f \in ProcessFields : World(s)[f] = process[s][f]
         /\ \A f \in MachineFields : World(s)[f] = machine[f]
  <1>1. s \in Slot
    BY LiveSlots DEF IInv
  <1>2. /\ Shape(World(s))
        /\ \A f \in ProcessFields : World(s)[f] = process[s][f]
        /\ \A f \in MachineFields : World(s)[f] = machine[f]
        /\ World(s).slot = s
        /\ World(s).ok \in BOOLEAN /\ World(s).ok
        /\ World(s).draws \in BOOLEAN /\ World(s).draws
    BY <1>1, WorldFields DEF IInv
  <1>3. Books(World(s), drawn)
    BY DEF IInv, LiveKept
  <1>4. Finite(World(s))
    <2>1. World(s).frames = machine.frames /\ World(s).files = machine.files /\ World(s).sockets = machine.sockets
      BY <1>2, NamesOfFields
    <2> QED
      BY <2>1 DEF IInv, Finite
  <1>5. drawn \in BOOLEAN
    BY DEF IInv, Shapes
  <1> QED
    BY <1>1, <1>2, <1>3, <1>4, <1>5 DEF Ready

LEMMA CallStep ==
  ASSUME IInv, NEW s \in Live, NEW v, Result(World(s), v, drawn), Done(v)
  PROVE  IInv'
  <1> PICK w : w = World(s)
    OBVIOUS
  <1>1. Local(w, v) /\ Books(v, drawn /\ v.draws)
    BY DEF Result
  <1> QED
    BY <1>1, CallKeeps

LEMMA TerminateStep ==
  ASSUME IInv, NEW s, terminate_process(s)
  PROVE  IInv'
  <1>1. s \in Live
    BY DEF terminate_process, Runs, Live
  <1> PICK v : v = [World(s) EXCEPT !.exiting = TRUE]
    OBVIOUS
  <1>2. Done(v)
    BY DEF terminate_process
  <1>3. Result(World(s), v, drawn)
    BY <1>1, ReadyWorld, TerminateResult
  <1> QED
    BY <1>1, <1>2, <1>3, CallStep

LEMMA MapStep ==
  ASSUME IInv, ResourceAssumption, NEW s, NEW base \in 1..AnonPages, NEW count \in 1..2,
         syscall_memory_map(s, base, count)
  PROVE  IInv'
  <1>1. s \in Live
    BY DEF syscall_memory_map, Calls, Runs, Live
  <1> PICK w : w = World(s)
    OBVIOUS
  <1>2. Ready(w, drawn)
    BY <1>1, ReadyWorld
  <1>3. base \in Nat /\ count \in Nat
    BY DEF ResourceAssumption
  <1>4. \A i \in base..(base + count - 1) : <<"anon", i>> \notin Recorded(w)
    <2> PICK before \in BOOLEAN, after \in BOOLEAN : anonymous_span_free(w, base, count, before, after)
      BY DEF syscall_memory_map
    <2> PICK first : first = IF before THEN base - 1 ELSE base
      OBVIOUS
    <2> PICK last : last = IF after THEN base + count ELSE base + count - 1
      OBVIOUS
    <2>1. \A i \in first..last : <<"anon", i>> \notin Recorded(w)
      BY DEF anonymous_span_free
    <2>2. \A i \in base..(base + count - 1) : i \in first..last
      <3>1. first \in Int /\ last \in Int /\ first <= base /\ base + count - 1 <= last
        BY <1>3
      <3> QED
        BY <1>3, <3>1
    <2> QED
      BY <2>1, <2>2
  <1> PICK g \in Grown(w, Anon(base, count), "ANON") :
        Done(IF g.ok THEN g ELSE RolledBack(g, Anon(base, count)))
    BY DEF syscall_memory_map
  <1> PICK v : v = IF g.ok THEN g ELSE RolledBack(g, Anon(base, count))
    OBVIOUS
  <1>5. Result(w, v, drawn)
    BY <1>2, <1>3, <1>4, MapResult
  <1> QED
    BY <1>1, <1>5, CallStep

LEMMA UnmapStep ==
  ASSUME IInv, ResourceAssumption, NEW s, NEW base, NEW count,
         syscall_memory_unmap(s, base, count)
  PROVE  IInv'
  <1>1. s \in Live
    BY DEF syscall_memory_unmap, Calls, Runs, Live
  <1> PICK w : w = World(s)
    OBVIOUS
  <1>2. Ready(w, drawn)
    BY <1>1, ReadyWorld
  <1> PICK S : S = Range(Anon(base, count))
    OBVIOUS
  <1> PICK r : r = Returned(w, S)
    OBVIOUS
  <1> PICK v : v = [r EXCEPT !.exiting = ~r.ok]
    OBVIOUS
  <1>3. S \in SUBSET DOMAIN w.pages /\ \A a \in S : w.pages[a].kind = "ANON"
    BY DEF syscall_memory_unmap, MappedOf, Recorded
  <1>4. Done(v)
    BY DEF syscall_memory_unmap
  <1>5. Result(w, v, drawn)
    BY <1>2, <1>3, UnmapResult
  <1> QED
    BY <1>1, <1>4, <1>5, CallStep

LEMMA FileStep ==
  ASSUME IInv, NEW s, syscall_file_open(s)
  PROVE  IInv'
  <1>1. s \in Live
    BY DEF syscall_file_open, Calls, Runs, Live
  <1> PICK w : w = World(s)
    OBVIOUS
  <1>2. Ready(w, drawn)
    BY <1>1, ReadyWorld
  <1> PICK i : i = FirstFree(w.files)
    OBVIOUS
  <1> PICK v : v = FileOpened(w, i)
    OBVIOUS
  <1>3. i \notin w.files
    BY <1>2, FirstFreeIsFree DEF Ready, Finite
  <1>4. Done(v)
    BY DEF syscall_file_open, FileOpened
  <1>5. Result(w, v, drawn)
    BY <1>2, <1>3, FileOpenResult
  <1> QED
    BY <1>1, <1>4, <1>5, CallStep

LEMMA DirectoryStep ==
  ASSUME IInv, NEW s, syscall_directory_open(s)
  PROVE  IInv'
  <1>1. s \in Live
    BY DEF syscall_directory_open, Calls, Runs, Live
  <1> PICK w : w = World(s)
    OBVIOUS
  <1>2. Ready(w, drawn)
    BY <1>1, ReadyWorld
  <1> PICK i : i = FirstFree(w.directories)
    OBVIOUS
  <1> PICK v : v = DirectoryOpened(w, i)
    OBVIOUS
  <1>3. i \notin w.directories
    BY <1>2, FirstFreeIsFree, ReadyParts DEF Streams
  <1>4. Done(v)
    BY DEF syscall_directory_open, DirectoryOpened
  <1>5. Result(w, v, drawn)
    BY <1>2, <1>3, DirectoryOpenResult
  <1> QED
    BY <1>1, <1>4, <1>5, CallStep

LEMMA NetworkStep ==
  ASSUME IInv, NEW s, syscall_network_open(s)
  PROVE  IInv'
  <1>1. s \in Live
    BY DEF syscall_network_open, Calls, Runs, Live
  <1> PICK w : w = World(s)
    OBVIOUS
  <1>2. Ready(w, drawn) /\ w.slot = s
    BY <1>1, ReadyWorld
  <1> PICK T : T = {x[2] : x \in w.sockets}
    OBVIOUS
  <1> PICK i : i = FirstFree(T)
    OBVIOUS
  <1> PICK v : v = SocketOpened(w, i)
    OBVIOUS
  <1>3. <<w.slot, i>> \notin w.sockets
    <2>1. IsFiniteSet(T)
      <3> PICK f : f = [x \in w.sockets |-> x[2]]
        OBVIOUS
      <3>1. f \in Surjection(w.sockets, T)
        BY DEF Surjection
      <3>2. IsFiniteSet(w.sockets)
        BY <1>2 DEF Ready, Finite
      <3> QED
        BY <3>1, <3>2, FS_Surjection
    <2>2. i \notin T
      BY <2>1, FirstFreeIsFree
    <2>3. ASSUME <<w.slot, i>> \in w.sockets PROVE i \in T
      <3>1. <<w.slot, i>>[2] = i
        OBVIOUS
      <3> QED
        BY <2>3, <3>1
    <2> QED
      BY <2>2, <2>3
  <1>4. Done(v)
    BY <1>2 DEF syscall_network_open, SocketOpened
  <1>5. Result(w, v, drawn)
    BY <1>2, <1>3, SocketOpenResult
  <1> QED
    BY <1>1, <1>4, <1>5, CallStep

LEMMA TimerStep ==
  ASSUME IInv, NEW s, syscall_timer_create(s)
  PROVE  IInv'
  <1>1. s \in Live
    BY DEF syscall_timer_create, Calls, Runs, Live
  <1> PICK w : w = World(s)
    OBVIOUS
  <1>2. Ready(w, drawn)
    BY <1>1, ReadyWorld
  <1> PICK i : i = FirstFree({o.id : o \in {x \in DOMAIN w.handles : x.type = "TIMER"}})
    OBVIOUS
  <1> PICK v : v = native_handle_install(w, Object("TIMER", i))
    OBVIOUS
  <1>3. Done(v)
    BY DEF syscall_timer_create
  <1>4. Result(w, v, drawn)
    BY <1>2, TimerResult
  <1> QED
    BY <1>1, <1>3, <1>4, CallStep

LEMMA ThreadStep ==
  ASSUME IInv, ResourceAssumption, NEW s, syscall_thread_create(s)
  PROVE  IInv'
  <1>1. s \in Live
    BY DEF syscall_thread_create, Calls, Runs, Live
  <1> PICK w : w = World(s)
    OBVIOUS
  <1>2. Ready(w, drawn) /\ w.threads = process[s].threads
    BY <1>1, ReadyWorld, NamesOfFields
  <1> PICK st : st = Stack(w.threads)
    OBVIOUS
  <1>3. \E g \in Grown(w, st, "STACK"), fpu \in BOOLEAN :
          Done(IF ~g.ok THEN RolledBack(g, st)
               ELSE IF ~fpu \/ Full(g)
               THEN LET back == release_runtime_pages(g, Range(st), "STACK")
                    IN [back EXCEPT !.exiting = fpu /\ ~back.ok]
               ELSE [native_handle_install(g, Object("THREAD", g.threads)) EXCEPT !.threads = @ + 1])
    BY <1>2 DEF syscall_thread_create
  <1> PICK g \in Grown(w, st, "STACK"), fpu \in BOOLEAN :
        Done(IF ~g.ok THEN RolledBack(g, st)
             ELSE IF ~fpu \/ Full(g)
             THEN LET back == release_runtime_pages(g, Range(st), "STACK")
                  IN [back EXCEPT !.exiting = fpu /\ ~back.ok]
             ELSE [native_handle_install(g, Object("THREAD", g.threads)) EXCEPT !.threads = @ + 1])
    BY <1>3
  <1> PICK back : back = release_runtime_pages(g, Range(st), "STACK")
    OBVIOUS
  <1> PICK v : v = IF ~g.ok THEN RolledBack(g, st)
                   ELSE IF ~fpu \/ Full(g) THEN [back EXCEPT !.exiting = fpu /\ ~back.ok]
                   ELSE [native_handle_install(g, Object("THREAD", g.threads)) EXCEPT !.threads = @ + 1]
    OBVIOUS
  <1>4. Done(v)
    OBVIOUS
  <1>5. Result(w, v, drawn)
    BY <1>2, ThreadResult
  <1> QED
    BY <1>1, <1>4, <1>5, CallStep

LEMMA WindowStep ==
  ASSUME IInv, ResourceAssumption, NEW s, syscall_window_create(s)
  PROVE  IInv'
  <1>1. s \in Live
    BY DEF syscall_window_create, Calls, Runs, Live
  <1> PICK w : w = World(s)
    OBVIOUS
  <1>2. Ready(w, drawn) /\ w.window = process[s].window /\ w.slot = s /\ Shape(w)
    BY <1>1, ReadyWorld, NamesOfFields DEF Ready
  <1>3. ~w.window.allocated
    BY <1>2 DEF syscall_window_create
  <1> PICK u : u = [w EXCEPT !.windows = @ + 1]
    OBVIOUS
  <1>4. Keeping(w, u, {"windows"}) /\ u.windows = w.windows + 1
    BY <1>2, FieldNames DEF Keeping, Shape
  <1>5. Shape(u) /\ u.heap = w.heap
    BY <1>4, FieldNames DEF Keeping
  <1> PICK b : b = [u EXCEPT !.heap = @ \cup {<<s, "pixels">>},
                             !.window = [allocated |-> TRUE, window_object_open |-> TRUE,
                                         event_object_open |-> FALSE, generation |-> u.windows,
                                         surface |-> Range(Surface)]]
    OBVIOUS
  <1>6. /\ Keeping(u, b, {"heap", "window"}) /\ b.heap = u.heap \cup {<<s, "pixels">>}
        /\ b.window = NewWindow(u.windows)
    BY <1>5, FieldNames DEF Keeping, Shape, NewWindow
  <1>7. b.windows = u.windows
    BY <1>6, FieldNames DEF Keeping
  <1>8. Keeping(w, b, {"windows", "heap", "window"})
    BY <1>4, <1>6 DEF Keeping
  <1>9. /\ b.windows = w.windows + 1 /\ b.heap = w.heap \cup {<<w.slot, "pixels">>}
        /\ b.window = NewWindow(w.windows + 1)
    BY <1>2, <1>4, <1>5, <1>6, <1>7
  <1>10. \/ Done(u)
         \/ \E g \in Grown(b, Surface, "SURFACE"),
               screen \in {"drawn", "undrawn", "refused"}, draws \in BOOLEAN :
              Done(IF ~g.ok THEN Then(window_release_surface(g, draws)) ELSE OpenWindow(g, screen, draws))
    BY DEF syscall_window_create
  <1>11. CASE Done(u)
    <2>1. Result(w, u, drawn)
      BY <1>2, <1>3, UncountedResult
    <2> QED
      BY <1>1, <1>11, <2>1, CallStep
  <1>12. ASSUME NEW g \in Grown(b, Surface, "SURFACE"), NEW screen, NEW draws \in BOOLEAN,
                Done(IF ~g.ok THEN Then(window_release_surface(g, draws)) ELSE OpenWindow(g, screen, draws))
         PROVE  IInv'
    <2> PICK v : v = IF ~g.ok THEN Then(window_release_surface(g, draws)) ELSE OpenWindow(g, screen, draws)
      OBVIOUS
    <2> HIDE DEF NewWindow
    <2>1. Result(w, v, drawn)
      BY <1>2, <1>3, <1>8, <1>9, WindowCreateResult
    <2> QED
      BY <1>1, <1>12, <2>1, CallStep
  <1> QED
    BY <1>10, <1>11, <1>12

LEMMA DuplicateStep ==
  ASSUME IInv, NEW s, NEW o, syscall_handle_duplicate(s, o)
  PROVE  IInv'
  <1>1. s \in Live
    BY DEF syscall_handle_duplicate, Calls, Runs, Live
  <1> PICK w : w = World(s)
    OBVIOUS
  <1>2. Ready(w, drawn) /\ w.handles = process[s].handles
    BY <1>1, ReadyWorld, NamesOfFields
  <1>3. o \in DOMAIN w.handles
    BY <1>2 DEF syscall_handle_duplicate
  <1> PICK n : n = w.handles[o] + 1
    OBVIOUS
  <1>4. n \in Nat \ {0}
    <2>1. w.handles[o] \in Nat \ {0}
      BY <1>2, <1>3, ReadyParts DEF Objects
    <2> QED
      BY <2>1
  <1> PICK v : v = [w EXCEPT !.handles[o] = n]
    OBVIOUS
  <1>5. Done(v)
    BY DEF syscall_handle_duplicate
  <1>6. Result(w, v, drawn)
    BY <1>2, <1>3, <1>4, CountResult
  <1> QED
    BY <1>1, <1>5, <1>6, CallStep

LEMMA CloseStep ==
  ASSUME IInv, ResourceAssumption, NEW s, NEW o, NEW draws \in BOOLEAN, syscall_handle_close(s, o, draws)
  PROVE  IInv'
  <1>1. s \in Live
    BY DEF syscall_handle_close, Runs, Live
  <1> PICK w : w = World(s)
    OBVIOUS
  <1>2. Ready(w, drawn) /\ w.handles = process[s].handles
    BY <1>1, ReadyWorld, NamesOfFields
  <1>3. o \in DOMAIN w.handles
    BY <1>2 DEF syscall_handle_close
  <1> PICK v : v = native_handle_close(w, o, draws)
    OBVIOUS
  <1>4. Done(v)
    BY DEF syscall_handle_close
  <1>5. Result(w, v, drawn)
    BY <1>2, <1>3, CloseResult
  <1> QED
    BY <1>1, <1>4, <1>5, CallStep

LEMMA CallsKeep ==
  ASSUME IInv, ResourceAssumption, NEW s \in Slot, SystemCall(s)
  PROVE  IInv'
  <1>1. CASE terminate_process(s)
    BY <1>1, TerminateStep
  <1>2. ASSUME NEW base \in 1..AnonPages, NEW count \in 1..2, syscall_memory_map(s, base, count)
        PROVE  IInv'
    BY <1>2, MapStep
  <1>3. ASSUME NEW base \in 1..AnonPages, NEW count \in 1..2, syscall_memory_unmap(s, base, count)
        PROVE  IInv'
    BY <1>3, UnmapStep
  <1>4. CASE syscall_file_open(s)
    BY <1>4, FileStep
  <1>5. CASE syscall_directory_open(s)
    BY <1>5, DirectoryStep
  <1>6. CASE syscall_network_open(s)
    BY <1>6, NetworkStep
  <1>7. CASE syscall_timer_create(s)
    BY <1>7, TimerStep
  <1>8. CASE syscall_thread_create(s)
    BY <1>8, ThreadStep
  <1>9. CASE syscall_window_create(s)
    BY <1>9, WindowStep
  <1>10. ASSUME NEW o \in DOMAIN process[s].handles, syscall_handle_duplicate(s, o) PROVE IInv'
    BY <1>10, DuplicateStep
  <1>11. ASSUME NEW o \in DOMAIN process[s].handles, NEW draws \in BOOLEAN, syscall_handle_close(s, o, draws)
         PROVE  IInv'
    BY <1>11, CloseStep
  <1> QED
    BY <1>1, <1>2, <1>3, <1>4, <1>5, <1>6, <1>7, <1>8, <1>9, <1>10, <1>11 DEF SystemCall

-----------------------------------------------------------------------------
(* process_cleanup.                                                        *)

(* A world that can be cleaned up: that of a live process, or of one whose *)
(* load failed.                                                            *)
Closable(w, d) ==
  /\ Shape(w) /\ Mapping(w) /\ SurfaceHeld(w) /\ WindowKept(w)
  /\ Objects(w) /\ Streams(w) /\ WindowsHeld(w, d) /\ d \in BOOLEAN
  /\ w.ok \in BOOLEAN /\ w.ok /\ w.draws \in BOOLEAN /\ w.draws

(* The handles that are not of a window.                                   *)
StreamsShut(w) ==
  [w EXCEPT !.files = @ \ Held(w, "FILE"),
            !.directories = @ \ Held(w, "DIRECTORY"),
            !.sockets = @ \ Owned(w, Held(w, "SOCKET")),
            !.ok = /\ w.ok /\ Held(w, "FILE") \subseteq w.files
                   /\ Owned(w, Held(w, "SOCKET")) \subseteq w.sockets
                   /\ Held(w, "WINDOW") \cup Held(w, "EVENT_QUEUE") \subseteq {w.window.generation}]

LEMMA StreamsShutGives ==
  ASSUME NEW w, NEW d, Closable(w, d), NEW c, c = StreamsShut(w)
  PROVE  /\ Keeping(w, c, {"files", "directories", "sockets", "ok"})
         /\ c.files = w.files \ Held(w, "FILE") /\ c.sockets = Others(w.sockets, w.slot)
         /\ c.ok \in BOOLEAN /\ (d => c.ok)
  <1>1. /\ Shape(w) /\ Streams(w) /\ WindowsHeld(w, d) /\ w.ok \in BOOLEAN /\ w.ok
    BY DEF Closable
  <1> PICK b \in BOOLEAN : b <=> /\ w.ok /\ Held(w, "FILE") \subseteq w.files
                                 /\ Owned(w, Held(w, "SOCKET")) \subseteq w.sockets
                                 /\ Held(w, "WINDOW") \cup Held(w, "EVENT_QUEUE") \subseteq {w.window.generation}
    OBVIOUS
  <1>2. c = [w EXCEPT !.files = @ \ Held(w, "FILE"),
                      !.directories = @ \ Held(w, "DIRECTORY"),
                      !.sockets = @ \ Owned(w, Held(w, "SOCKET")),
                      !.ok = b]
    BY DEF StreamsShut
  <1>3. /\ Keeping(w, c, {"files", "directories", "sockets", "ok"})
        /\ c.files = w.files \ Held(w, "FILE") /\ c.sockets = w.sockets \ Owned(w, Held(w, "SOCKET"))
        /\ c.ok = b
    BY <1>1, <1>2, FieldNames DEF Keeping, Shape
  <1>4. c.sockets = Others(w.sockets, w.slot)
    <2>1. Owned(w, Held(w, "SOCKET")) = Own(w.sockets, w.slot)
      BY <1>1 DEF Streams
    <2> QED
      BY <1>3, <2>1 DEF Own, Others
  <1>5. ASSUME d PROVE b
    <2>1. Held(w, "FILE") \subseteq w.files
      BY <1>1 DEF Streams
    <2>2. Owned(w, Held(w, "SOCKET")) \subseteq w.sockets
      <3>1. Owned(w, Held(w, "SOCKET")) = Own(w.sockets, w.slot)
        BY <1>1 DEF Streams
      <3> QED
        BY <3>1 DEF Own
    <2>3. Held(w, "WINDOW") \subseteq {w.window.generation} /\ Held(w, "EVENT_QUEUE") \subseteq {w.window.generation}
      BY <1>1, <1>5 DEF WindowsHeld
    <2> QED
      BY <1>1, <2>1, <2>2, <2>3
  <1> QED
    BY <1>3, <1>4, <1>5

(* What is left of the window's pages, pixels and place on the screen.     *)
Dropped(c, x, own) ==
  /\ Keeping(c, x, {"pages", "tables", "frames", "ok", "draws", "heap", "ui", "window"})
  /\ own \subseteq DOMAIN c.pages
  /\ DOMAIN x.pages = DOMAIN c.pages \ own
  /\ x.frames = c.frames \ Owned(c, own) /\ Mapping(x)
  /\ x.heap = c.heap \ {<<c.slot, "pixels">>} /\ x.ui = c.ui \ {c.slot}
  /\ x.draws \in BOOLEAN /\ x.ok \in BOOLEAN
  /\ DOMAIN x.window = WindowFields
  /\ c.window.event_object_open =>
       x.window.allocated /\ x.window.generation = c.window.generation

LEMMA WindowShut ==
  ASSUME NEW w, NEW d, Closable(w, d), ResourceAssumption, NEW draws \in BOOLEAN, NEW c,
         Keeping(w, c, {"files", "directories", "sockets", "ok"}), c.ok \in BOOLEAN,
         NEW o, o = Object("WINDOW", w.window.generation),
         NEW x, x = IF o \in DOMAIN w.handles THEN close_resource(c, o, draws) ELSE c
  PROVE  \E own : Dropped(c, x, own) /\ (d /\ c.ok /\ x.draws => x.ok)
  <1>1. /\ Shape(w) /\ Mapping(w) /\ SurfaceHeld(w) /\ WindowKept(w) /\ Objects(w)
        /\ WindowsHeld(w, d) /\ d \in BOOLEAN /\ w.draws \in BOOLEAN /\ w.draws
    BY DEF Closable
  <1>2. /\ Shape(c) /\ c.slot = w.slot /\ c.draws = w.draws /\ c.window = w.window
        /\ c.pages = w.pages /\ c.tables = w.tables /\ c.frames = w.frames
        /\ c.heap = w.heap /\ c.ui = w.ui
    BY FieldNames DEF Keeping
  <1>3. Mapping(c)
    BY <1>1, <1>2 DEF Mapping, Owned
  <1>4. c.draws \in BOOLEAN /\ c.draws
    BY <1>1, <1>2
  <1>5. /\ DOMAIN w.window = WindowFields /\ w.window.allocated \in BOOLEAN
        /\ w.window.window_object_open \in BOOLEAN /\ w.window.event_object_open \in BOOLEAN
        /\ (w.window.allocated <=> w.window.window_object_open \/ w.window.event_object_open)
    BY <1>1 DEF WindowKept
  <1>6. WindowRecord(c.window)
    BY <1>2, <1>5 DEF WindowRecord
  <1>7. o.type = "WINDOW" /\ o.id = w.window.generation
    BY ObjectOf
  <1>8. o \in DOMAIN w.handles <=> w.window.generation \in Held(w, "WINDOW")
    <2>1. o \in DOMAIN w.handles => w.window.generation \in Held(w, "WINDOW")
      BY <1>7 DEF Held
    <2>2. ASSUME w.window.generation \in Held(w, "WINDOW") PROVE o \in DOMAIN w.handles
      <3> PICK p \in DOMAIN w.handles : p.type = "WINDOW" /\ p.id = w.window.generation
        BY <2>2 DEF Held
      <3>1. p = Object(p.type, p.id)
        BY <1>1 DEF Objects
      <3> QED
        BY <3>1
    <2> QED
      BY <2>1, <2>2
  <1>9. CASE o \in DOMAIN w.handles /\ w.window.allocated
    <2>1. x = window_release_surface(c, draws)
      BY <1>2, <1>7, <1>9 DEF close_resource
    <2>2. c.window.allocated
      BY <1>2, <1>9
    <2>3. PICK own \in SUBSET DOMAIN c.pages :
            /\ own = {a \in c.window.surface \cap DOMAIN c.pages : c.pages[a].kind = "SURFACE"}
            /\ Released(c, x, draws, own) /\ Shut(c, x.window)
      BY <1>2, <1>3, <1>4, <1>6, <2>1, <2>2, ReleaseSurfaceGives
    <2>4. own = c.window.surface
      <3>1. CASE w.window.window_object_open
        <4>1. Range(Surface) \subseteq DOMAIN w.pages
          BY <1>1, <3>1 DEF SurfaceHeld, Mapping
        <4>2. \A a \in Range(Surface) : w.pages[a].kind = "SURFACE"
          BY <1>1, <4>1, SurfacePart DEF SurfaceHeld
        <4> QED
          BY <1>1, <1>2, <2>3, <3>1, <4>1, <4>2 DEF SurfaceHeld
      <3>2. CASE ~w.window.window_object_open
        BY <1>1, <1>2, <2>3, <3>2 DEF SurfaceHeld
      <3> QED
        BY <3>1, <3>2
    <2>5. Mapping(x)
      BY <1>3, <2>3, ReleasedMaps
    <2>6. Dropped(c, x, own)
      <3>1. DOMAIN x.window = WindowFields
        BY <2>3 DEF Shut
      <3>2. c.window.event_object_open =>
              x.window.allocated /\ x.window.generation = c.window.generation
        BY <2>3 DEF Shut
      <3> QED
        BY <2>3, <2>5, <3>1, <3>2 DEF Released, Dropped
    <2>7. c.ok /\ x.draws => x.ok
      BY <1>4, <2>3, <2>4 DEF Released
    <2> QED
      BY <2>6, <2>7
  <1>10. CASE ~(o \in DOMAIN w.handles /\ w.window.allocated)
    <2>1. ~w.window.window_object_open
      BY <1>1, <1>5, <1>8, <1>10 DEF WindowsHeld
    <2>2. <<w.slot, "pixels">> \notin w.heap /\ w.slot \notin w.ui
      BY <1>1, <2>1 DEF WindowKept
    <2>3. Keeping(c, x, {"ok"}) /\ x.ok \in BOOLEAN /\ (o \notin DOMAIN w.handles => x = c)
      <3>1. CASE o \in DOMAIN w.handles
        <4>1. ~w.window.allocated
          BY <1>10, <3>1
        <4>2. x = Failed(c)
          BY <1>2, <1>7, <3>1, <4>1 DEF close_resource
        <4> QED
          BY <1>2, <3>1, <4>2, FailedGives
      <3>2. CASE o \notin DOMAIN w.handles
        <4>1. x = c
          BY <3>2
        <4> QED
          BY <1>2, <4>1 DEF Keeping
      <3> QED
        BY <3>1, <3>2
    <2>4. /\ Shape(x) /\ x.pages = c.pages /\ x.tables = c.tables /\ x.frames = c.frames /\ x.heap = c.heap
          /\ x.ui = c.ui /\ x.window = c.window /\ x.draws = c.draws /\ x.slot = c.slot
      BY <2>3, FieldNames DEF Keeping
    <2>5. Mapping(x)
      BY <1>3, <2>4 DEF Mapping, Owned
    <2> PICK own : own = {}
      OBVIOUS
    <2>6. Dropped(c, x, own)
      <3>1. Keeping(c, x, {"pages", "tables", "frames", "ok", "draws", "heap", "ui", "window"})
        BY <2>3, KeepingMore
      <3>2. Owned(c, own) = {}
        BY DEF Owned
      <3>3. x.heap = c.heap \ {<<c.slot, "pixels">>} /\ x.ui = c.ui \ {c.slot}
        BY <1>2, <2>2, <2>4
      <3>4. x.draws \in BOOLEAN
        BY <1>4, <2>4
      <3>5. c.window.event_object_open => x.window.allocated
        BY <1>2, <1>5, <2>4
      <3> QED
        BY <1>2, <1>5, <2>3, <2>4, <2>5, <3>1, <3>2, <3>3, <3>4, <3>5 DEF Dropped
    <2>7. d => x = c
      <3>1. d => Held(w, "WINDOW") = {}
        BY <1>1, <2>1 DEF WindowsHeld
      <3> QED
        BY <1>8, <2>3, <3>1
    <2> QED
      BY <2>6, <2>7
  <1> QED
    BY <1>9, <1>10

LEMMA EventsShut ==
  ASSUME NEW w, NEW d, Closable(w, d), NEW c, c.window = w.window, NEW own, NEW x, Dropped(c, x, own),
         NEW o, o = Object("EVENT_QUEUE", w.window.generation), NEW draws,
         NEW y, y = IF o \in DOMAIN w.handles THEN close_resource(x, o, draws) ELSE x
  PROVE  Keeping(x, y, {"window"})
  <1>1. Shape(x) /\ DOMAIN x.window = WindowFields
    BY DEF Dropped, Keeping
  <1>2. CASE o \notin DOMAIN w.handles
    BY <1>1, <1>2 DEF Keeping
  <1>3. CASE o \in DOMAIN w.handles
    <2>1. o.type = "EVENT_QUEUE" /\ o.id = w.window.generation
      BY ObjectOf
    <2>2. w.window.generation \in Held(w, "EVENT_QUEUE")
      BY <1>3, <2>1 DEF Held
    <2>3. w.window.event_object_open
      BY <2>2 DEF Closable, WindowsHeld
    <2>4. x.window.allocated /\ x.window.generation = w.window.generation
      BY <2>3 DEF Dropped
    <2> PICK e : e = Unqueued(x)
      OBVIOUS
    <2>5. y = window_finalize_if_unreferenced(e)
      BY <1>3, <2>1, <2>4 DEF close_resource, Unqueued
    <2>6. Keeping(x, e, {"window"})
      BY ONLY <1>1, e = Unqueued(x), UnqueuedGives
    <2>7. y = e \/ y = [e EXCEPT !.window = NoWindow]
      BY <2>5 DEF window_finalize_if_unreferenced
    <2>8. Keeping(e, y, {"window"})
      <3>1. Shape(e)
        BY <2>6 DEF Keeping
      <3>2. CASE y = e
        BY ONLY <3>1, <3>2 DEF Keeping
      <3>3. CASE y = [e EXCEPT !.window = NoWindow]
        BY ONLY <3>1, <3>3, FieldNames DEF Keeping, Shape
      <3> QED
        BY <2>7, <3>2, <3>3
    <2> QED
      BY <2>6, <2>8 DEF Keeping
  <1> QED
    BY <1>2, <1>3

(* What process_cleanup leaves: nothing of the process, and all of others. *)
Swept(w, v, d) ==
  /\ Shape(v) /\ v.slot = w.slot
  /\ \A f \in ProcessFields : v[f] = NoProcess[f]
  /\ v.frames = w.frames \ Owned(w, DOMAIN w.pages)
  /\ v.narrowed = IF w.aliases THEN Front(w.narrowed) ELSE w.narrowed
  /\ v.files = w.files \ Held(w, "FILE") /\ v.sockets = Others(w.sockets, w.slot)
  /\ v.heap = w.heap \ {<<w.slot, "pixels">>} /\ v.ui = w.ui \ {w.slot}
  /\ v.draws \in BOOLEAN /\ v.ok \in BOOLEAN /\ (d /\ v.draws => v.ok)

(* The mappings, the aliases, the space and the frames.                    *)
SpaceSwept(w) ==
  LET unmapped == paging_process_unmap_user_page(w, MappedOf(w, Recorded(w)))
      spaceless == paging_process_space_release(paging_process_alias_set_restore(unmapped))
  IN frame_release(spaceless, Recorded(spaceless))

LEMMA SpaceSweptGives ==
  ASSUME NEW w, Shape(w), Mapping(w), w.ok \in BOOLEAN,
         w.aliases => w.narrowed # <<>> /\ Last(w.narrowed) = w.slot,
         NEW v, v = SpaceSwept(w)
  PROVE  /\ Keeping(w, v, {"tables", "aliases", "narrowed", "space", "frames"})
         /\ v.frames = w.frames \ Owned(w, DOMAIN w.pages)
         /\ v.narrowed = IF w.aliases THEN Front(w.narrowed) ELSE w.narrowed
  <1> PICK u : u = paging_process_unmap_user_page(w, MappedOf(w, Recorded(w)))
    OBVIOUS
  <1>1. MappedOf(w, Recorded(w)) = w.tables
    BY DEF MappedOf, Recorded, Mapping
  <1>2. u = [w EXCEPT !.tables = {}]
    <2>1. u = [w EXCEPT !.tables = @ \ w.tables]
      BY <1>1 DEF paging_process_unmap_user_page
    <2>2. w.tables \ w.tables = {}
      OBVIOUS
    <2> QED
      BY <2>1, <2>2
  <1>3. Keeping(w, u, {"tables"}) /\ u.tables = {}
    BY <1>2, FieldNames DEF Keeping, Shape
  <1>4. Shape(u) /\ u.aliases = w.aliases /\ u.narrowed = w.narrowed /\ u.slot = w.slot
    BY <1>3, FieldNames DEF Keeping
  <1> PICK a : a = paging_process_alias_set_restore(u)
    OBVIOUS
  <1>5. /\ Keeping(w, a, {"tables", "aliases", "narrowed"}) /\ ~a.aliases /\ a.tables = {}
        /\ a.narrowed = IF w.aliases THEN Front(w.narrowed) ELSE w.narrowed
    <2>1. CASE ~w.aliases
      <3>1. a = u
        BY <1>4, <2>1 DEF paging_process_alias_set_restore
      <3> QED
        BY <1>3, <1>4, <2>1, <3>1, KeepingMore
    <2>2. CASE w.aliases
      <3>1. a = [u EXCEPT !.aliases = FALSE, !.narrowed = Front(@)]
        BY <1>3, <1>4, <2>2 DEF paging_process_alias_set_restore
      <3>2. Keeping(u, a, {"aliases", "narrowed"}) /\ a.aliases = FALSE /\ a.narrowed = Front(u.narrowed)
        BY <1>4, <3>1, FieldNames DEF Keeping, Shape
      <3>3. a.tables = {}
        BY <1>3, <3>2, FieldNames DEF Keeping
      <3>4. Keeping(w, a, {"tables", "aliases", "narrowed"})
        BY <1>3, <3>2 DEF Keeping
      <3> QED
        BY <1>4, <2>2, <3>2, <3>3, <3>4
    <2> QED
      BY <2>1, <2>2
  <1> PICK s : s = paging_process_space_release(a)
    OBVIOUS
  <1>6. Keeping(a, s, {"space"})
    <2>1. Shape(a)
      BY <1>5 DEF Keeping
    <2>2. CASE ~a.space
      <3>1. s = a
        BY <2>2 DEF paging_process_space_release
      <3> QED
        BY <2>1, <3>1 DEF Keeping
    <2>3. CASE a.space
      <3>1. s = [a EXCEPT !.space = FALSE]
        BY <1>5, <2>3 DEF paging_process_space_release
      <3> QED
        BY <2>1, <3>1, FieldNames DEF Keeping, Shape
    <2> QED
      BY <2>2, <2>3
  <1>7. Keeping(w, s, {"tables", "aliases", "narrowed", "space"}) /\ s.narrowed = a.narrowed
    <2>1. s.narrowed = a.narrowed
      BY <1>6, FieldNames DEF Keeping
    <2> QED
      BY <1>5, <1>6, <2>1 DEF Keeping
  <1>8. Shape(s) /\ s.pages = w.pages /\ s.frames = w.frames /\ s.slot = w.slot
    BY <1>7, FieldNames DEF Keeping
  <1>9. v = [s EXCEPT !.frames = @ \ Owned(s, Recorded(s))]
    <2>1. Owned(s, Recorded(s)) \subseteq s.frames
      <3>1. Owned(s, Recorded(s)) = Own(w.frames, w.slot)
        BY <1>8 DEF Owned, Recorded, Mapping
      <3> QED
        BY <1>8, <3>1 DEF Own
    <2>2. v = frame_release(s, Recorded(s))
      BY DEF SpaceSwept
    <2> QED
      BY <2>1, <2>2 DEF frame_release
  <1>10. Keeping(s, v, {"frames"}) /\ v.frames = s.frames \ Owned(s, Recorded(s))
    BY <1>8, <1>9, FieldNames DEF Keeping, Shape
  <1>11. v.frames = w.frames \ Owned(w, DOMAIN w.pages)
    BY <1>8, <1>10 DEF Owned, Recorded
  <1>12. v.narrowed = s.narrowed
    BY <1>10, FieldNames DEF Keeping
  <1>13. Keeping(w, v, {"tables", "aliases", "narrowed", "space", "frames"})
    BY <1>7, <1>10 DEF Keeping
  <1> QED
    BY <1>5, <1>7, <1>11, <1>12, <1>13

LEMMA ClearedGives ==
  ASSUME NEW w, Shape(w), NEW v, v = Joined(NoProcess, w)
  PROVE  /\ Shape(v) /\ \A f \in ProcessFields : v[f] = NoProcess[f]
         /\ \A f \in Fields \ ProcessFields : v[f] = w[f]
  <1>1. DOMAIN NoProcess = ProcessFields /\ ProcessFields \subseteq Fields
    BY NamesOfFields DEF Fields
  <1> QED
    BY <1>1 DEF Joined, Shape

LEMMA CleanupGives ==
  ASSUME NEW w, NEW d, Closable(w, d), ResourceAssumption, NEW draws \in BOOLEAN,
         w.aliases => w.narrowed # <<>> /\ Last(w.narrowed) = w.slot,
         NEW v, v = process_cleanup(w, draws)
  PROVE  Swept(w, v, d)
  <1> PICK c : c = StreamsShut(w)
    OBVIOUS
  <1> PICK o : o = Object("WINDOW", w.window.generation)
    OBVIOUS
  <1> PICK q : q = Object("EVENT_QUEUE", w.window.generation)
    OBVIOUS
  <1> PICK x : x = IF o \in DOMAIN w.handles THEN close_resource(c, o, draws) ELSE c
    OBVIOUS
  <1> PICK y : y = IF q \in DOMAIN w.handles THEN close_resource(x, q, draws) ELSE x
    OBVIOUS
  <1> PICK z : z = network_process_terminated(y)
    OBVIOUS
  <1> PICK s : s = SpaceSwept(z)
    OBVIOUS
  <1>1. v = Joined(NoProcess, s)
    <2>1. y = native_handle_close_all(w, draws)
      BY DEF native_handle_close_all, StreamsShut
    <2> QED
      BY <2>1 DEF process_cleanup, SpaceSwept
  <1>2. /\ Keeping(w, c, {"files", "directories", "sockets", "ok"})
        /\ c.files = w.files \ Held(w, "FILE") /\ c.sockets = Others(w.sockets, w.slot)
        /\ c.ok \in BOOLEAN /\ (d => c.ok)
    <2> HIDE DEF StreamsShut
    <2> QED
      BY ONLY Closable(w, d), c = StreamsShut(w), StreamsShutGives
  <1>3. PICK own : Dropped(c, x, own) /\ (d /\ c.ok /\ x.draws => x.ok)
    BY ONLY Closable(w, d), ResourceAssumption, draws \in BOOLEAN, <1>2, WindowShut,
            o = Object("WINDOW", w.window.generation),
            x = IF o \in DOMAIN w.handles THEN close_resource(c, o, draws) ELSE c
  <1>4. Keeping(x, y, {"window"})
    <2>1. c.window = w.window
      BY ONLY <1>2, FieldNames DEF Keeping
    <2> QED
      BY ONLY Closable(w, d), <1>3, <2>1, EventsShut, q = Object("EVENT_QUEUE", w.window.generation),
              y = IF q \in DOMAIN w.handles THEN close_resource(x, q, draws) ELSE x
  <1>5. Keeping(c, y, {"pages", "tables", "frames", "ok", "draws", "heap", "ui", "window"})
    BY ONLY <1>3, <1>4 DEF Dropped, Keeping
  <1>6. /\ Shape(c) /\ c.slot = w.slot /\ c.pages = w.pages /\ c.frames = w.frames /\ c.heap = w.heap
        /\ c.ui = w.ui /\ c.aliases = w.aliases /\ c.narrowed = w.narrowed
    BY ONLY <1>2, FieldNames DEF Keeping
  <1>7. /\ Shape(y) /\ y.slot = w.slot /\ y.aliases = w.aliases /\ y.narrowed = w.narrowed
        /\ y.files = c.files /\ y.sockets = c.sockets
    BY ONLY <1>5, <1>6, FieldNames DEF Keeping
  <1>8. /\ y.pages = x.pages /\ y.tables = x.tables /\ y.frames = x.frames /\ y.heap = x.heap
        /\ y.ui = x.ui /\ y.ok = x.ok /\ y.draws = x.draws /\ y.slot = x.slot
    BY ONLY <1>4, FieldNames DEF Keeping
  <1>9. /\ own \subseteq DOMAIN w.pages /\ DOMAIN y.pages = DOMAIN w.pages \ own
        /\ y.frames = w.frames \ Owned(c, own)
        /\ y.heap = w.heap \ {<<w.slot, "pixels">>} /\ y.ui = w.ui \ {w.slot}
    BY ONLY <1>3, <1>6, <1>8 DEF Dropped
  <1>10. Mapping(y)
    BY ONLY <1>3, <1>8 DEF Dropped, Mapping, Owned
  <1>11. y.ok \in BOOLEAN /\ y.draws \in BOOLEAN /\ (d /\ y.draws => y.ok)
    BY ONLY <1>2, <1>3, <1>8, Closable(w, d) DEF Dropped, Closable
  <1>12. Keeping(y, z, {"sockets"}) /\ z.sockets = Others(y.sockets, w.slot)
    <2>1. z = [y EXCEPT !.sockets = {p \in @ : p[1] # y.slot}]
      BY ONLY z = network_process_terminated(y) DEF network_process_terminated
    <2>2. Keeping(y, z, {"sockets"}) /\ z.sockets = {p \in y.sockets : p[1] # y.slot}
      BY ONLY <1>7, <2>1, FieldNames DEF Keeping, Shape
    <2> QED
      BY ONLY <1>7, <2>2 DEF Others
  <1>13. /\ Shape(z) /\ z.slot = y.slot /\ z.aliases = y.aliases /\ z.narrowed = y.narrowed
         /\ z.pages = y.pages /\ z.tables = y.tables /\ z.frames = y.frames /\ z.files = y.files
         /\ z.heap = y.heap /\ z.ui = y.ui /\ z.ok = y.ok /\ z.draws = y.draws
    BY ONLY <1>12, FieldNames DEF Keeping
  <1>14. Mapping(z)
    BY ONLY <1>10, <1>13 DEF Mapping, Owned
  <1>15. /\ Keeping(z, s, {"tables", "aliases", "narrowed", "space", "frames"})
         /\ s.frames = z.frames \ Owned(z, DOMAIN z.pages)
         /\ s.narrowed = IF z.aliases THEN Front(z.narrowed) ELSE z.narrowed
    <2>1. z.aliases => z.narrowed # <<>> /\ Last(z.narrowed) = z.slot
      BY ONLY <1>7, <1>13, w.aliases => w.narrowed # <<>> /\ Last(w.narrowed) = w.slot
    <2>2. z.ok \in BOOLEAN
      BY ONLY <1>11, <1>13
    <2> HIDE DEF SpaceSwept
    <2> QED
      BY ONLY <1>13, <1>14, <2>1, <2>2, s = SpaceSwept(z), SpaceSweptGives
  <1>16. /\ Shape(s) /\ s.slot = z.slot /\ s.files = z.files /\ s.sockets = z.sockets /\ s.heap = z.heap
         /\ s.ui = z.ui /\ s.ok = z.ok /\ s.draws = z.draws
    BY ONLY <1>15, FieldNames DEF Keeping
  <1>17. /\ Shape(v) /\ (\A f \in ProcessFields : v[f] = NoProcess[f])
         /\ \A f \in Fields \ ProcessFields : v[f] = s[f]
    BY ONLY <1>1, <1>16, ClearedGives
  <1>18. /\ v.slot = s.slot /\ v.frames = s.frames /\ v.narrowed = s.narrowed /\ v.files = s.files
         /\ v.sockets = s.sockets /\ v.heap = s.heap /\ v.ui = s.ui /\ v.ok = s.ok /\ v.draws = s.draws
    BY ONLY <1>17 DEF Fields, ProcessFields, MachineFields
  <1>19. v.frames = w.frames \ Owned(w, DOMAIN w.pages)
    <2>1. Owned(z, DOMAIN z.pages) = Owned(w, DOMAIN w.pages \ own) /\ Owned(c, own) = Owned(w, own)
      BY ONLY <1>6, <1>7, <1>9, <1>13 DEF Owned
    <2>2. Owned(w, DOMAIN w.pages) = Owned(w, own) \cup Owned(w, DOMAIN w.pages \ own)
      BY ONLY <1>9 DEF Owned
    <2> QED
      BY ONLY <1>9, <1>13, <1>15, <1>18, <2>1, <2>2
  <1>20. v.sockets = Others(w.sockets, w.slot)
    BY ONLY <1>2, <1>7, <1>12, <1>16, <1>18 DEF Others
  <1>21. v.ok \in BOOLEAN /\ v.draws \in BOOLEAN /\ (d /\ v.draws => v.ok)
    BY ONLY <1>11, <1>13, <1>16, <1>18
  <1>22. v.slot = w.slot
    BY ONLY <1>7, <1>13, <1>16, <1>18
  <1>23. v.narrowed = IF w.aliases THEN Front(w.narrowed) ELSE w.narrowed
    <2>1. z.aliases = w.aliases /\ z.narrowed = w.narrowed /\ v.narrowed = s.narrowed
      <3>1. z.aliases = y.aliases /\ z.narrowed = y.narrowed
        BY ONLY <1>13
      <3>2. y.aliases = w.aliases /\ y.narrowed = w.narrowed
        BY ONLY <1>7
      <3>3. v.narrowed = s.narrowed
        BY ONLY <1>18
      <3> QED
        BY ONLY <3>1, <3>2, <3>3, Zenon
    <2>2. s.narrowed = IF z.aliases THEN Front(z.narrowed) ELSE z.narrowed
      BY <1>15
    <2> QED
      BY ONLY <2>1, <2>2, Zenon
  <1>24. v.files = w.files \ Held(w, "FILE")
    BY ONLY <1>2, <1>7, <1>13, <1>16, <1>18
  <1>25. v.heap = w.heap \ {<<w.slot, "pixels">>} /\ v.ui = w.ui \ {w.slot}
    BY ONLY <1>9, <1>13, <1>16, <1>18
  <1> QED
    BY ONLY <1>17, <1>19, <1>20, <1>21, <1>22, <1>23, <1>24, <1>25, Zenon DEF Swept

-----------------------------------------------------------------------------
(* The order of the processes.                                             *)

LEMMA FrontOf ==
  ASSUME NEW S, NEW s \in Seq(S), s # <<>>
  PROVE  /\ Front(s) \in Seq(S) /\ Len(Front(s)) = Len(s) - 1 /\ Len(s) \in Nat \ {0}
         /\ \A i \in 1..(Len(s) - 1) : Front(s)[i] = s[i]
         /\ Last(s) \in S /\ Last(s) = s[Len(s)]
  <1> PICK n \in Nat : n = Len(s)
    OBVIOUS
  <1>1. n # 0
    OBVIOUS
  <1>2. \A i \in 1..(n - 1) : s[i] \in S
    OBVIOUS
  <1> PICK m \in Int : m = n - 1
    OBVIOUS
  <1>3. /\ SubSeq(s, 1, m) \in Seq(S)
        /\ Len(SubSeq(s, 1, m)) = IF 1 <= m THEN m - 1 + 1 ELSE 0
        /\ \A i \in 1..(m - 1 + 1) : SubSeq(s, 1, m)[i] = s[1 + i - 1]
    <2>1. \A i \in 1..m : s[i] \in S
      BY <1>2
    <2> QED
      BY <2>1, SubSeqProperties
  <1>4. Front(s) = SubSeq(s, 1, m)
    BY DEF Front
  <1>5. Last(s) = s[n] /\ s[n] \in S
    BY <1>1 DEF Last
  <1>6. Len(Front(s)) = n - 1
    BY <1>1, <1>3, <1>4
  <1>7. \A i \in 1..(n - 1) : Front(s)[i] = s[i]
    BY <1>3, <1>4
  <1> QED
    BY <1>1, <1>3, <1>4, <1>5, <1>6, <1>7

(* The newest goes, the others keep their places.                          *)
Shortened(s, e, f) ==
  /\ \A i, j \in 1..Len(f) : f[i] = f[j] => i = j
  /\ Range(f) = Range(s) \ {e}
  /\ e \in Range(s)

LEMMA FrontShortens ==
  ASSUME NEW S, NEW s \in Seq(S), s # <<>>, \A i, j \in 1..Len(s) : s[i] = s[j] => i = j
  PROVE  Shortened(s, Last(s), Front(s))
  <1> PICK n \in Nat : n = Len(s) /\ n # 0
    OBVIOUS
  <1>1. /\ Front(s) \in Seq(S) /\ Len(Front(s)) = n - 1
        /\ \A i \in 1..(n - 1) : Front(s)[i] = s[i]
        /\ Last(s) = s[n]
    BY FrontOf
  <1>2. DOMAIN s = 1..n /\ DOMAIN Front(s) = 1..(n - 1)
    BY <1>1
  <1>3. Range(s) = {s[i] : i \in 1..n} /\ Range(Front(s)) = {Front(s)[i] : i \in 1..(n - 1)}
    BY <1>2 DEF Range
  <1>4. Range(Front(s)) = {s[i] : i \in 1..(n - 1)}
    BY <1>1, <1>3
  <1>5. \A i \in 1..(n - 1) : s[i] # s[n]
    OBVIOUS
  <1>6. 1..n = (1..(n - 1)) \cup {n}
    OBVIOUS
  <1>7. Range(Front(s)) = Range(s) \ {s[n]} /\ s[n] \in Range(s)
    <2>1. n \in 1..n
      OBVIOUS
    <2>2. {s[i] : i \in 1..n} = {s[i] : i \in 1..(n - 1)} \cup {s[n]}
      BY ONLY <1>6, <2>1
    <2> QED
      BY ONLY <1>3, <1>4, <1>5, <2>1, <2>2
  <1>8. \A i, j \in 1..(n - 1) : Front(s)[i] = Front(s)[j] => i = j
    BY <1>1
  <1> QED
    BY <1>1, <1>7, <1>8 DEF Shortened

Lengthened(S, s, e, a) ==
  /\ a \in Seq(S)
  /\ \A i, j \in 1..Len(a) : a[i] = a[j] => i = j
  /\ Range(a) = Range(s) \cup {e}

LEMMA AppendLengthens ==
  ASSUME NEW S, NEW s \in Seq(S), NEW e \in S, e \notin Range(s),
         \A i, j \in 1..Len(s) : s[i] = s[j] => i = j, NEW a, a = Append(s, e)
  PROVE  Lengthened(S, s, e, a)
  <1> PICK n \in Nat : n = Len(s)
    OBVIOUS
  <1>1. a \in Seq(S) /\ Len(a) = n + 1 /\ a[n + 1] = e /\ \A i \in 1..n : a[i] = s[i]
    OBVIOUS
  <1>2. DOMAIN s = 1..n /\ DOMAIN a = 1..(n + 1)
    BY <1>1
  <1>3. Range(s) = {s[i] : i \in 1..n} /\ Range(a) = {a[i] : i \in 1..(n + 1)}
    BY <1>2 DEF Range
  <1>4. \A i \in 1..n : a[i] # e
    BY <1>1, <1>3
  <1>5. Range(a) = Range(s) \cup {e} /\ \A i, j \in 1..Len(a) : a[i] = a[j] => i = j
    BY <1>1, <1>3, <1>4
  <1> QED
    BY <1>1, <1>5 DEF Lengthened

(* The newest of a sequence to which it was just appended.                 *)
LEMMA AppendedBack ==
  ASSUME NEW S, NEW s \in Seq(S), NEW e \in S, NEW a, a = Append(s, e)
  PROVE  a # <<>> /\ Last(a) = e /\ Front(a) = s
  <1> PICK n \in Nat : n = Len(s)
    OBVIOUS
  <1>1. a \in Seq(S) /\ Len(a) = n + 1 /\ a[n + 1] = e /\ \A i \in 1..n : a[i] = s[i]
    OBVIOUS
  <1>2. a # <<>>
    BY <1>1
  <1>3. Front(a) \in Seq(S) /\ Len(Front(a)) = n /\ Last(a) = e /\ \A i \in 1..n : Front(a)[i] = a[i]
    <2>1. /\ Front(a) \in Seq(S) /\ Len(Front(a)) = Len(a) - 1
          /\ \A i \in 1..(Len(a) - 1) : Front(a)[i] = a[i]
          /\ Last(a) = a[Len(a)]
      BY ONLY <1>1, <1>2, FrontOf
    <2> QED
      BY <1>1, <2>1
  <1>4. Front(a) = s
    <2>1. \A i \in 1..n : Front(a)[i] = s[i]
      BY <1>1, <1>3
    <2> QED
      BY <1>3, <2>1, SeqEqual
  <1> QED
    BY <1>2, <1>3, <1>4

-----------------------------------------------------------------------------
(* A process that goes.                                                    *)

(* What was swept is nothing of the process and leaves to others what they *)
(* had before: b is the world before w took frames.                        *)
LEMMA SweptLeaves ==
  ASSUME NEW b, NEW w, NEW v, NEW d, NEW c, Finite(b), Mapping(w), Swept(w, v, d),
         Keeping(b, w, c), c \cap {"slot", "heap", "files", "sockets", "ui", "handles"} = {},
         Others(w.frames, b.slot) = Others(b.frames, b.slot), ResourceAssumption
  PROVE  /\ FramesLocal(b, v) /\ HeapLocal(b, v) /\ SocketsLocal(b, v) /\ UiLocal(b, v)
         /\ FilesLocal(b, v) /\ NothingOf(v)
  <1>1. /\ w.slot = b.slot /\ w.heap = b.heap /\ w.files = b.files /\ w.sockets = b.sockets
        /\ w.ui = b.ui /\ w.handles = b.handles
    BY FieldNames DEF Keeping
  <1>2. /\ v.slot = b.slot /\ v.heap = b.heap \ {<<b.slot, "pixels">>} /\ v.ui = b.ui \ {b.slot}
        /\ v.sockets = Others(b.sockets, b.slot) /\ v.files = b.files \ Held(b, "FILE")
        /\ \A f \in ProcessFields : v[f] = NoProcess[f]
    BY <1>1 DEF Swept, Held
  <1>3. v.frames = Others(b.frames, b.slot)
    <2>1. v.frames = w.frames \ Owned(w, DOMAIN w.pages)
      BY DEF Swept
    <2>2. Own(w.frames, w.slot) = Owned(w, DOMAIN w.pages)
      BY DEF Mapping
    <2>3. w.frames \ Own(w.frames, w.slot) = Others(w.frames, w.slot)
      BY DEF Own, Others
    <2> QED
      BY <1>1, <2>1, <2>2, <2>3
  <1>4. FramesLocal(b, v)
    <2>1. v.frames \subseteq b.frames
      BY <1>3 DEF Others
    <2>2. Others(v.frames, b.slot) = Others(b.frames, b.slot)
      BY <1>3 DEF Others
    <2>3. IsFiniteSet(v.frames) /\ Cardinality(v.frames) <= Cardinality(b.frames)
      BY <2>1, FS_Subset DEF Finite
    <2>4. Cardinality(v.frames) \in Nat /\ Cardinality(b.frames) \in Nat /\ FrameCount \in Nat
      BY <2>3, FS_CardinalityType DEF Finite, ResourceAssumption
    <2>5. Cardinality(v.frames) <= FrameCount
      BY <2>3, <2>4 DEF Finite
    <2> QED
      BY <2>2, <2>3, <2>5 DEF FramesLocal
  <1>5. HeapLocal(b, v)
    BY <1>2 DEF HeapLocal, Others
  <1>6. SocketsLocal(b, v)
    <2>1. v.sockets \subseteq b.sockets
      BY <1>2 DEF Others
    <2>2. IsFiniteSet(v.sockets)
      BY <2>1, FS_Subset DEF Finite
    <2> QED
      BY <1>2, <2>2 DEF SocketsLocal, Others
  <1>7. UiLocal(b, v)
    BY <1>2 DEF UiLocal
  <1>8. FilesLocal(b, v)
    <2>1. Held(v, "FILE") = {}
      BY <1>2, NamesOfFields DEF Held, NoProcess, NoHandles
    <2>2. v.files \subseteq b.files
      BY <1>2
    <2>3. IsFiniteSet(v.files)
      BY <2>2, FS_Subset DEF Finite
    <2> QED
      BY <1>2, <2>1, <2>3 DEF FilesLocal
  <1>9. NothingOf(v)
    <2>1. Own(v.frames, v.slot) = {}
      BY <1>2, <1>3 DEF Own, Others
    <2>2. Own(v.sockets, v.slot) = {}
      BY <1>2 DEF Own, Others
    <2>3. <<v.slot, "pixels">> \notin v.heap /\ v.slot \notin v.ui
      BY <1>2
    <2> QED
      BY <1>2, <2>1, <2>2, <2>3 DEF NothingOf
  <1> QED
    BY <1>4, <1>5, <1>6, <1>7, <1>8, <1>9

LEMMA ReapStep ==
  ASSUME IInv, ResourceAssumption, NEW draws \in BOOLEAN, reap(draws)
  PROVE  IInv'
  <1> PICK s : s = Last(ages)
    OBVIOUS
  <1> PICK after : after = Front(ages)
    OBVIOUS
  <1> PICK w : w = World(s)
    OBVIOUS
  <1> PICK v : v = process_cleanup(w, draws)
    OBVIOUS
  <1>1. /\ ages # <<>> /\ scheduler_active' = scheduler_active /\ ages' = after
        /\ Cleaned(v) /\ reaping' = v.ok
    BY DEF reap, NewestExits
  <1>2. /\ ages \in Seq(Slot) /\ \A i, j \in 1..Len(ages) : ages[i] = ages[j] => i = j
        /\ machine.narrowed = ages
    BY DEF IInv, AgesKept
  <1>3. /\ after \in Seq(Slot) /\ \A i, j \in 1..Len(after) : after[i] = after[j] => i = j
        /\ Range(after) = Live \ {s} /\ s \in Live
    <2>1. after \in Seq(Slot)
      BY <1>1, <1>2, FrontOf
    <2>2. /\ \A i, j \in 1..Len(after) : after[i] = after[j] => i = j
          /\ Range(after) = Range(ages) \ {s} /\ s \in Range(ages)
      <3>1. Shortened(ages, s, after)
        BY ONLY <1>1, <1>2, s = Last(ages), after = Front(ages), FrontShortens
      <3> QED
        BY ONLY <3>1 DEF Shortened
    <2> QED
      BY <2>1, <2>2 DEF Live
  <1>4. /\ s \in Slot /\ Ready(w, drawn) /\ w.slot = s
        /\ \A f \in ProcessFields : w[f] = process[s][f]
        /\ \A f \in MachineFields : w[f] = machine[f]
    BY <1>3, ReadyWorld
  <1>5. w.aliases /\ w.narrowed = ages
    BY <1>2, <1>3, <1>4, NamesOfFields DEF IInv, LiveKept
  <1>6. Closable(w, drawn)
    BY <1>4 DEF Ready, Books, Closable
  <1>7. Swept(w, v, drawn)
    <2>1. w.aliases => w.narrowed # <<>> /\ Last(w.narrowed) = w.slot
      BY <1>1, <1>4, <1>5
    <2> QED
      BY ONLY <1>6, <2>1, v = process_cleanup(w, draws), draws \in BOOLEAN, ResourceAssumption, CleanupGives
  <1>8. /\ FramesLocal(w, v) /\ HeapLocal(w, v) /\ SocketsLocal(w, v) /\ UiLocal(w, v)
        /\ FilesLocal(w, v) /\ NothingOf(v)
    <2> PICK c : c = {}
      OBVIOUS
    <2>1. Keeping(w, w, c) /\ c \cap {"slot", "heap", "files", "sockets", "ui", "handles"} = {}
      BY <1>6 DEF Keeping, Closable
    <2>2. Finite(w) /\ Mapping(w)
      BY <1>4 DEF Ready, Books
    <2> QED
      BY ONLY <1>7, <2>1, <2>2, ResourceAssumption, SweptLeaves
  <1>9. /\ Shape(v) /\ v.slot = s /\ v.narrowed = after /\ v.draws \in BOOLEAN /\ v.ok \in BOOLEAN
        /\ (drawn /\ v.draws => v.ok)
    BY <1>4, <1>5, <1>7 DEF Swept
  <1>10. /\ Stored(v) /\ cleanups' = (cleanups /\ v.ok) /\ drawn' = (drawn /\ v.draws)
    BY <1>1 DEF Cleaned
  <1> PICK e \in BOOLEAN : e = (drawn /\ v.draws)
    OBVIOUS
  <1>11. drawn' = e /\ (e => drawn) /\ (e => cleanups') /\ cleanups' \in BOOLEAN
    BY <1>9, <1>10 DEF IInv, Shapes
  <1>12. {scheduler_active', reaping'} \subseteq BOOLEAN
    BY <1>1, <1>9 DEF IInv, Shapes
  <1>13. Range(after) \ {s} = Live \ {s} /\ s \notin Range(after)
    BY <1>3
  <1> QED
    BY <1>1, <1>3, <1>4, <1>8, <1>9, <1>10, <1>11, <1>12, <1>13, PlaceKeeps
-----------------------------------------------------------------------------
(* A process that is loaded.                                               *)

(* The world of a slot without a process.                                  *)
Blank(b) ==
  /\ Shape(b) /\ Finite(b) /\ NothingOf(b)
  /\ b.ok \in BOOLEAN /\ b.ok /\ b.draws \in BOOLEAN /\ b.draws

LEMMA EmptyWorld ==
  ASSUME IInv, NEW s \in Slot, s \notin Live, NEW b, b = World(s)
  PROVE  Blank(b) /\ b.slot = s /\ b.narrowed = ages
  <1>1. /\ Shape(b)
        /\ \A f \in ProcessFields : b[f] = process[s][f]
        /\ \A f \in MachineFields : b[f] = machine[f]
        /\ b.slot = s
        /\ b.ok \in BOOLEAN /\ b.ok
        /\ b.draws \in BOOLEAN /\ b.draws
    BY WorldFields DEF IInv
  <1>2. /\ b.frames = machine.frames /\ b.heap = machine.heap /\ b.narrowed = machine.narrowed
        /\ b.files = machine.files /\ b.sockets = machine.sockets /\ b.ui = machine.ui
    BY <1>1, NamesOfFields
  <1>3. Finite(b)
    BY <1>2 DEF IInv, Finite
  <1>4. NothingOf(b)
    <2>1. \A f \in ProcessFields : b[f] = NoProcess[f]
      BY <1>1 DEF IInv, DeadCleared
    <2>2. Own(b.frames, b.slot) = {} /\ Own(b.sockets, b.slot) = {}
      BY <1>1, <1>2 DEF IInv, NothingForeign, Own
    <2>3. <<b.slot, "pixels">> \notin b.heap /\ b.slot \notin b.ui
      BY <1>1, <1>2 DEF IInv, NothingForeign
    <2> QED
      BY <2>1, <2>2, <2>3 DEF NothingOf
  <1>5. b.narrowed = ages
    BY <1>2 DEF IInv, AgesKept
  <1> QED
    BY <1>1, <1>3, <1>4, <1>5 DEF Blank

LEMMA BlankFields ==
  ASSUME NEW b, Blank(b)
  PROVE  /\ Shape(b) /\ b.pages = NoPages /\ DOMAIN b.pages = {} /\ b.tables = {}
         /\ b.handles = NoHandles /\ DOMAIN b.handles = {} /\ b.directories = {}
         /\ b.window = NoWindow /\ b.windows = 0 /\ b.aliases = FALSE
         /\ Own(b.frames, b.slot) = {} /\ Own(b.sockets, b.slot) = {}
         /\ <<b.slot, "pixels">> \notin b.heap /\ b.slot \notin b.ui
  BY NamesOfFields DEF Blank, NothingOf, NoProcess, NoPages, NoHandles

LoadKinds == {"IMAGE", "TLS", "STACK"}

(* q is b with the pages in A recorded, and those in M mapped.             *)
Filled(b, q, A, M) ==
  /\ Keeping(b, q, {"pages", "tables", "frames", "space", "aliases", "narrowed", "threads", "calls", "ok"})
  /\ A \subseteq Range(LoadOrder) /\ M \subseteq A
  /\ DOMAIN q.pages = A
  /\ \A a \in A :
       /\ q.pages[a] \in [kind : Kinds, mapped : BOOLEAN]
       /\ q.pages[a].kind \in LoadKinds /\ (q.pages[a].mapped <=> a \in M)
  /\ q.tables = M
  /\ q.frames = b.frames \cup Owned(b, A)
  /\ IsFiniteSet(q.frames) /\ Cardinality(q.frames) <= FrameCount

Aliased(b, q) ==
  q.narrowed = IF q.aliases THEN Append(b.narrowed, b.slot) ELSE b.narrowed

LEMMA NothingFilled ==
  ASSUME NEW b, Blank(b)
  PROVE  Filled(b, b, {}, {}) /\ Aliased(b, b)
  <1>1. b.frames = b.frames \cup Owned(b, {})
    BY DEF Owned
  <1> QED
    BY <1>1, BlankFields DEF Filled, Aliased, Keeping, Blank, Finite

(* What a page of the load order is for.                                   *)
LEMMA KindOf ==
  ASSUME NEW k, k \in {"image", "anon", "stack"}
  PROVE  [image |-> "IMAGE", anon |-> "TLS", stack |-> "STACK"][k] \in LoadKinds
  BY DEF LoadKinds

PreparedKinds(n) ==
  [a \in First(LoadOrder, n) |-> [image |-> "IMAGE", anon |-> "TLS", stack |-> "STACK"][a[1]]]

RecordedAs(w, r, kind) ==
  /\ Keeping(w, r, {"pages", "frames"})
  /\ DOMAIN r.pages = DOMAIN w.pages \cup DOMAIN kind
  /\ \A a \in DOMAIN kind : r.pages[a] = [kind |-> kind[a], mapped |-> FALSE]
  /\ r.frames = w.frames \cup Owned(w, DOMAIN kind)

LEMMA RecordIsAs ==
  ASSUME NEW w, Shape(w), NEW kind, FreshPages(w, kind), NEW r, r = record_page(w, kind)
  PROVE  RecordedAs(w, r, kind)
  <1>1. /\ Keeping(w, r, {"pages", "frames"})
        /\ DOMAIN r.pages = DOMAIN w.pages \cup DOMAIN kind
        /\ \A a \in DOMAIN w.pages : r.pages[a] = w.pages[a]
        /\ \A a \in DOMAIN kind : r.pages[a] = [kind |-> kind[a], mapped |-> FALSE]
        /\ r.frames = w.frames \cup Owned(w, DOMAIN kind)
    BY RecordGives
  <1> QED
    BY <1>1 DEF RecordedAs

LEMMA PreparedFills ==
  ASSUME NEW b, Blank(b), ResourceAssumption, NEW n \in 0..Len(LoadOrder),
         allocate_page(b, LoadOrder, n), NEW p, p = Prepared(b, n)
  PROVE  /\ Filled(b, p, First(LoadOrder, n), {}) /\ Aliased(b, p)
         /\ p.threads = b.threads /\ p.aliases = b.aliases /\ p.narrowed = b.narrowed
  <1> PICK A : A = First(LoadOrder, n)
    OBVIOUS
  <1> PICK kind : kind = PreparedKinds(n)
    OBVIOUS
  <1>1. Shape(b) /\ DOMAIN b.pages = {} /\ b.tables = {} /\ b.aliases = FALSE /\ Finite(b)
    BY BlankFields DEF Blank
  <1>2. A \subseteq Range(LoadOrder)
    <2>1. LoadOrder \in Seq(Range(LoadOrder))
      BY LoadPart
    <2> QED
      BY <2>1 DEF First, Range
  <1>3. DOMAIN kind = A /\ \A a \in A : kind[a] \in LoadKinds
    <2>1. \A a \in A : a[1] \in {"image", "anon", "stack"}
      BY <1>2, LoadPart, StackPart
    <2>2. \A a \in A : kind[a] = [image |-> "IMAGE", anon |-> "TLS", stack |-> "STACK"][a[1]]
      BY DEF PreparedKinds
    <2> QED
      BY <2>1, <2>2, KindOf DEF PreparedKinds
  <1>4. FreshPages(b, kind)
    BY <1>1, <1>3 DEF FreshPages, LoadKinds, Kinds
  <1>5. p = record_page(b, kind)
    BY DEF Prepared, PreparedKinds
  <1>6. /\ Keeping(b, p, {"pages", "frames"})
        /\ DOMAIN p.pages = DOMAIN b.pages \cup DOMAIN kind
        /\ \A a \in DOMAIN kind : p.pages[a] = [kind |-> kind[a], mapped |-> FALSE]
        /\ p.frames = b.frames \cup Owned(b, DOMAIN kind)
    <2>1. RecordedAs(b, p, kind)
      BY <1>1, <1>4, <1>5, RecordIsAs
    <2> QED
      BY <2>1 DEF RecordedAs
  <1>7. /\ p.tables = b.tables /\ p.threads = b.threads /\ p.aliases = b.aliases
        /\ p.narrowed = b.narrowed
    BY <1>6, FieldNames DEF Keeping
  <1>8. \A a \in A :
          /\ p.pages[a] \in [kind : Kinds, mapped : BOOLEAN]
          /\ p.pages[a].kind \in LoadKinds /\ (p.pages[a].mapped <=> a \in {})
    <2> SUFFICES ASSUME NEW a \in A
                 PROVE  /\ p.pages[a] \in [kind : Kinds, mapped : BOOLEAN]
                        /\ p.pages[a].kind \in LoadKinds /\ (p.pages[a].mapped <=> a \in {})
      OBVIOUS
    <2> PICK k \in LoadKinds : k = kind[a]
      BY <1>3
    <2>1. k \in Kinds
      BY DEF LoadKinds, Kinds
    <2> PICK f \in BOOLEAN : f = FALSE
      OBVIOUS
    <2>2. p.pages[a] = [kind |-> k, mapped |-> f]
      BY <1>3, <1>6
    <2>3. p.pages[a] \in [kind : Kinds, mapped : BOOLEAN] /\ p.pages[a].kind = k /\ (p.pages[a].mapped <=> f)
      BY <2>1, <2>2, PageOf
    <2> QED
      BY <2>3
  <1>9. IsFiniteSet(p.frames) /\ Cardinality(p.frames) <= FrameCount
    <2>1. n \in Nat /\ FrameCount \in Nat /\ IsFiniteSet(b.frames)
      BY <1>1 DEF ResourceAssumption, Finite
    <2>2. /\ IsFiniteSet(b.frames \cup Owned(b, First(LoadOrder, n)))
          /\ Cardinality(b.frames \cup Owned(b, First(LoadOrder, n))) <= FrameCount
      BY <2>1, FramesFit
    <2> QED
      BY <1>3, <1>6, <2>2
  <1>10. Keeping(b, p, {"pages", "tables", "frames", "space", "aliases", "narrowed", "threads", "calls", "ok"})
    BY <1>6, KeepingMore
  <1>11. DOMAIN p.pages = A /\ p.tables = {} /\ p.frames = b.frames \cup Owned(b, A)
    BY <1>1, <1>3, <1>6, <1>7
  <1>12. Filled(b, p, A, {})
    BY <1>2, <1>8, <1>9, <1>10, <1>11 DEF Filled
  <1>13. Aliased(b, p)
    BY <1>1, <1>7 DEF Aliased
  <1> QED
    BY <1>7, <1>12, <1>13

(* A space is built, aliases are narrowed, and the first pages mapped.     *)
LEMMA MarkedFills ==
  ASSUME NEW b, NEW p, NEW A, Filled(b, p, A, {}), NEW S, S \subseteq A, NEW u,
         Keeping(p, u, {"space", "aliases", "narrowed"}), NEW q, q = MarkMapped(u, S)
  PROVE  /\ Filled(b, q, A, S) /\ Keeping(u, q, {"pages", "tables"})
         /\ q.aliases = u.aliases /\ q.narrowed = u.narrowed
  <1>1. Shape(u) /\ u.pages = p.pages /\ u.tables = p.tables /\ u.frames = p.frames
    BY FieldNames DEF Keeping
  <1>2. /\ Keeping(u, q, {"pages", "tables"})
        /\ DOMAIN q.pages = DOMAIN u.pages
        /\ \A a \in DOMAIN u.pages :
             q.pages[a] = [kind |-> u.pages[a].kind, mapped |-> u.pages[a].mapped \/ a \in S]
        /\ q.tables = u.tables \cup S
    BY <1>1, MarkGives
  <1>3. q.frames = u.frames /\ q.aliases = u.aliases /\ q.narrowed = u.narrowed
    BY <1>2, FieldNames DEF Keeping
  <1>4. \A a \in A :
          /\ q.pages[a] \in [kind : Kinds, mapped : BOOLEAN]
          /\ q.pages[a].kind \in LoadKinds /\ (q.pages[a].mapped <=> a \in S)
    <2> SUFFICES ASSUME NEW a \in A
                 PROVE  /\ q.pages[a] \in [kind : Kinds, mapped : BOOLEAN]
                        /\ q.pages[a].kind \in LoadKinds /\ (q.pages[a].mapped <=> a \in S)
      OBVIOUS
    <2>1. p.pages[a].kind \in LoadKinds /\ ~p.pages[a].mapped /\ a \in DOMAIN p.pages
      BY DEF Filled
    <2> PICK k \in LoadKinds : k = p.pages[a].kind
      BY <2>1
    <2> PICK f \in BOOLEAN : f = (p.pages[a].mapped \/ a \in S)
      OBVIOUS
    <2>2. k \in Kinds
      BY DEF LoadKinds, Kinds
    <2>3. q.pages[a] = [kind |-> k, mapped |-> f]
      BY <1>1, <1>2, <2>1
    <2>4. q.pages[a] \in [kind : Kinds, mapped : BOOLEAN] /\ q.pages[a].kind = k /\ (q.pages[a].mapped <=> f)
      BY <2>2, <2>3, PageOf
    <2> QED
      BY <2>1, <2>4
  <1>5. Keeping(b, q, {"pages", "tables", "frames", "space", "aliases", "narrowed", "threads", "calls", "ok"})
    BY <1>2 DEF Filled, Keeping
  <1>6. Filled(b, q, A, S)
    BY <1>1, <1>2, <1>3, <1>4, <1>5 DEF Filled
  <1> QED
    BY <1>2, <1>3, <1>6
LEMMA FilledMaps ==
  ASSUME NEW b, Blank(b), NEW q, NEW A, NEW M, Filled(b, q, A, M)
  PROVE  /\ Mapping(q) /\ Others(q.frames, b.slot) = Others(b.frames, b.slot)
         /\ q.slot = b.slot
  <1>1. q.slot = b.slot
    BY FieldNames DEF Filled, Keeping
  <1>2. Own(b.frames, b.slot) = {}
    BY BlankFields
  <1>3. q.frames = b.frames \cup Owned(b, A) /\ DOMAIN q.pages = A /\ q.tables = M
    BY DEF Filled
  <1>4. \A x \in Owned(b, A) : x[1] = b.slot
    BY DEF Owned
  <1>5. Own(q.frames, q.slot) = Owned(q, DOMAIN q.pages)
    <2>1. Owned(q, DOMAIN q.pages) = Owned(b, A)
      BY <1>1, <1>3 DEF Owned
    <2>2. Own(q.frames, b.slot) = Owned(b, A)
      BY <1>2, <1>3, <1>4 DEF Own
    <2> QED
      BY <1>1, <2>1, <2>2
  <1>6. Others(q.frames, b.slot) = Others(b.frames, b.slot)
    BY <1>3, <1>4 DEF Others
  <1>7. /\ \A a \in DOMAIN q.pages : q.pages[a] \in [kind : Kinds, mapped : BOOLEAN]
        /\ q.tables = {a \in DOMAIN q.pages : q.pages[a].mapped}
    BY DEF Filled
  <1> QED
    BY <1>1, <1>5, <1>6, <1>7 DEF Mapping

(* What was not touched is as it is without a process.                     *)
LEMMA FilledFields ==
  ASSUME NEW b, Blank(b), NEW q, NEW A, NEW M, Filled(b, q, A, M)
  PROVE  /\ Shape(q) /\ q.slot = b.slot /\ q.handles = NoHandles /\ q.directories = {}
         /\ q.window = NoWindow /\ q.windows = 0
         /\ q.heap = b.heap /\ q.files = b.files /\ q.sockets = b.sockets /\ q.ui = b.ui
         /\ q.draws = b.draws
  <1>1. /\ b.handles = NoHandles /\ b.directories = {} /\ b.window = NoWindow /\ b.windows = 0
    BY BlankFields
  <1> QED
    BY <1>1, FieldNames DEF Filled, Keeping

LEMMA FilledParts ==
  ASSUME NEW b, Blank(b), ResourceAssumption, NEW q, NEW A, NEW M, Filled(b, q, A, M), NEW d
  PROVE  /\ SurfaceHeld(q) /\ WindowKept(q) /\ Objects(q) /\ Streams(q) /\ ThreadsHeld(q)
         /\ WindowsHeld(q, d) /\ \A t : Held(q, t) = {}
  <1>1. /\ q.slot = b.slot /\ q.handles = NoHandles /\ q.directories = {}
        /\ q.window = NoWindow /\ q.windows = 0
        /\ q.heap = b.heap /\ q.files = b.files /\ q.sockets = b.sockets /\ q.ui = b.ui
    BY FilledFields
  <1>2. \A t : Held(q, t) = {}
    BY <1>1 DEF Held, NoHandles
  <1>3. /\ q.window.window_object_open = FALSE /\ q.window.event_object_open = FALSE
        /\ q.window.allocated = FALSE /\ q.window.surface = {} /\ DOMAIN q.window = WindowFields
    BY <1>1 DEF NoWindow, WindowFields
  <1>4. SurfaceHeld(q)
    <2>1. \A a \in DOMAIN q.pages : a[1] # "surface"
      <3>1. \A a \in Range(LoadOrder) : a[1] \in {"image", "anon", "stack"}
        BY LoadPart, StackPart
      <3> QED
        BY <3>1 DEF Filled
    <2> QED
      BY <1>3, <2>1 DEF SurfaceHeld
  <1>5. WindowKept(q)
    <2>1. <<b.slot, "pixels">> \notin b.heap /\ b.slot \notin b.ui
      BY BlankFields
    <2>2. /\ {q.window.window_object_open, q.window.event_object_open} \subseteq BOOLEAN
          /\ ~q.window.window_object_open /\ ~q.window.event_object_open /\ ~q.window.allocated
      BY <1>3
    <2>3. q.window.allocated = (q.window.window_object_open \/ q.window.event_object_open)
      <3>1. (q.window.window_object_open \/ q.window.event_object_open) = FALSE
        BY <2>2
      <3>2. q.window.allocated = FALSE
        BY <1>3
      <3> QED
        BY ONLY <3>1, <3>2, Zenon
    <2>4. <<q.slot, "pixels">> \notin q.heap /\ q.slot \notin q.ui /\ q.windows \in Nat
      BY <1>1, <2>1
    <2> QED
      BY <1>3, <2>2, <2>3, <2>4 DEF WindowKept
  <1>6. Objects(q)
    BY <1>1 DEF Objects, NoHandles
  <1>7. Streams(q)
    <2>1. Own(q.sockets, q.slot) = {}
      BY <1>1, BlankFields
    <2>2. Owned(q, {}) = {}
      BY DEF Owned
    <2>3. IsFiniteSet({})
      BY FS_EmptySet
    <2> QED
      BY <1>1, <1>2, <2>1, <2>2, <2>3 DEF Streams
  <1>8. ThreadsHeld(q)
    BY <1>2 DEF ThreadsHeld
  <1>9. WindowsHeld(q, d)
    BY <1>2, <1>3 DEF WindowsHeld
  <1> QED
    BY <1>2, <1>4, <1>5, <1>6, <1>7, <1>8, <1>9

(* Wherever a load stops, what it took can be cleaned up.                  *)
LEMMA FailedLoadFills ==
  ASSUME NEW b, Blank(b), ResourceAssumption, NEW q \in FailedLoads(b)
  PROVE  \E A, M : Filled(b, q, A, M) /\ Aliased(b, q)
  <1> PICK L \in Nat : L = Len(LoadOrder)
    <2>1. LoadOrder \in Seq(Range(LoadOrder))
      BY LoadPart
    <2> QED
      BY <2>1
  <1>1. CASE q = b
    BY <1>1, NothingFilled
  <1>2. CASE \E n \in 0..L : allocate_page(b, LoadOrder, n) /\ q = Prepared(b, n)
    <2> PICK n \in 0..L : allocate_page(b, LoadOrder, n) /\ q = Prepared(b, n)
      BY <1>2
    <2>1. Filled(b, q, First(LoadOrder, n), {}) /\ Aliased(b, q)
      BY PreparedFills
    <2> QED
      BY <2>1
  <1>3. CASE allocate_page(b, LoadOrder, L) /\ q \in map_prepared_pages(Prepared(b, L))
    <2> PICK p : p = Prepared(b, L)
      OBVIOUS
    <2> PICK A : A = First(LoadOrder, L)
      OBVIOUS
    <2>1. /\ Filled(b, p, A, {}) /\ Aliased(b, p)
          /\ p.aliases = b.aliases /\ p.narrowed = b.narrowed
      <3>1. L \in 0..Len(LoadOrder) /\ allocate_page(b, LoadOrder, L)
        BY <1>3
      <3> QED
        BY <3>1, PreparedFills
    <2>2. Shape(p) /\ p.slot = b.slot
      BY <2>1, FilledFields
    <2> PICK u : u = [p EXCEPT !.space = TRUE]
      OBVIOUS
    <2>3. Keeping(p, u, {"space"})
      BY <2>2, FieldNames DEF Keeping, Shape
    <2>4. Shape(u) /\ u.aliases = p.aliases /\ u.narrowed = p.narrowed /\ u.slot = p.slot
      BY <2>3, FieldNames DEF Keeping
    <2> PICK x : x = Narrowed(u)
      OBVIOUS
    <2>5. Keeping(u, x, {"aliases", "narrowed"}) /\ x.aliases = TRUE /\ x.narrowed = Append(u.narrowed, u.slot)
      BY <2>4, FieldNames DEF Narrowed, Keeping, Shape
    <2>6. Keeping(p, x, {"space", "aliases", "narrowed"})
      BY <2>3, <2>5 DEF Keeping
    <2>7. q = p \/ q = u \/ \E m \in 0..L : q = MarkMapped(x, First(LoadOrder, m))
      BY <1>3 DEF map_prepared_pages
    <2>8. CASE q = p
      BY <2>1, <2>8
    <2>9. CASE q = u
      <3>1. Filled(b, q, A, {})
        <4>1. /\ q.pages = p.pages /\ q.tables = p.tables /\ q.frames = p.frames
          BY <2>3, <2>9, FieldNames DEF Keeping
        <4>2. Keeping(b, q, {"pages", "tables", "frames", "space", "aliases", "narrowed", "threads", "calls", "ok"})
          BY <2>1, <2>3, <2>9 DEF Filled, Keeping
        <4> QED
          BY <2>1, <4>1, <4>2 DEF Filled
      <3>2. Aliased(b, q)
        BY <2>1, <2>4, <2>9 DEF Aliased
      <3> QED
        BY <3>1, <3>2
    <2>10. CASE \E m \in 0..L : q = MarkMapped(x, First(LoadOrder, m))
      <3> PICK m \in 0..L : q = MarkMapped(x, First(LoadOrder, m))
        BY <2>10
      <3> PICK S : S = First(LoadOrder, m)
        OBVIOUS
      <3>1. S \subseteq A
        BY FirstFew
      <3>2. q = MarkMapped(x, S)
        OBVIOUS
      <3>3. Filled(b, q, A, S) /\ q.aliases = x.aliases /\ q.narrowed = x.narrowed
        BY <2>1, <2>6, <3>1, <3>2, MarkedFills
      <3>4. Aliased(b, q)
        BY <2>1, <2>2, <2>4, <2>5, <3>3 DEF Aliased
      <3> QED
        BY <3>3, <3>4
    <2> QED
      BY <2>7, <2>8, <2>9, <2>10
  <1> QED
    BY <1>1, <1>2, <1>3 DEF FailedLoads
-----------------------------------------------------------------------------
(* The steps that load a process.                                          *)

LEMMA FreeSlot ==
  ASSUME IInv, FreeSlots # {}, NEW s, s = Min(FreeSlots), ResourceAssumption
  PROVE  s \in Slot /\ s \notin Live
  <1>1. FreeSlots \subseteq Nat
    BY DEF FreeSlots, Slot, ResourceAssumption
  <1>2. \E m \in FreeSlots : \A n \in FreeSlots : m <= n
    BY <1>1, LeastNatural
  <1>3. s \in FreeSlots
    BY <1>2 DEF Min
  <1> QED
    BY <1>3 DEF FreeSlots, Live

LEMMA SpawnFailsStep ==
  ASSUME IInv, ResourceAssumption, native_process_spawn_fails
  PROVE  IInv'
  <1> PICK s : s = Min(FreeSlots)
    OBVIOUS
  <1> PICK b : b = World(s)
    OBVIOUS
  <1>1. s \in Slot /\ s \notin Live
    BY FreeSlot DEF native_process_spawn_fails
  <1>2. Blank(b) /\ b.slot = s /\ b.narrowed = ages
    BY <1>1, EmptyWorld
  <1> PICK draws \in BOOLEAN : draws = TRUE
    OBVIOUS
  <1>3. PICK q \in FailedLoads(b) : Cleaned(process_cleanup(Then(q), draws))
    BY DEF native_process_spawn_fails
  <1>4. UNCHANGED <<ages, scheduler_active, reaping>>
    BY DEF native_process_spawn_fails
  <1>5. PICK A, M : Filled(b, q, A, M) /\ Aliased(b, q)
    BY ONLY <1>2, <1>3, ResourceAssumption, FailedLoadFills
  <1> PICK w : w = Then(q)
    OBVIOUS
  <1> PICK v : v = process_cleanup(w, draws)
    OBVIOUS
  <1>6. Shape(q) /\ q.draws = b.draws
    BY <1>2, <1>5, FilledFields
  <1>7. Keeping(q, w, {"ok"}) /\ w.ok = TRUE
    BY <1>6, ThenGives
  <1>8. /\ Filled(b, w, A, M) /\ Aliased(b, w)
    <2>1. /\ w.pages = q.pages /\ w.tables = q.tables /\ w.frames = q.frames
          /\ w.aliases = q.aliases /\ w.narrowed = q.narrowed
      BY <1>7, FieldNames DEF Keeping
    <2>2. Keeping(b, w, {"pages", "tables", "frames", "space", "aliases", "narrowed", "threads", "calls", "ok"})
      BY <1>5, <1>7 DEF Filled, Keeping
    <2>3. Filled(b, w, A, M)
      BY <1>5, <2>1, <2>2 DEF Filled
    <2>4. Aliased(b, w)
      BY <1>5, <2>1 DEF Aliased
    <2> QED
      BY <2>3, <2>4
  <1>9. /\ Mapping(w) /\ Others(w.frames, b.slot) = Others(b.frames, b.slot) /\ w.slot = s
        /\ Shape(w) /\ w.draws = b.draws
    BY <1>2, <1>8, FilledMaps, FilledFields
  <1>10. drawn \in BOOLEAN /\ ages \in Seq(Slot)
    BY DEF IInv, Shapes, AgesKept
  <1>11. Closable(w, drawn)
    <2>1. /\ SurfaceHeld(w) /\ WindowKept(w) /\ Objects(w) /\ Streams(w) /\ WindowsHeld(w, drawn)
      BY <1>2, <1>8, FilledParts
    <2>2. w.ok \in BOOLEAN /\ w.ok /\ w.draws \in BOOLEAN /\ w.draws
      BY <1>2, <1>7, <1>9 DEF Blank
    <2> QED
      BY <1>9, <1>10, <2>1, <2>2 DEF Closable
  <1>12. /\ w.aliases => w.narrowed # <<>> /\ Last(w.narrowed) = w.slot
         /\ (IF w.aliases THEN Front(w.narrowed) ELSE w.narrowed) = ages
    <2>1. CASE w.aliases
      <3>1. w.narrowed = Append(ages, s)
        BY <1>2, <1>8, <2>1 DEF Aliased
      <3>2. w.narrowed # <<>> /\ Last(w.narrowed) = s /\ Front(w.narrowed) = ages
        BY <1>1, <1>10, <3>1, AppendedBack
      <3> QED
        BY <1>9, <2>1, <3>2
    <2>2. CASE ~w.aliases
      BY <1>2, <1>8, <2>2 DEF Aliased
    <2> QED
      BY <2>1, <2>2
  <1>13. Swept(w, v, drawn)
    BY ONLY <1>11, <1>12, v = process_cleanup(w, draws), draws \in BOOLEAN, ResourceAssumption, CleanupGives
  <1>14. /\ FramesLocal(b, v) /\ HeapLocal(b, v) /\ SocketsLocal(b, v) /\ UiLocal(b, v)
         /\ FilesLocal(b, v) /\ NothingOf(v)
    <2> PICK c : c = {"pages", "tables", "frames", "space", "aliases", "narrowed", "threads", "calls", "ok"}
      OBVIOUS
    <2>1. Keeping(b, w, c) /\ c \cap {"slot", "heap", "files", "sockets", "ui", "handles"} = {}
      BY <1>8 DEF Filled
    <2>2. Finite(b)
      BY <1>2 DEF Blank
    <2> QED
      BY ONLY <1>9, <1>13, <2>1, <2>2, ResourceAssumption, SweptLeaves
  <1>15. /\ Shape(v) /\ v.slot = s /\ v.narrowed = ages /\ v.draws \in BOOLEAN /\ v.ok \in BOOLEAN
         /\ (drawn /\ v.draws => v.ok)
    BY <1>9, <1>12, <1>13 DEF Swept
  <1>16. /\ Stored(v) /\ cleanups' = (cleanups /\ v.ok) /\ drawn' = (drawn /\ v.draws)
    BY <1>3 DEF Cleaned
  <1> PICK e \in BOOLEAN : e = (drawn /\ v.draws)
    OBVIOUS
  <1>17. drawn' = e /\ (e => drawn) /\ (e => cleanups') /\ cleanups' \in BOOLEAN
    BY <1>15, <1>16 DEF IInv, Shapes
  <1>18. {scheduler_active', reaping'} \subseteq BOOLEAN
    BY <1>4 DEF IInv, Shapes
  <1> PICK after : after = ages
    OBVIOUS
  <1>19. /\ after \in Seq(Slot) /\ ages' = after /\ v.narrowed = after
         /\ \A i, j \in 1..Len(after) : after[i] = after[j] => i = j
    BY <1>4, <1>10, <1>15 DEF IInv, AgesKept
  <1>20. Range(after) \ {s} = Live \ {s} /\ s \notin Range(after)
    BY <1>1 DEF Live
  <1> QED
    BY <1>1, <1>14, <1>15, <1>16, <1>17, <1>18, <1>19, <1>20, PlaceKeeps
(* The world that a load stores in the end.                                *)
LoadedWorld(b, program) ==
  [MarkMapped(Narrowed(Prepared(b, Len(LoadOrder))), Range(LoadOrder))
     EXCEPT !.space = TRUE, !.threads = 1, !.calls = program]

LEMMA LoadedWorldFills ==
  ASSUME NEW b, Blank(b), ResourceAssumption, allocate_page(b, LoadOrder, Len(LoadOrder)),
         NEW program, NEW v, v = LoadedWorld(b, program)
  PROVE  /\ Filled(b, v, Range(LoadOrder), Range(LoadOrder))
         /\ v.threads = 1 /\ v.space /\ v.aliases /\ v.narrowed = Append(b.narrowed, b.slot)
  <1> PICK L \in Nat : L = Len(LoadOrder)
    <2>1. LoadOrder \in Seq(Range(LoadOrder))
      BY LoadPart
    <2> QED
      BY <2>1
  <1> PICK R : R = Range(LoadOrder)
    OBVIOUS
  <1> PICK p : p = Prepared(b, L)
    OBVIOUS
  <1> PICK x : x = Narrowed(p)
    OBVIOUS
  <1> PICK q : q = MarkMapped(x, R)
    OBVIOUS
  <1>1. First(LoadOrder, L) = R
    BY LoadPart, FirstAll
  <1>2. Filled(b, p, R, {}) /\ p.narrowed = b.narrowed
    <2>1. L \in 0..Len(LoadOrder) /\ allocate_page(b, LoadOrder, L)
      OBVIOUS
    <2>2. Filled(b, p, First(LoadOrder, L), {}) /\ p.narrowed = b.narrowed
      BY <2>1, PreparedFills
    <2> QED
      BY <1>1, <2>2
  <1>3. Shape(p) /\ p.slot = b.slot
    BY <1>2, FilledFields
  <1>4. Keeping(p, x, {"aliases", "narrowed"}) /\ x.aliases = TRUE /\ x.narrowed = Append(p.narrowed, p.slot)
    BY <1>3, FieldNames DEF Narrowed, Keeping, Shape
  <1>5. Keeping(p, x, {"space", "aliases", "narrowed"})
    BY <1>4, KeepingMore
  <1>6. Filled(b, q, R, R) /\ q.aliases = x.aliases /\ q.narrowed = x.narrowed
    BY <1>2, <1>5, MarkedFills
  <1>7. Shape(q)
    BY <1>6, FilledFields
  <1>8. v = [q EXCEPT !.space = TRUE, !.threads = 1, !.calls = program]
    BY DEF LoadedWorld
  <1>9. Keeping(q, v, {"space", "threads", "calls"}) /\ v.space = TRUE /\ v.threads = 1
    BY <1>7, <1>8, FieldNames DEF Keeping, Shape
  <1>10. /\ v.pages = q.pages /\ v.tables = q.tables /\ v.frames = q.frames
         /\ v.aliases = q.aliases /\ v.narrowed = q.narrowed
    BY <1>9, FieldNames DEF Keeping
  <1>11. Keeping(b, v, {"pages", "tables", "frames", "space", "aliases", "narrowed", "threads", "calls", "ok"})
    BY <1>6, <1>9 DEF Filled, Keeping
  <1>12. Filled(b, v, R, R)
    BY <1>6, <1>10, <1>11 DEF Filled
  <1> QED
    BY <1>2, <1>3, <1>4, <1>6, <1>9, <1>10, <1>12

LEMMA SpawnStep ==
  ASSUME IInv, ResourceAssumption, NEW program, native_process_spawn(program)
  PROVE  IInv'
  <1> PICK s : s = Min(FreeSlots)
    OBVIOUS
  <1> PICK b : b = World(s)
    OBVIOUS
  <1> PICK v : v = LoadedWorld(b, program)
    OBVIOUS
  <1> PICK R : R = Range(LoadOrder)
    OBVIOUS
  <1> PICK after : after = Append(ages, s)
    OBVIOUS
  <1>1. s \in Slot /\ s \notin Live
    BY FreeSlot DEF native_process_spawn
  <1>2. Blank(b) /\ b.slot = s /\ b.narrowed = ages
    BY <1>1, EmptyWorld
  <1>3. /\ allocate_page(b, LoadOrder, Len(LoadOrder)) /\ Stored(v) /\ ages' = after
        /\ UNCHANGED <<scheduler_active, reaping, cleanups, drawn>>
    BY DEF native_process_spawn, LoadedWorld
  <1>4. /\ Filled(b, v, R, R)
        /\ v.threads = 1 /\ v.space /\ v.aliases /\ v.narrowed = after
    BY <1>2, <1>3, LoadedWorldFills
  <1>5. Mapping(v) /\ Others(v.frames, b.slot) = Others(b.frames, b.slot) /\ v.slot = s /\ Shape(v)
    BY <1>2, <1>4, FilledMaps, FilledFields
  <1>6. /\ SurfaceHeld(v) /\ WindowKept(v) /\ Objects(v) /\ Streams(v) /\ ThreadsHeld(v) /\ WindowsHeld(v, drawn)
    BY <1>2, <1>4, FilledParts
  <1>7. Loaded(v)
    <2>1. v.threads \in Nat \ {0} /\ \A t \in 0..(v.threads - 1) : t = 0
      BY <1>4
    <2>2. v.tables = R /\ DOMAIN v.pages = R
      BY <1>4 DEF Filled
    <2>3. Range(Stack(0)) \subseteq R
      BY LoadPart
    <2>4. \A t \in 0..(v.threads - 1) : Range(Stack(t)) \subseteq v.tables
      BY <2>1, <2>2, <2>3
    <2>5. \A a \in DOMAIN v.pages : v.pages[a].kind # "ANON"
      BY <1>4, <2>2 DEF Filled, LoadKinds
    <2>6. \A a \in DOMAIN v.pages : a[1] = "stack" => a[2] \in 0..(v.threads - 1)
      <3>1. \A a \in R : a[1] = "stack" => a[2] = 0
        BY LoadPart, StackPart
      <3> QED
        BY <1>4, <2>2, <3>1
    <2> QED
      BY <2>1, <2>2, <2>4, <2>5, <2>6 DEF Loaded
  <1>8. Books(v, drawn)
    BY <1>5, <1>6, <1>7 DEF Books
  <1>9. /\ FramesLocal(b, v) /\ HeapLocal(b, v) /\ SocketsLocal(b, v) /\ UiLocal(b, v) /\ FilesLocal(b, v)
    <2> PICK c : c = {"pages", "tables", "frames", "space", "aliases", "narrowed", "threads", "calls", "ok"}
      OBVIOUS
    <2>1. Keeping(b, v, c) /\ IsFiniteSet(v.frames) /\ Cardinality(v.frames) <= FrameCount
      BY <1>4 DEF Filled
    <2>2. Finite(b)
      BY <1>2 DEF Blank
    <2>3. FramesLocal(b, v)
      BY <1>5, <2>1 DEF FramesLocal
    <2>4. /\ c \cap {"heap"} = {} => HeapLocal(b, v)
          /\ c \cap {"sockets"} = {} => SocketsLocal(b, v)
          /\ c \cap {"ui"} = {} => UiLocal(b, v)
          /\ c \cap {"handles", "files"} = {} => FilesLocal(b, v)
      BY <2>1, <2>2, LocalKept
    <2> QED
      BY <2>3, <2>4
  <1>10. /\ after \in Seq(Slot) /\ Range(after) = Live \cup {s}
         /\ \A i, j \in 1..Len(after) : after[i] = after[j] => i = j
    <2>1. /\ ages \in Seq(Slot) /\ \A i, j \in 1..Len(ages) : ages[i] = ages[j] => i = j
      BY DEF IInv, AgesKept
    <2>2. s \notin Range(ages)
      BY <1>1 DEF Live
    <2>3. /\ after \in Seq(Slot) /\ Range(after) = Range(ages) \cup {s}
          /\ \A i, j \in 1..Len(after) : after[i] = after[j] => i = j
      <3>1. Lengthened(Slot, ages, s, after)
        BY ONLY <1>1, <2>1, <2>2, after = Append(ages, s), AppendLengthens
      <3> QED
        BY ONLY <3>1 DEF Lengthened
    <2> QED
      BY <2>3 DEF Live
  <1>11. /\ drawn \in BOOLEAN /\ drawn' = drawn /\ (drawn => cleanups') /\ cleanups' \in BOOLEAN
         /\ {scheduler_active', reaping'} \subseteq BOOLEAN
    <2>1. /\ drawn \in BOOLEAN /\ (drawn => cleanups) /\ cleanups \in BOOLEAN
          /\ {scheduler_active, reaping} \subseteq BOOLEAN
      BY DEF IInv, Shapes
    <2> QED
      BY ONLY <1>3, <2>1
  <1> PICK e \in BOOLEAN : e = drawn
    BY <1>11
  <1>12. drawn' = e /\ (e => drawn) /\ (e => cleanups')
    BY <1>11
  <1>13. Books(v, e)
    BY <1>8
  <1>14. Range(after) \ {s} = Live \ {s} /\ s \in Range(after)
    BY <1>10
  <1>15. s \in Range(after) => Books(v, e) /\ v.space /\ v.aliases
    BY <1>4, <1>13
  <1>16. s \notin Range(after) => NothingOf(v)
    BY <1>14
  <1>17. ages' = after /\ v.narrowed = after /\ Stored(v)
    BY <1>3, <1>4
  <1>18. Range(after) \ {s} = Live \ {s}
    BY <1>14
  <1> QED
    BY ONLY IInv, b = World(s), e \in BOOLEAN,
            <1>1, <1>5, <1>9, <1>10, <1>11, <1>12, <1>15, <1>16, <1>17, <1>18, PlaceKeeps
-----------------------------------------------------------------------------
(* The invariant.                                                          *)

(* The scheduler's own steps touch nothing of a process.                   *)
LEMMA SameKeeps ==
  ASSUME IInv, process' = process, machine' = machine, ages' = ages, cleanups' = cleanups,
         drawn' = drawn, {scheduler_active', reaping'} \subseteq BOOLEAN
  PROVE  IInv'
  <1>1. Live' = Live
    BY DEF Live
  <1>2. \A s : World(s)' = World(s)
    BY DEF World
  <1>3. \A s, t : Holds(s, t)' = Holds(s, t)
    BY DEF Holds
  <1>4. Shapes'
    BY DEF IInv, Shapes
  <1>5. Finite(machine')
    BY DEF IInv
  <1>6. AgesKept'
    BY DEF IInv, AgesKept
  <1>7. LiveKept'
    BY <1>1, <1>2 DEF IInv, LiveKept
  <1>8. DeadCleared'
    BY <1>1 DEF IInv, DeadCleared
  <1>9. NothingForeign'
    BY <1>1, <1>3 DEF IInv, NothingForeign
  <1>10. FilesApart'
    BY <1>1, <1>3 DEF IInv, FilesApart
  <1>11. drawn' => cleanups'
    BY DEF IInv
  <1> QED
    BY <1>4, <1>5, <1>6, <1>7, <1>8, <1>9, <1>10, <1>11 DEF IInv

LEMMA InitBooks ==
  ASSUME Init, ResourceAssumption
  PROVE  IInv
  <1>1. /\ process = [s \in Slot |-> NoProcess] /\ machine = NoResources /\ ages = <<>>
        /\ scheduler_active = FALSE /\ reaping = FALSE /\ cleanups = TRUE /\ drawn = TRUE
    BY DEF Init
  <1>2. Live = {}
    BY <1>1 DEF Live, Range
  <1>3. /\ machine.frames = {} /\ machine.heap = {} /\ machine.narrowed = <<>> /\ machine.files = {}
        /\ machine.sockets = {} /\ machine.ui = {} /\ DOMAIN machine = MachineFields
    BY <1>1 DEF NoResources, MachineFields
  <1>4. Shapes
    BY <1>1, <1>3, NamesOfFields DEF Shapes
  <1>5. Finite(machine)
    <2>1. IsFiniteSet({}) /\ Cardinality({}) = 0 /\ FrameCount \in Nat
      BY FS_EmptySet DEF ResourceAssumption
    <2> QED
      BY <1>3, <2>1 DEF Finite
  <1>6. AgesKept
    BY <1>1, <1>3 DEF AgesKept
  <1>7. LiveKept /\ FilesApart
    BY <1>2 DEF LiveKept, FilesApart
  <1>8. DeadCleared
    BY <1>1 DEF DeadCleared
  <1>9. NothingForeign
    BY <1>3 DEF NothingForeign
  <1> QED
    BY <1>1, <1>4, <1>5, <1>6, <1>7, <1>8, <1>9 DEF IInv

LEMMA NextBooks ==
  ASSUME IInv, ResourceAssumption, [Next]_vars
  PROVE  IInv'
  <1>1. CASE \E program \in Programs : native_process_spawn(program)
    BY <1>1, SpawnStep
  <1>2. CASE native_process_spawn_fails
    BY <1>2, SpawnFailsStep
  <1>3. CASE native_process_run
    BY <1>3, SameKeeps DEF native_process_run, IInv, Shapes
  <1>4. CASE native_process_run_round
    BY <1>4, SameKeeps DEF native_process_run_round, IInv, Shapes
  <1>5. CASE native_process_run_ends
    BY <1>5, SameKeeps DEF native_process_run_ends
  <1>6. CASE \E draws \in BOOLEAN : reap(draws)
    BY <1>6, ReapStep
  <1>7. CASE \E s \in Slot : SystemCall(s)
    BY <1>7, CallsKeep
  <1>8. CASE UNCHANGED vars
    BY <1>8, SameKeeps DEF vars, IInv, Shapes
  <1> QED
    BY <1>1, <1>2, <1>3, <1>4, <1>5, <1>6, <1>7, <1>8 DEF Next

(* Whatever calls, loads and cleanups of native_process.c fail half-way,   *)
(* the books of every live process agree with the machine, and no slot     *)
(* without a process has anything: for every number of processes and       *)
(* frames and every limit of the manifest.                                 *)
THEOREM BooksInductive == Spec => []IInv
  <1>1. Init => IInv
    BY InitBooks, ResourceAssumption
  <1>2. IInv /\ [Next]_vars => IInv'
    BY NextBooks, ResourceAssumption
  <1> QED
    BY <1>1, <1>2, PTL DEF Spec

-----------------------------------------------------------------------------
(* What it says of the accounts, and of what is left behind.               *)

(* The fields of a live process and of the machine, as the books see them. *)
LEMMA LiveWorld ==
  ASSUME IInv, NEW s \in Live, NEW w, w = World(s)
  PROVE  /\ Books(w, drawn) /\ w.slot = s /\ s \in Slot
         /\ w.pages = process[s].pages /\ w.tables = process[s].tables
         /\ w.threads = process[s].threads /\ w.directories = process[s].directories
         /\ w.window = process[s].window /\ w.handles = process[s].handles
         /\ w.frames = machine.frames /\ w.heap = machine.heap /\ w.files = machine.files
         /\ w.sockets = machine.sockets /\ w.ui = machine.ui
         /\ \A t : Held(w, t) = Holds(s, t)
  <1>1. /\ s \in Slot /\ Ready(w, drawn) /\ w.slot = s
        /\ \A f \in ProcessFields : w[f] = process[s][f]
        /\ \A f \in MachineFields : w[f] = machine[f]
    BY ReadyWorld
  <1>2. w.handles = process[s].handles
    BY <1>1, NamesOfFields
  <1> QED
    BY <1>1, <1>2, HeldOf, NamesOfFields DEF Ready

LEMMA PagesAreBacked ==
  ASSUME IInv
  PROVE  PagesBacked
  <1> SUFFICES ASSUME NEW s \in Live
               PROVE  /\ process[s].tables = {a \in DOMAIN process[s].pages : process[s].pages[a].mapped}
                      /\ \A a \in DOMAIN process[s].pages : <<s, a>> \in machine.frames
                      /\ Range(LoadOrder) \subseteq process[s].tables
                      /\ \A t \in 0..(process[s].threads - 1) : Range(Stack(t)) \subseteq process[s].tables
    BY DEF PagesBacked, Live
  <1> PICK w : w = World(s)
    OBVIOUS
  <1>1. /\ Books(w, drawn) /\ w.slot = s
        /\ w.pages = process[s].pages /\ w.tables = process[s].tables
        /\ w.threads = process[s].threads /\ w.frames = machine.frames
    BY LiveWorld
  <1>2. Mapping(w) /\ Loaded(w)
    BY <1>1 DEF Books
  <1>3. \A a \in DOMAIN w.pages : <<s, a>> \in w.frames
    <2>1. Own(w.frames, s) = Owned(w, DOMAIN w.pages)
      BY <1>1, <1>2 DEF Mapping
    <2> QED
      BY <1>1, <2>1 DEF Own, Owned
  <1> QED
    BY <1>1, <1>2, <1>3 DEF Mapping, Loaded

LEMMA HandlesDoLead ==
  ASSUME IInv
  PROVE  HandlesLead
  <1> SUFFICES ASSUME NEW s \in Live, NEW p, p = process[s], NEW x, x = p.window
               PROVE  /\ \A t \in Live \ {s} : Holds(s, "FILE") \cap Holds(t, "FILE") = {}
                      /\ Holds(s, "DIRECTORY") = p.directories
                      /\ Holds(s, "SOCKET") = {y[2] : y \in {f \in machine.sockets : f[1] = s}}
                      /\ Holds(s, "THREAD") \subseteq 1..(p.threads - 1)
                      /\ Holds(s, "EVENT_QUEUE") = IF x.event_object_open THEN {x.generation} ELSE {}
                      /\ x.window_object_open => x.generation \in Holds(s, "WINDOW")
                      /\ drawn => Holds(s, "WINDOW") = IF x.window_object_open THEN {x.generation} ELSE {}
                      /\ x.allocated = (x.window_object_open \/ x.event_object_open)
    BY DEF HandlesLead, Live
  <1> PICK w : w = World(s)
    OBVIOUS
  <1>1. /\ Books(w, drawn) /\ w.slot = s
        /\ w.threads = p.threads /\ w.directories = p.directories
        /\ w.window = x /\ w.sockets = machine.sockets
        /\ \A t : Held(w, t) = Holds(s, t)
    BY LiveWorld
  <1>2. Streams(w) /\ ThreadsHeld(w) /\ WindowsHeld(w, drawn) /\ WindowKept(w)
    BY <1>1 DEF Books
  <1>3. Holds(s, "SOCKET") = {y[2] : y \in {f \in machine.sockets : f[1] = s}}
    <2>1. Owned(w, Holds(s, "SOCKET")) = Own(machine.sockets, s)
      BY <1>1, <1>2 DEF Streams
    <2>2. \A i \in Holds(s, "SOCKET") : <<s, i>> \in {f \in machine.sockets : f[1] = s} /\ <<s, i>>[2] = i
      BY <1>1, <2>1 DEF Owned, Own
    <2>3. \A y \in {f \in machine.sockets : f[1] = s} : y[2] \in Holds(s, "SOCKET")
      <3> SUFFICES ASSUME NEW y \in machine.sockets, y[1] = s PROVE y[2] \in Holds(s, "SOCKET")
        OBVIOUS
      <3>1. y \in Owned(w, Holds(s, "SOCKET"))
        BY <2>1 DEF Own
      <3> QED
        BY <3>1 DEF Owned
    <2> QED
      BY <2>2, <2>3
  <1>4. \A t \in Live \ {s} : Holds(s, "FILE") \cap Holds(t, "FILE") = {}
    BY DEF IInv, FilesApart
  <1>5. Holds(s, "DIRECTORY") = p.directories /\ Holds(s, "THREAD") \subseteq 1..(p.threads - 1)
    BY <1>1, <1>2 DEF Streams, ThreadsHeld
  <1>6. /\ Holds(s, "EVENT_QUEUE") = IF x.event_object_open THEN {x.generation} ELSE {}
        /\ x.window_object_open => x.generation \in Holds(s, "WINDOW")
        /\ drawn => Holds(s, "WINDOW") = IF x.window_object_open THEN {x.generation} ELSE {}
    BY <1>1, <1>2 DEF WindowsHeld
  <1>7. x.allocated = (x.window_object_open \/ x.event_object_open)
    BY <1>1, <1>2 DEF WindowKept
  <1> QED
    BY <1>3, <1>4, <1>5, <1>6, <1>7
LEMMA ScreenIsBacked ==
  ASSUME IInv, ResourceAssumption
  PROVE  ScreenBacked
  <1>1. ASSUME NEW s \in machine.ui
        PROVE  s \in Live /\ process[s].window.window_object_open /\ <<s, "pixels">> \in machine.heap
    <2>1. s \in Live
      BY DEF IInv, NothingForeign
    <2> PICK w : w = World(s)
      OBVIOUS
    <2>2. /\ Books(w, drawn) /\ w.slot = s /\ w.window = process[s].window
          /\ w.heap = machine.heap /\ w.ui = machine.ui
      BY <2>1, LiveWorld
    <2> QED
      BY <2>1, <2>2 DEF Books, WindowKept
  <1>2. ASSUME NEW s \in Live
        PROVE  Range(Surface) \cap process[s].tables =
                 IF process[s].window.window_object_open THEN Range(Surface) ELSE {}
    <2> PICK w : w = World(s)
      OBVIOUS
    <2>1. /\ Books(w, drawn) /\ w.window = process[s].window /\ w.tables = process[s].tables
      BY LiveWorld
    <2>2. SurfaceHeld(w) /\ w.tables \subseteq DOMAIN w.pages
      BY <2>1 DEF Books, Mapping
    <2>3. w.window.window_object_open => Range(Surface) \subseteq w.tables
      BY <2>2 DEF SurfaceHeld
    <2>4. ~w.window.window_object_open => Range(Surface) \cap w.tables = {}
      BY <2>2, SurfacePart DEF SurfaceHeld
    <2> QED
      BY <2>1, <2>3, <2>4
  <1> QED
    BY <1>1, <1>2 DEF ScreenBacked, Live

LEMMA BooksAccount ==
  ASSUME IInv, ResourceAssumption
  PROVE  ResourcesAccounted
  <1>1. TypeOK
    BY NamesOfFields DEF IInv, Shapes, Finite, TypeOK
  <1> QED
    BY <1>1, PagesAreBacked, HandlesDoLead, ScreenIsBacked DEF ResourcesAccounted

LEMMA NothingIsLeft ==
  ASSUME IInv
  PROVE  TeardownComplete
  <1>1. machine.frames = UNION {{<<s, a>> : a \in DOMAIN process[s].pages} : s \in Live}
    <2>1. ASSUME NEW s \in Live
          PROVE  {<<s, a>> : a \in DOMAIN process[s].pages} = Own(machine.frames, s)
      <3> PICK w : w = World(s)
        OBVIOUS
      <3>1. Books(w, drawn) /\ w.slot = s /\ w.pages = process[s].pages /\ w.frames = machine.frames
        BY LiveWorld
      <3> QED
        BY <3>1 DEF Books, Mapping, Owned
    <2>2. \A x \in machine.frames : x[1] \in Live /\ x \in Own(machine.frames, x[1])
      BY DEF IInv, NothingForeign, Own
    <2>3. \A s \in Live : Own(machine.frames, s) \subseteq machine.frames
      BY DEF Own
    <2>4. machine.frames = UNION {Own(machine.frames, s) : s \in Live}
      BY <2>2, <2>3
    <2>5. {{<<s, a>> : a \in DOMAIN process[s].pages} : s \in Live} = {Own(machine.frames, s) : s \in Live}
      BY <2>1
    <2> QED
      BY <2>4, <2>5
  <1>2. machine.narrowed = ages
    BY DEF IInv, AgesKept
  <1>3. machine.heap = {<<s, "pixels">> : s \in {x \in Live : process[x].window.window_object_open}}
    <2>1. ASSUME NEW s \in Live
          PROVE  <<s, "pixels">> \in machine.heap <=> process[s].window.window_object_open
      <3> PICK w : w = World(s)
        OBVIOUS
      <3>1. Books(w, drawn) /\ w.slot = s /\ w.window = process[s].window /\ w.heap = machine.heap
        BY LiveWorld
      <3> QED
        BY <3>1 DEF Books, WindowKept
    <2>2. \A x \in machine.heap : x = <<x[1], "pixels">> /\ x[1] \in Live
      BY DEF IInv, NothingForeign
    <2> QED
      BY <2>1, <2>2
  <1>4. machine.files = UNION {Holds(s, "FILE") : s \in Live}
    <2>1. ASSUME NEW s \in Live PROVE Holds(s, "FILE") \subseteq machine.files
      <3> PICK w : w = World(s)
        OBVIOUS
      <3>1. Books(w, drawn) /\ w.files = machine.files /\ Held(w, "FILE") = Holds(s, "FILE")
        BY LiveWorld
      <3> QED
        BY <3>1 DEF Books, Streams
    <2>2. \A f \in machine.files : \E s \in Live : f \in Holds(s, "FILE")
      BY DEF IInv, NothingForeign
    <2> QED
      BY <2>1, <2>2
  <1>5. (\A x \in machine.sockets : x[1] \in Live) /\ machine.ui \subseteq Live
    BY DEF IInv, NothingForeign
  <1>6. (\A s \in Slot \ Live : process[s] = NoProcess) /\ (drawn => cleanups)
    BY DEF IInv, DeadCleared
  <1> QED
    BY <1>1, <1>2, <1>3, <1>4, <1>5, <1>6 DEF TeardownComplete, Live

(* Between any two calls every page a process can reach is recorded and    *)
(* backed by a frame of its own, every handle leads to something open, and *)
(* every window on the screen has its pixels and its surface, whatever     *)
(* system call of native_process.c failed half-way before.                 *)
THEOREM AccountsKept == Spec => []ResourcesAccounted
  <1>1. IInv => ResourcesAccounted
    BY BooksAccount, ResourceAssumption
  <1> QED
    BY <1>1, BooksInductive, PTL

(* EXIT in docs/NATIVE_ABI.md: after process_cleanup of a process, or of a *)
(* load that failed, no frame, alias, heap block, file, socket or place on *)
(* the screen is left of it, and what is in use is a live process's.       *)
THEOREM NothingLeft == Spec => []TeardownComplete
  <1>1. IInv => TeardownComplete
    BY NothingIsLeft
  <1> QED
    BY <1>1, BooksInductive, PTL
=============================================================================
