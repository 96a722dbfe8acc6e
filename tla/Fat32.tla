------------------------------- MODULE Fat32 -------------------------------
(***************************************************************************)
(* The writable data volume of src/kernel/fat32_fs.c.  Every operation is  *)
(* a sequence of synchronous one-sector writes (flush_one writes through), *)
(* and the power may fail between any two of them.  The kernel runs one    *)
(* filesystem operation at a time, so the writes of an operation are fixed *)
(* by the volume it starts from: beginning an operation computes them and  *)
(* write_sector performs them one by one.  A call that returns an error    *)
(* before its first write changes nothing and is a stuttering step.        *)
(*                                                                         *)
(* The device may refuse a write.  An error completion leaves the command  *)
(* outstanding (nvme.c), so every later access of that session fails too,  *)
(* and what the operation would do to clean up does not reach the disk:    *)
(* the operation ends where it is.  Whether the refused sector was written *)
(* is unknown.  Cached copies live only as long as one operation and are   *)
(* equal to the disk while no write has failed, so there is no cache here. *)
(***************************************************************************)
EXTENDS Fat32Volume

CONSTANTS MaxHandles,    \* SAPFS_MAX_HANDLES
          FilePaths,     \* bound: the paths sapfs_create is called with
          DirPaths,      \* bound: the paths sapfs_mkdir is called with
          NoHandle,      \* an inactive handle slot
          NoOperation,   \* no operation is active
          Refused, NoGoal

VARIABLES disk,      \* the NVMe namespace
          mount,     \* mounts[SAPFS_VOLUME_DATA]
          handles,   \* handles
          operation, \* the operation under way: its remaining writes
          half,      \* a refused write has ended an operation of this mount
          goal,      \* history: the trees before and after the operation
          shown      \* history: the tree a mount would show, or Refused

vars == <<disk, mount, handles, operation, half, goal, shown>>

NotMounted == [active |-> FALSE, free_clusters |-> 0, next_free |-> 0]

Link == Clusters \cup {FreeLink, EOC}

Write == [to : {"fat"}, copy : 0..1, cluster : Clusters, value : Link,
          count : {"none", "allocate", "release"}]
     \cup [to : {"zero"}, cluster : Clusters, whole : BOOLEAN]
     \cup [to : {"bytes"}, cluster : Clusters]
     \cup [to : {"dots"}, cluster : Clusters, parent : Clusters]
     \cup [to : {"slot"}, pos : Clusters \X (1..Slots),
           entry : [kind : {"file", "dir", "deleted"},
                    name : Names \cup {".", ".."},
                    first : {0} \cup Clusters, size : 0..MaxFileBytes]]
     \cup [to : {"fsinfo"}, copy : 0..1]

(***************************************************************************)
(* The single sector writes.                                               *)
(***************************************************************************)

(* set_fat: the secondary copy first; the mount's count of free clusters   *)
(* changes once both are written.                                          *)
set_fat(cluster, value, count) ==
  <<[to |-> "fat", copy |-> 1, cluster |-> cluster, value |-> value,
     count |-> "none"],
    [to |-> "fat", copy |-> 0, cluster |-> cluster, value |-> value,
     count |-> count]>>

write_directory_entry(pos, entry) == <<[to |-> "slot", pos |-> pos, entry |-> entry]>>

update_location(d, pos, first, size) ==
  write_directory_entry(pos, [EntryAt(d, pos) EXCEPT !.first = first, !.size = size])

mark_deleted(pos) == write_directory_entry(pos, Deleted)

(* zero_chain_bytes over the bytes [from, to) of a chain. *)
zero_chain_bytes(chain, from, to) ==
  LET first == from \div SectorBytes
      last == SectorsFor(to) - 1
      Whole(n) == from <= n * SectorBytes /\ (n + 1) * SectorBytes <= to
  IN IF from >= to THEN <<>>
     ELSE [i \in 1..(last - first + 1) |->
             [to |-> "zero", cluster |-> chain[first + i],
              whole |-> Whole(first + i - 1)]]

(* Applied to the disk.  Only the contents of a partly zeroed sector of    *)
(* file data remain unknown.                                               *)
Written(d, w) ==
  CASE w.to = "fat" -> [d EXCEPT !.fat[w.copy][w.cluster] = w.value]
    [] w.to = "zero" ->
         IF w.whole THEN [d EXCEPT !.data[w.cluster] = Zero] ELSE d
    [] w.to = "bytes" -> [d EXCEPT !.data[w.cluster] = Bytes]
    [] w.to = "dots" ->
         [d EXCEPT !.data[w.cluster] =
            [Zero EXCEPT ![1] = Entry("dir", ".", w.cluster, 0),
                         ![2] = Entry("dir", "..", w.parent, 0)]]
    [] w.to = "slot" -> [d EXCEPT !.data[w.pos[1]][w.pos[2]] = w.entry]

(* write_fsinfo: the primary FSInfo receives new hints, then the backup    *)
(* receives a copy.  The hints matter only in that new ones may be equal   *)
(* to the old ones or differ.                                              *)
WrittenDisks(d, w) ==
  IF w.to = "fsinfo"
  THEN {[d EXCEPT !.fsinfo = equal] : equal \in IF w.copy = 0 THEN {d.fsinfo, FALSE}
                                                ELSE {TRUE}}
  ELSE {Written(d, w)}

(* free_clusters and next_free after a FAT write. *)
Counted(m, w) ==
  IF w.to # "fat" THEN m
  ELSE IF w.count = "none" THEN m
  ELSE IF w.count = "allocate"
  THEN [m EXCEPT !.free_clusters = @ - 1,
                 !.next_free = IF w.cluster = MaxCluster THEN 2 ELSE w.cluster + 1]
  ELSE [m EXCEPT !.free_clusters = @ + 1,
                 !.next_free = IF w.cluster < @ THEN w.cluster ELSE @]

(***************************************************************************)
(* The routines that operations share.  A plan says whether the call       *)
(* succeeds and which sectors it writes; a call that fails with FULL may   *)
(* still have written.                                                     *)
(***************************************************************************)
Plan(ok, writes) == [ok |-> ok, writes |-> writes]
Fails == Plan(FALSE, <<>>)

(* The clusters allocate_cluster would return one after the other. *)
Prefix(seq, n) == SubSeq(seq, 1, Min({n, Len(seq)}))

FreeOrder(d, m) ==
  LET start == IF m.next_free \in Clusters THEN m.next_free ELSE 2
      scan == [i \in 1..ClusterCount |-> 2 + ((start - 2 + i - 1) % ClusterCount)]
  IN Prefix(SelectSeq(scan, LAMBDA c : d.fat[0][c] = FreeLink), m.free_clusters)

(* allocate_cluster: zeroed before either FAT copy says it is in use. *)
allocate_cluster(c) ==
  <<[to |-> "zero", cluster |-> c, whole |-> TRUE]>> \o set_fat(c, EOC, "allocate")

release_chain(chain) ==
  FlattenSeq([i \in DOMAIN chain |-> set_fat(chain[i], FreeLink, "release")])

(* find_or_grow_slot: the free slot the scan saw, or the first slot of a   *)
(* cluster attached to the end of the directory.                           *)
SlotOf(chain, scan, free) ==
  LET No == [ok |-> FALSE, pos |-> <<>>, writes |-> <<>>, free |-> free]
  IN IF scan.status # "not_found" THEN No
     ELSE IF scan.slot # <<>> THEN [No EXCEPT !.ok = TRUE, !.pos = scan.slot]
     ELSE IF free = <<>> THEN No
     ELSE [ok |-> TRUE, pos |-> <<free[1], 1>>, free |-> Tail(free),
           writes |-> allocate_cluster(free[1]) \o set_fat(Last(chain), free[1], "none")]

find_or_grow_slot(d, m, dir, name) ==
  SlotOf(Chain(d.fat[0], dir), scan_directory(d, dir, name), FreeOrder(d, m))

(* ensure_chain: new clusters are allocated and linked among themselves,   *)
(* then attached; if they do not suffice they are released.                *)
Extended_without_release(old, new, need) ==
  LET built == FlattenSeq([i \in DOMAIN new |->
                 allocate_cluster(new[i]) \o
                 (IF i = 1 THEN <<>> ELSE set_fat(new[i - 1], new[i], "none"))])
      attached == IF old = <<>> THEN <<>> ELSE set_fat(Last(old), new[1], "none")
  IN IF Len(new) < need
     THEN [ok |-> FALSE, chain |-> old, writes |-> built]
     ELSE [ok |-> TRUE, chain |-> old \o new, writes |-> built \o attached]

Extended(old, new, need) ==
  LET built == FlattenSeq([i \in DOMAIN new |->
                 allocate_cluster(new[i]) \o
                 (IF i = 1 THEN <<>> ELSE set_fat(new[i - 1], new[i], "none"))])
      attached == IF old = <<>> THEN <<>> ELSE set_fat(Last(old), new[1], "none")
  IN IF Len(new) < need
     THEN [ok |-> FALSE, chain |-> old, writes |-> built \o release_chain(new)]
     ELSE [ok |-> TRUE, chain |-> old \o new, writes |-> built \o attached]

ensure_chain(d, m, first, required) ==
  LET old == Chain(d.fat[0], first)
      need == required - Len(old)
  IN IF ~ChainEnds(d.fat[0], first) THEN [ok |-> FALSE, chain |-> old, writes |-> <<>>]
     ELSE IF need <= 0 THEN [ok |-> TRUE, chain |-> old, writes |-> <<>>]
     ELSE Extended(old, Prefix(FreeOrder(d, m), need), need)

First(chain) == IF chain = <<>> THEN 0 ELSE chain[1]

(* location_open *)
location_open_unchecked(pos) == FALSE

location_open(pos) ==
  \E h \in DOMAIN handles : handles[h] # NoHandle /\ handles[h].pos = pos

(***************************************************************************)
(* The plans of the operations.                                            *)
(***************************************************************************)
(* A name in the slot found for it, if there is one. *)
InSlot(slot, entry) ==
  IF slot.ok THEN Plan(TRUE, slot.writes \o write_directory_entry(slot.pos, entry))
  ELSE Fails

CreatePlan(d, m, path) ==
  LET dir == resolve_parent(d, path)
  IN IF dir = 0 THEN Fails
     ELSE InSlot(find_or_grow_slot(d, m, dir, Last(path)),
                 Entry("file", Last(path), 0, 0))

(* The new directory's sector gets both dot entries in one write. *)
DirectoryIn(slot, dir, name) ==
  LET c == slot.free[1]
  IN IF ~slot.ok THEN Fails
     ELSE IF slot.free = <<>> THEN Plan(FALSE, slot.writes)
     ELSE Plan(TRUE, slot.writes \o allocate_cluster(c)
            \o <<[to |-> "dots", cluster |-> c, parent |-> dir]>>
            \o write_directory_entry(slot.pos, Entry("dir", name, c, 0)))

MkdirPlan(d, m, path) ==
  LET dir == resolve_parent(d, path)
  IN IF dir = 0 THEN Fails
     ELSE DirectoryIn(find_or_grow_slot(d, m, dir, Last(path)), dir, Last(path))

(* Deleted first, so that the entry never leads to free clusters. *)
Erased_release_first(d, pos) ==
  Plan(TRUE, release_chain(Chain(d.fat[0], EntryAt(d, pos).first)) \o mark_deleted(pos))

Erased(d, pos) ==
  Plan(TRUE, mark_deleted(pos) \o release_chain(Chain(d.fat[0], EntryAt(d, pos).first)))

UnlinkPlan(d, path) ==
  LET pos == resolve_path(d, path)
  IN IF pos = <<>> THEN Fails
     ELSE IF EntryAt(d, pos).kind = "dir" \/ location_open(pos) THEN Fails
     ELSE Erased(d, pos)

directory_empty(d, dir) ==
  \A name \in Names : scan_directory(d, dir, name).status # "ok"

RmdirPlan(d, path) ==
  LET pos == resolve_path(d, path)
  IN IF pos = <<>> THEN Fails
     ELSE IF EntryAt(d, pos).kind # "dir" THEN Fails
     ELSE IF ~directory_empty(d, EntryAt(d, pos).first) THEN Fails
     ELSE Erased(d, pos)

(* sapfs_truncate: more clusters, none, fewer, or as many as before. *)
Lengthened(d, pos, grown, size) ==
  IF ~grown.ok THEN Plan(FALSE, grown.writes)
  ELSE Plan(TRUE, grown.writes
         \o zero_chain_bytes(grown.chain, EntryAt(d, pos).size, size)
         \o update_location(d, pos, First(grown.chain), size))

Emptied(d, pos, old) ==
  Plan(TRUE, update_location(d, pos, 0, 0) \o release_chain(old))

Shortened(d, pos, old, required, size) ==
  Plan(TRUE, zero_chain_bytes(old, size, required * SectorBytes)
    \o update_location(d, pos, First(old), size)
    \o set_fat(old[required], EOC, "none")
    \o release_chain(SubSeq(old, required + 1, Len(old))))

Adjusted(d, pos, old, required, size, before) ==
  Plan(TRUE, (IF size >= before THEN zero_chain_bytes(old, before, size)
              ELSE zero_chain_bytes(old, size, required * SectorBytes))
    \o update_location(d, pos, First(old), size))

TruncatedTo(d, m, pos, old, required, size) ==
  IF required > Len(old)
  THEN Lengthened(d, pos, ensure_chain(d, m, First(old), required), size)
  ELSE IF required = 0 THEN Emptied(d, pos, old)
  ELSE IF required < Len(old) THEN Shortened(d, pos, old, required, size)
  ELSE Adjusted(d, pos, old, required, size, EntryAt(d, pos).size)

TruncatePlan(d, m, path, size) ==
  LET pos == resolve_path(d, path)
  IN IF pos = <<>> THEN Fails
     ELSE IF EntryAt(d, pos).kind = "dir" \/ location_open(pos) THEN Fails
     ELSE TruncatedTo(d, m, pos, Chain(d.fat[0], EntryAt(d, pos).first),
                      SectorsFor(size), size)

(* destination_inside_directory: follows .. from the new parent. *)
destination_inside_directory(d, dir, parent) ==
  LET up[n \in 0..MaxDepth] ==
        IF n = 0 THEN parent
        ELSE LET below == up[n - 1]
                 s == scan_directory(d, below, "..")
             IN IF below = Root \/ below = dir THEN below
                ELSE IF s.status = "ok" THEN EntryAt(d, s.pos).first ELSE Root
  IN up[MaxDepth] = dir

(* sapfs_rename: a moved directory's .. first, then the new name, then the *)
(* old name is deleted.                                                    *)
MovedTo_deleting_first(d, pos, e, slot, dir, name) ==
  IF ~slot.ok THEN Fails
  ELSE Plan(TRUE, slot.writes
         \o (IF e.kind = "dir"
             THEN update_location(d, scan_directory(d, e.first, "..").pos, dir, 0)
             ELSE <<>>)
         \o mark_deleted(pos)
         \o write_directory_entry(slot.pos, [e EXCEPT !.name = name]))

MovedTo(d, pos, e, slot, dir, name) ==
  IF ~slot.ok THEN Fails
  ELSE Plan(TRUE, slot.writes
         \o (IF e.kind = "dir"
             THEN update_location(d, scan_directory(d, e.first, "..").pos, dir, 0)
             ELSE <<>>)
         \o write_directory_entry(slot.pos, [e EXCEPT !.name = name])
         \o mark_deleted(pos))

RenamePlan(d, m, source, destination) ==
  LET pos == resolve_path(d, source)
      dir == resolve_parent(d, destination)
      e == EntryAt(d, pos)
  IN IF pos = <<>> \/ dir = 0 THEN Fails
     ELSE IF location_open(pos) THEN Fails
     ELSE IF e.kind = "dir" /\ destination_inside_directory(d, e.first, dir) THEN Fails
     ELSE MovedTo(d, pos, e, find_or_grow_slot(d, m, dir, Last(destination)), dir,
                  Last(destination))

(* sapfs_write of the bytes [from, to), with handle_location's check that  *)
(* the entry is still the one the handle was opened on.                    *)
WritePlan(d, m, h, from, to) ==
  LET e == EntryAt(d, h.pos)
      grown == ensure_chain(d, m, h.first, SectorsFor(to))
      first == from \div SectorBytes
      data == [i \in 1..(SectorsFor(to) - first) |->
                 [to |-> "bytes", cluster |-> grown.chain[first + i]]]
  IN IF ~Live(e) \/ e.first # h.first \/ e.size # h.size THEN Fails
     ELSE IF ~grown.ok THEN Plan(FALSE, grown.writes)
     ELSE Plan(TRUE, grown.writes \o data \o
            update_location(d, h.pos, First(grown.chain), Max({h.size, to})))

(***************************************************************************)
(* Behaviour.                                                              *)
(***************************************************************************)
Tree == INSTANCE FileTree WITH Sizes <- 0..MaxFileBytes

Shown(d) == IF Mountable(d) THEN TreeOf(d) ELSE Refused

Init ==
  /\ disk = [fat |-> [copy \in 0..1 |->
                        [c \in Clusters |-> IF c = Root THEN EOC ELSE FreeLink]],
             data |-> [c \in Clusters |-> Zero],
             fsinfo |-> TRUE]
  /\ mount = NotMounted
  /\ handles = [h \in 1..MaxHandles |-> NoHandle]
  /\ operation = NoOperation
  /\ half = FALSE
  /\ goal = NoGoal
  /\ shown = Shown(disk)

Idle == operation = NoOperation /\ mount.active

(* begin_operation.  A volume that a refused write left half updated is    *)
(* not operated on further (bound): what is asked is what the next mount   *)
(* makes of it.                                                            *)
Begin(plan, tree, after, active) ==
  /\ Idle /\ ~half
  /\ plan.writes # <<>>
  /\ operation' = [writes |-> plan.writes, active |-> active,
                   handles |-> IF plan.ok THEN after ELSE handles]
  /\ goal' = [old |-> shown, new |-> IF plan.ok THEN tree ELSE shown]
  /\ UNCHANGED <<disk, mount, handles, half, shown>>

Change(plan, tree) == Begin(plan, tree, handles, TRUE)

sapfs_create(p) ==
  Change(CreatePlan(disk, mount, p), Tree!Created(shown, p))

sapfs_mkdir(p) ==
  Change(MkdirPlan(disk, mount, p), Tree!DirectoryMade(shown, p))

sapfs_unlink(p) == Change(UnlinkPlan(disk, p), Tree!Removed(shown, p))

sapfs_rmdir(p) == Change(RmdirPlan(disk, p), Tree!Removed(shown, p))

sapfs_truncate(p, size) ==
  Change(TruncatePlan(disk, mount, p, size), Tree!Resized(shown, p, size))

sapfs_rename(p, q) ==
  Change(RenamePlan(disk, mount, p, q), Tree!Moved(shown, p, q))

(* sapfs_open: the first inactive handle remembers where the entry is and  *)
(* what it said.                                                           *)
sapfs_open(p) ==
  LET pos == resolve_path(disk, p)
      slot == Min({h \in DOMAIN handles : handles[h] = NoHandle})
  IN /\ Idle
     /\ \E h \in DOMAIN handles : handles[h] = NoHandle
     /\ pos # <<>>
     /\ EntryAt(disk, pos).kind = "file"
     /\ handles' = [handles EXCEPT ![slot] =
                      [pos |-> pos, first |-> EntryAt(disk, pos).first,
                       size |-> EntryAt(disk, pos).size]]
     /\ UNCHANGED <<disk, mount, operation, half, goal, shown>>

sapfs_close(h) ==
  /\ Idle
  /\ handles[h] # NoHandle
  /\ handles' = [handles EXCEPT ![h] = NoHandle]
  /\ UNCHANGED <<disk, mount, operation, half, goal, shown>>

(* sapfs_write after any sapfs_seek, which accepts every offset up to the  *)
(* largest file size.                                                      *)
sapfs_write(h, from, to) ==
  /\ handles[h] # NoHandle
  /\ LET plan == WritePlan(disk, mount, handles[h], from, to)
         path == CHOOSE p \in Paths : resolve_path(disk, p) = handles[h].pos
         size == Max({handles[h].size, to})
         grown == ensure_chain(disk, mount, handles[h].first, SectorsFor(to))
     IN Begin(plan, Tree!Resized(shown, path, size),
              [handles EXCEPT ![h].first = First(grown.chain), ![h].size = size],
              TRUE)

FsinfoWrites == <<[to |-> "fsinfo", copy |-> 0], [to |-> "fsinfo", copy |-> 1]>>

sapfs_sync == Change(Plan(TRUE, FsinfoWrites), shown)

sapfs_unmount ==
  /\ \A h \in DOMAIN handles : handles[h] = NoHandle
  /\ Begin(Plan(TRUE, FsinfoWrites), shown, handles, FALSE)

(* flush_one: the next sector reaches the disk; after the last one         *)
(* end_operation returns and the caller's state is updated.                *)
write_sector ==
  /\ operation # NoOperation
  /\ LET w == Head(operation.writes)
         rest == Tail(operation.writes)
     IN /\ disk' \in WrittenDisks(disk, w)
        /\ IF rest = <<>>
           THEN /\ operation' = NoOperation
                /\ goal' = NoGoal
                /\ handles' = operation.handles
                /\ mount' = IF operation.active THEN Counted(mount, w) ELSE NotMounted
           ELSE /\ operation' = [operation EXCEPT !.writes = rest]
                /\ mount' = Counted(mount, w)
                /\ UNCHANGED <<handles, goal>>
  /\ shown' = Shown(disk')
  /\ half' = half

write_refused ==
  /\ operation # NoOperation
  /\ disk' \in {disk} \cup WrittenDisks(disk, Head(operation.writes))
  /\ operation' = NoOperation
  /\ goal' = NoGoal
  /\ half' = TRUE
  /\ shown' = Shown(disk')
  /\ UNCHANGED <<mount, handles>>

power_loss ==
  /\ mount.active
  /\ mount' = NotMounted
  /\ handles' = [h \in DOMAIN handles |-> NoHandle]
  /\ operation' = NoOperation
  /\ goal' = NoGoal
  /\ half' = FALSE
  /\ UNCHANGED <<disk, shown>>

FreeClusters(d) == {c \in Clusters : d.fat[0][c] = FreeLink}

sapfs_mount ==
  /\ ~mount.active
  /\ Mountable(disk)
  /\ LET free == FreeClusters(disk)
     IN mount' = [active |-> TRUE, free_clusters |-> Cardinality(free),
                  next_free |-> IF free = {} THEN NoHint ELSE Min(free)]
  /\ UNCHANGED <<disk, handles, operation, half, goal, shown>>

mount_refused ==
  /\ ~mount.active
  /\ ~Mountable(disk)
  /\ UNCHANGED vars

(* bound: the names that operations on existing entries are called with *)
Used == {p \in FilePaths \cup DirPaths : Idle /\ resolve_path(disk, p) # <<>>}

Next ==
  \/ \E p \in FilePaths : sapfs_create(p)
  \/ \E p \in DirPaths : sapfs_mkdir(p)
  \/ \E p \in Used : sapfs_unlink(p)
  \/ \E p \in Used : sapfs_rmdir(p)
  \/ \E p \in Used, size \in 0..MaxFileBytes : sapfs_truncate(p, size)
  \/ \E p \in Used, q \in FilePaths \cup DirPaths : sapfs_rename(p, q)
  \/ \E p \in Used : sapfs_open(p)
  \/ \E h \in 1..MaxHandles : sapfs_close(h)
  \/ \E h \in DOMAIN handles, to \in 1..MaxFileBytes :
       \E from \in 0..(to - 1) : sapfs_write(h, from, to)
  \/ sapfs_sync \/ sapfs_unmount
  \/ write_sector \/ write_refused
  \/ power_loss \/ sapfs_mount \/ mount_refused

Spec == Init /\ [][Next]_vars

(***************************************************************************)
(* Properties.                                                             *)
(***************************************************************************)

(* Every part of the state is of its type; in particular free_clusters and *)
(* next_free stay within the volume.                                       *)
TypeOK ==
  /\ disk.fat \in [0..1 -> [Clusters -> Link]]
  /\ DOMAIN disk.data = Clusters
  /\ disk.fsinfo \in BOOLEAN
  /\ mount = NotMounted \/ /\ mount.active
                           /\ mount.free_clusters \in 0..ClusterCount
                           /\ mount.next_free \in 2..NoHint
  /\ \A h \in DOMAIN handles : handles[h] # NoHandle =>
       /\ handles[h].pos \in Clusters \X (1..Slots)
       /\ handles[h].first \in {0} \cup Clusters
       /\ handles[h].size \in 0..MaxFileBytes
  /\ operation # NoOperation => ToSet(operation.writes) \subseteq Write
  /\ half \in BOOLEAN

(* Whenever no operation is under way and no write was refused, the next   *)
(* mount accepts the volume: no operation that returned, with success or   *)
(* with an error such as FULL, leaks or shares a cluster, leaves the FAT   *)
(* copies different or a size that does not fit its chain.                 *)
CleanVolumeMounts == Idle /\ ~half => Mountable(disk)

(* The clusters a live entry leads to, and whether they are all there. *)
Claim(e) ==
  LET chain == Chain(disk.fat[0], e.first)
      needed == IF e.kind = "dir" THEN Len(chain) ELSE SectorsFor(e.size)
  IN [first |-> e.first, all |-> needed <= Len(chain),
      clusters |-> ToSet(SubSeq(chain, 1, Min({needed, Len(chain)})))]

(* At every point where the power may fail, also after a refused write,    *)
(* each entry that can be reached still leads through the primary FAT to   *)
(* all the clusters its size calls for, none of them free, and two entries *)
(* with different chains share none: files that the interrupted operation  *)
(* was not about can be recovered.                                         *)
LiveChainsKept ==
  LET claims == {Claim(EntryAt(disk, resolve_path(disk, p))) : p \in LivePaths(disk)}
  IN \A x \in claims :
       /\ x.all
       /\ \A c \in x.clusters : disk.fat[0][c] # FreeLink
       /\ \A y \in claims : x.first = y.first \/ x.clusters \cap y.clusters = {}

(* An open handle always stands for a live file entry: its chain starts    *)
(* where the handle says, unless the handle saw the file empty, and the    *)
(* file is at least as long as the handle says.  So reading through the    *)
(* handle never leaves the file, whatever other calls do to its directory. *)
HandleEntryLive ==
  \A h \in DOMAIN handles : handles[h] # NoHandle =>
    LET e == EntryAt(disk, handles[h].pos)
    IN /\ e.kind = "file"
       /\ handles[h].first \in {0, e.first}
       /\ handles[h].size <= e.size

(* free_clusters, which decides between FULL and an allocation, is exact   *)
(* whenever no operation is under way and no write was refused.            *)
FreeCountExact ==
  Idle /\ ~half => mount.free_clusters = Cardinality(FreeClusters(disk))

(* Between operations the volume is settled: whatever sequence of calls and *)
(* power losses led here, the next mount accepts it and the driver's count  *)
(* of free clusters is the true one.                                        *)
SettledVolume == TypeOK /\ CleanVolumeMounts /\ FreeCountExact

(* The volume implements the abstract tree: an interrupted operation shows *)
(* the old tree, the new tree, or is refused.                              *)
RefinesFileTree == Tree!Spec
=============================================================================
