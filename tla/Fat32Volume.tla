---------------------------- MODULE Fat32Volume ----------------------------
(***************************************************************************)
(* What src/kernel/fat32_fs.c reads from a FAT32 volume: cluster chains,   *)
(* directory scans, path resolution and the validation that sapfs_mount    *)
(* performs before it publishes a mount.  Nothing here changes state; the  *)
(* operations that write sectors are in module Fat32.                      *)
(*                                                                         *)
(* A volume is a record of its two FAT copies, the contents of its         *)
(* clusters and whether the two FSInfo sectors are equal.  One cluster is  *)
(* one sector (validate_volume_identity requires it).  A sector of a       *)
(* directory is a sequence of Slots entries; a zeroed sector is the same   *)
(* as a sector of end entries; any other file contents are Bytes, which    *)
(* never parse as directory entries.  The modelled part of the FAT is one  *)
(* sector per copy.                                                        *)
(***************************************************************************)
EXTENDS Integers, Sequences, FiniteSets, FiniteSetsExt, SequencesExt

CONSTANTS Names,         \* 8.3 names
          MaxCluster,    \* geometry.maximum_cluster
          Slots,         \* directory entries per sector, 16 in the code
          SectorBytes,   \* SAPFS_SECTOR_BYTES
          MaxFileBytes,  \* SAPFS_MAX_FILE_BYTES
          MaxList,       \* SAPFS_MAX_LIST_ENTRIES
          MaxDirs,       \* SAPFS_MAX_VALIDATION_DIRECTORIES
          MaxDepth       \* SAPFS_MAX_DEPTH

ASSUME GeometryAssumption ==
  /\ MaxCluster \in Nat /\ MaxCluster > 2
  /\ Slots \in Nat /\ Slots > 1
  /\ SectorBytes \in Nat \ {0}
  /\ {MaxFileBytes, MaxList, MaxDirs, MaxDepth} \subseteq Nat \ {0}
  /\ Names \cap {".", ".."} = {}

Root == 2                     \* SAPFS_ROOT_CLUSTER
Clusters == 2..MaxCluster
FreeLink == 0
EOC == MaxCluster + 1         \* any value from FAT32_EOC_MIN up
ClusterCount == MaxCluster - 1
NoHint == MaxCluster + 1      \* next_free is UINT32_MAX

SectorsFor(size) == (size + SectorBytes - 1) \div SectorBytes

(***************************************************************************)
(* Directory entries and sector contents.                                  *)
(***************************************************************************)
Entry(kind, name, first, size) ==
  [kind |-> kind, name |-> name, first |-> first, size |-> size]

End == Entry("end", ".", 0, 0)
Deleted == Entry("deleted", ".", 0, 0)
Zero == [s \in 1..Slots |-> End]
Bytes == <<>>

Live(e) == e.kind \in {"file", "dir"}
Dotted(e) == e.name \in {".", ".."}

(***************************************************************************)
(* Chains.  Walk(fat, first)[n] is the n-th link of the chain, the value   *)
(* that ended it once it has ended.                                        *)
(***************************************************************************)
Walk(fat, first) ==
  LET at[n \in 0..ClusterCount] ==
        IF n = 0 THEN first
        ELSE LET link == at[n - 1]
             IN IF link \in Clusters THEN fat[link] ELSE link
  IN at

Chain(fat, first) ==
  LET at == Walk(fat, first)
      n == Cardinality({i \in DOMAIN at : at[i] \in Clusters})
  IN [i \in 1..n |-> at[i - 1]]

(* count_chain succeeds on no chain and on a chain that ends. *)
ChainEnds(fat, first) ==
  first = 0 \/ Walk(fat, first)[ClusterCount] = EOC

(***************************************************************************)
(* scan_directory: the slots are read in chain order up to the first end   *)
(* entry or the entry looked for.  The result has the position found, the  *)
(* first free slot (or <<>>) and the number of names passed.               *)
(***************************************************************************)
Positions(d, dir) ==
  LET c == Chain(d.fat[0], dir)
  IN [i \in 1..(Len(c) * Slots) |->
        <<c[((i - 1) \div Slots) + 1], ((i - 1) % Slots) + 1>>]

EntryAt(d, pos) == d.data[pos[1]][pos[2]]

(* One slot: the scan goes on, or it found the name, or an end entry. *)
Scanned(d, name, r, pos) ==
  IF r.status # "more" THEN r
  ELSE IF d.data[pos[1]] = Bytes THEN [r EXCEPT !.status = "corrupt"]
  ELSE LET e == EntryAt(d, pos)
       IN IF ~Live(e)
          THEN [r EXCEPT !.slot = IF @ = <<>> THEN pos ELSE @,
                         !.status = IF e = End THEN "end" ELSE @]
          ELSE IF e.name = name THEN [r EXCEPT !.status = "ok", !.pos = pos]
          ELSE IF Dotted(e) THEN r ELSE [r EXCEPT !.live = @ + 1]

scan_directory(d, dir, name) ==
  LET r == FoldLeft(LAMBDA acc, pos : Scanned(d, name, acc, pos),
                    [status |-> "more", pos |-> <<>>, slot |-> <<>>, live |-> 0],
                    Positions(d, dir))
  IN [r EXCEPT !.status =
        IF @ \in {"ok", "corrupt"} THEN @
        ELSE IF @ = "more" /\ ~ChainEnds(d.fat[0], dir) THEN "corrupt"
        ELSE IF r.live >= MaxList THEN "directory_full" ELSE "not_found"]

(***************************************************************************)
(* resolve_path and resolve_parent.  Callers normalise paths, so a path is *)
(* a sequence of names; <<>> is ".", the root.                             *)
(***************************************************************************)
Paths == UNION {[1..n -> Names] : n \in 1..MaxDepth}

(* Where a component's entry is, and which directory it is (0: none). *)
Landing(d, pos) ==
  [pos |-> pos,
   dir |-> IF pos # <<>> /\ EntryAt(d, pos).kind = "dir"
           THEN EntryAt(d, pos).first ELSE 0]

Resolved(d, path) ==
  FoldLeft(LAMBDA at, name : Landing(d, IF at.dir = 0 THEN <<>>
                                        ELSE scan_directory(d, at.dir, name).pos),
           [pos |-> <<>>, dir |-> Root], path)

resolve_parent(d, path) == Resolved(d, Front(path)).dir

(* The position of the entry a path names, <<>> if there is none. *)
resolve_path(d, path) == Resolved(d, path).pos

LivePaths(d) == {p \in Paths : resolve_path(d, p) # <<>>}

(* The tree of names a volume holds. *)
Node(e) == [dir |-> e.kind = "dir", size |-> e.size]
TreeOf(d) == [p \in LivePaths(d) |-> Node(EntryAt(d, resolve_path(d, p)))]

(***************************************************************************)
(* Mount-time validation.                                                  *)
(***************************************************************************)
validate_fats(d) ==
  /\ d.fat[0] = d.fat[1]
  /\ \A c \in Clusters : d.fat[0][c] \in Clusters \cup {FreeLink, EOC}

(* validate_file_chain: the chain is exactly as long as the size says. *)
validate_file_chain(fat, e) ==
  /\ e.size <= MaxFileBytes
  /\ (SectorsFor(e.size) = 0) = (e.first = 0)
  /\ ChainEnds(fat, e.first)
  /\ Len(Chain(fat, e.first)) = SectorsFor(e.size)

(* The sectors of a directory one after the other; what counts are the     *)
(* live entries before the first end entry.                                *)
SlotsOf(d, own) == FlattenSeq([i \in DOMAIN own |-> d.data[own[i]]])

EndOf(slots) == Min({i \in DOMAIN slots : slots[i] = End} \cup {Len(slots) + 1})

Of(entries, name) == SelectSeq(entries, LAMBDA e : e.name = name)

(* One directory of the queue: the clusters it and its files claim must be *)
(* new, and its subdirectories are queued.                                 *)
EntriesSound(fat, dir, entries, named) ==
  LET Back(name, cluster) ==
        Of(entries, name) = IF dir.depth = 0 THEN <<>>
                            ELSE <<Entry("dir", name, cluster, 0)>>
  IN /\ Back(".", dir.cluster)
     /\ Back("..", dir.parent)
     /\ Len(named) <= MaxList
     /\ Cardinality({e.name : e \in ToSet(named)}) = Len(named)
     /\ \A e \in ToSet(named) :
          IF e.kind = "dir"
          THEN e.size = 0 /\ e.first \in Clusters /\ dir.depth < MaxDepth
          ELSE validate_file_chain(fat, e)

Claimed(s, sound, dir, claims, dirs) ==
  [ok |-> /\ sound
          /\ Len(s.queue) + Len(dirs) <= MaxDirs
          /\ Cardinality(ToSet(claims)) = Len(claims)
          /\ ToSet(claims) \cap s.seen = {},
   seen |-> s.seen \cup ToSet(claims),
   queue |-> s.queue \o [i \in DOMAIN dirs |-> [cluster |-> dirs[i].first,
                                               parent |-> dir.cluster,
                                               depth |-> dir.depth + 1]]]

WithEntries(fat, s, dir, own, entries, named) ==
  LET Kind(kind) == SelectSeq(named, LAMBDA e : e.kind = kind)
      chains == [i \in DOMAIN Kind("file") |-> Chain(fat, Kind("file")[i].first)]
  IN Claimed(s, EntriesSound(fat, dir, entries, named), dir,
             own \o FlattenSeq(chains), Kind("dir"))

WithSlots(fat, s, dir, own, slots, end) ==
  LET entries == SelectSeq(SubSeq(slots, 1, end - 1), Live)
  IN IF end > Len(slots) \/ (end - 1) \div Slots = Len(own) - 1
     THEN WithEntries(fat, s, dir, own, entries,
                      SelectSeq(entries, LAMBDA e : ~Dotted(e)))
     ELSE [s EXCEPT !.ok = FALSE]

validate_directory_tree(d, s, dir) ==
  LET own == Chain(d.fat[0], dir.cluster)
  IN IF /\ ChainEnds(d.fat[0], dir.cluster)
        /\ \A i \in DOMAIN own : d.data[own[i]] # Bytes
     THEN WithSlots(d.fat[0], s, dir, own, SlotsOf(d, own), EndOf(SlotsOf(d, own)))
     ELSE [s EXCEPT !.ok = FALSE]

(* validate_live_tree: breadth first from the root; at the end a cluster   *)
(* is allocated exactly if it was claimed.                                 *)
validate_live_tree(d) ==
  LET start == [ok |-> TRUE, seen |-> {},
                queue |-> <<[cluster |-> Root, parent |-> Root, depth |-> 0]>>]
      walk[n \in 0..MaxDirs] ==
        IF n = 0 THEN start
        ELSE LET s == walk[n - 1]
             IN IF ~s.ok \/ n > Len(s.queue) THEN s
                ELSE validate_directory_tree(d, s, s.queue[n])
      done == walk[MaxDirs]
  IN done.ok /\ \A c \in Clusters : (d.fat[0][c] # FreeLink) = (c \in done.seen)

(* The stages of sapfs_mount after the boot sectors, which no operation of *)
(* this program writes: FSInfo, FAT copies, live tree.                     *)
TreeValid(d) == validate_fats(d) /\ validate_live_tree(d)
Mountable(d) == d.fsinfo /\ TreeValid(d)
=============================================================================
