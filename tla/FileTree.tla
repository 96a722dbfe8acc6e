------------------------------ MODULE FileTree ------------------------------
(***************************************************************************)
(* What the FAT32 filesystem promises about its names, without clusters,   *)
(* FAT copies or sectors: the volume holds a tree of files and             *)
(* directories, an operation replaces one tree by another, and at every    *)
(* instant in between a mount would either show the old tree, or the new   *)
(* tree, or refuse the volume.  FAT32 keeps no journal, so an interrupted  *)
(* operation may leave the volume refused for good; what it may not do is  *)
(* leave a volume that mounts and shows something else.  The one exception *)
(* is a rename of a file without clusters: it may be seen under both names.*)
(***************************************************************************)
EXTENDS Integers, Sequences, SequencesExt

CONSTANTS Paths,     \* paths below the root
          Sizes,     \* file sizes
          Refused,   \* a mount would refuse the volume
          NoGoal     \* no operation is under way

VARIABLES shown,     \* the tree a mount would show now, or Refused
          goal       \* the trees before and after the operation under way

vars == <<shown, goal>>

IsDirectory(t, p) == p = <<>> \/ (p \in DOMAIN t /\ t[p].dir)

Missing(t, p) == p \notin DOMAIN t /\ IsDirectory(t, Front(p))

IsLeaf(t, p) == \A q \in DOMAIN t : IsPrefix(p, q) => q = p

With(t, p, node) ==
  [q \in DOMAIN t \cup {p} |-> IF q = p THEN node ELSE t[q]]

Created(t, p) == With(t, p, [dir |-> FALSE, size |-> 0])
DirectoryMade(t, p) == With(t, p, [dir |-> TRUE, size |-> 0])
Resized(t, p, n) == With(t, p, [dir |-> FALSE, size |-> n])
Removed(t, p) == [q \in DOMAIN t \ {p} |-> t[q]]

(* p and everything below it goes by its new name. *)
Renamed(q, p, r) ==
  IF IsPrefix(p, q) THEN r \o SubSeq(q, Len(p) + 1, Len(q)) ELSE q

Moved(t, p, r) ==
  [x \in {Renamed(q, p, r) : q \in DOMAIN t} |->
     t[CHOOSE q \in DOMAIN t : Renamed(q, p, r) = x]]

(* A call may also fail after it has written: the tree is then the same. *)
Outcomes(t) ==
  {t} \cup {Created(t, p) : p \in {q \in Paths : Missing(t, q)}}
      \cup {DirectoryMade(t, p) : p \in {q \in Paths : Missing(t, q)}}
      \cup {Removed(t, p) : p \in {q \in DOMAIN t : IsLeaf(t, q)}}
      \cup UNION {{Resized(t, p, n) : n \in Sizes} :
                    p \in {q \in DOMAIN t : ~t[q].dir}}
      \cup UNION {{Moved(t, p, r) : r \in {q \in Paths :
                     Missing(t, q) /\ ~IsPrefix(p, q)}} : p \in DOMAIN t}

(* Both names of an empty file that is being renamed. *)
Doubled(old, new) ==
  {With(new, p, old[p]) : p \in {q \in DOMAIN old \ DOMAIN new :
                                   ~old[q].dir /\ old[q].size = 0}}

Between == {goal.old, goal.new, Refused} \cup Doubled(goal.old, goal.new)

(* A formatted volume has no names. *)
Init == shown = [p \in {} |-> p] /\ goal = NoGoal

Start ==
  /\ goal = NoGoal
  /\ shown # Refused
  /\ \E t \in Outcomes(shown) : goal' = [old |-> shown, new |-> t]
  /\ shown' = shown

Progress ==
  /\ goal # NoGoal
  /\ shown' \in Between
  /\ goal' = goal

Finish ==
  /\ goal # NoGoal
  /\ shown' = goal.new
  /\ goal' = NoGoal

(* A crash or a failed write ends the operation where it is. *)
Interrupt ==
  /\ goal # NoGoal
  /\ shown' \in Between
  /\ goal' = NoGoal

Next == Start \/ Progress \/ Finish \/ Interrupt

Spec == Init /\ [][Next]_vars
=============================================================================
