-------------------------- MODULE HandleCapability --------------------------
(***************************************************************************)
(* What a process is promised about its native handles, without slots,     *)
(* object records, generations or reference counts: a handle value either  *)
(* names exactly one kernel resource or it names nothing.  A resource is   *)
(* open from the moment its first handle is granted until its last handle  *)
(* is revoked, and it is finalised in that same step.                      *)
(***************************************************************************)
CONSTANTS Handle, Resource

VARIABLES names,   \* partial function: the handle values that resolve now
          open     \* the kernel resources that have not been finalised

vars == <<names, open>>

Named(f) == {f[h] : h \in DOMAIN f}

Init == /\ names = [h \in {} |-> h]
        /\ open = {}

(* A fresh resource receives its first name. *)
Grant(h, r) ==
  /\ h \notin DOMAIN names
  /\ r \notin open
  /\ names' = [x \in DOMAIN names \cup {h} |-> IF x = h THEN r ELSE names[x]]
  /\ open' = open \cup {r}

(* A second name for a resource that already has one. *)
Alias(h, new) ==
  /\ h \in DOMAIN names
  /\ new \notin DOMAIN names
  /\ names' = [x \in DOMAIN names \cup {new} |->
                 IF x = new THEN names[h] ELSE names[x]]
  /\ open' = open

(* Names disappear; precisely the resources left without one are finalised. *)
Revoke(gone) ==
  /\ gone # {}
  /\ gone \subseteq DOMAIN names
  /\ names' = [x \in DOMAIN names \ gone |-> names[x]]
  /\ open' = Named(names')

Next ==
  \/ \E h \in Handle, r \in Resource : Grant(h, r)
  \/ \E h \in DOMAIN names, new \in Handle : Alias(h, new)
  \/ \E gone \in SUBSET (DOMAIN names) : Revoke(gone)

Spec == Init /\ [][Next]_vars
=============================================================================
