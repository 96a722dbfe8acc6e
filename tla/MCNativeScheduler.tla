-------------------------- MODULE MCNativeScheduler --------------------------
(***************************************************************************)
(* An instance of NativeScheduler.  Mixed runs either one process with two *)
(* threads, two sockets and a timer, or a process with two threads         *)
(* that only wait for each other and for time next to a console process.   *)
(***************************************************************************)
EXTENDS NativeScheduler

CONSTANTS a1, s1, s2, timer

MCAddress == {a1}
MCItem == {s1, s2, timer}
MCSocket == {s1, s2}

Worker == [threads |-> 2, console |-> FALSE, items |-> {}]
Reader == [threads |-> 1, console |-> TRUE, items |-> {}]
Server == [threads |-> 2, console |-> FALSE, items |-> {s1, s2, timer}]

Mixed == {<<Server>>, <<Worker, Reader>>}
MixedLists == {<<timer, s1, s2>>}
=============================================================================
