------------------------------- MODULE FileReads -------------------------------
(***************************************************************************)
(* How filesystem.c reads one file for a process: through a session of its *)
(* own with the NVMe controller, block by block, or from the mounted       *)
(* system drive.  The session stays open until the process gives it back.  *)
(*                                                                         *)
(* What the blocks hold is left out: a read, or the parser that looks at   *)
(* its result, may refuse.                                                 *)
(***************************************************************************)
EXTENDS ProcessSteps

(* The order the states of a session may be passed through. *)
Reading == {"BLOCK_CONTROLLER_OWNED", "STOPPING"}

Successor ==
    [UNOPENED               |-> {"SESSION_READY"},
     SESSION_READY          |-> Reading,
     VOLUME_VALIDATED       |-> Reading,
     FILE_LOCATED           |-> Reading,
     BLOCK_CONTROLLER_OWNED |-> {"BLOCK_CPU_OWNED", "STOPPING"},
     BLOCK_CPU_OWNED        |-> Reading \cup {"VOLUME_VALIDATED", "FILE_LOCATED", "FILE_READ"},
     FILE_READ              |-> {"STOPPING"},
     STOPPING               |-> {"RELEASED"},
     RELEASED               |-> {}]

transition(from, to) == to \in Successor[from]

(* The controller gets the buffer, and the processor gets it back. *)
read_block == Block

(* What the parsers say to a block. *)
parse == Check({"FILESYSTEM"})

control_rust_parser == Check({"ROBUSTNESS"})

control_block_results == Check({"ROBUSTNESS"})

control_ownership == Check({"ROBUSTNESS"})

control_cleanup_boundaries == Check({"ROBUSTNESS"})

control_teardown_race == Check({"ROBUSTNESS"})

filesystem_foundation_self_test ==
    <<control_rust_parser, control_block_results, control_ownership, control_cleanup_boundaries,
      control_teardown_race>>

(* Boot sector, allocation table, directory and contents, in this order. *)
filesystem_private_read_open ==
    <<OpenSession, ReaderTo("SESSION_READY"), read_block, parse, ReaderTo("VOLUME_VALIDATED"),
      read_block, parse, read_block, parse, ReaderTo("FILE_LOCATED"), read_block, parse,
      ReaderTo("FILE_READ"), parse, HandOver>>

(* The same for a file of several clusters, with a failure point after the
   opening and after each read. *)
filesystem_linux_read_open_profile(clusters) ==
    <<OpenSession, Point(ReaderTo("SESSION_READY")), Point(read_block), parse,
      ReaderTo("VOLUME_VALIDATED"), Point(read_block), Point(read_block), parse,
      ReaderTo("FILE_LOCATED")>>
        \o [i \in 1 .. clusters |-> Point(read_block)]
        \o <<parse, ReaderTo("FILE_READ"), HandOver>>

(* From the mounted drive, where a failure is never asked for. *)
linux_read_open_mounted == <<ReadFromDrive>>

(* The proof of the file system keeps nothing: it gives the session back itself. *)
filesystem_file_prove == filesystem_foundation_self_test \o Front(filesystem_private_read_open)

private_read_cleanup == <<Abandon>>

===============================================================================
