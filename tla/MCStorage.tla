------------------------------ MODULE MCStorage ------------------------------
(***************************************************************************)
(* A disk of 24 blocks in two block groups, with a directory below the     *)
(* root and files that need no, one and two levels of indirect blocks, one *)
(* of them in blocks that are not consecutive.                             *)
(***************************************************************************)
EXTENDS VictoriaFalls

\* With two direct numbers and two numbers in an indirect block, a file has
\* its first indirect block from the third block on, and its first doubly
\* indirect one from the fifth.
Inode(mode, length, metadata, block) ==
  [mode |-> {mode}, length |-> length, block |-> block,
   blocks |-> (length + metadata) * 2]

Entry(name, inode) == [name |-> name, inode |-> inode]
Numbers(a, b) == [kind |-> "numbers", numbers |-> <<a, b>>]
Data == [kind |-> "data"]
Unused == Inode("none", 0, 0, <<0, 0, 0, 0, 0>>)

SmallDisk ==
  [b \in 0..24 |->
    CASE b = 0 -> Numbers(0, 0)
      [] b = 1 -> [kind |-> "super", blocks_count |-> 24, blocks_per_group |-> 16,
                   inodes_per_group |-> 4]
      [] b = 2 -> [kind |-> "bgdt", tables |-> <<3, 20>>]
      [] b = 3 -> [kind |-> "inodes", inodes |->
                     <<Unused, Inode("dir", 1, 0, <<5, 0, 0, 0, 0>>)>>]
      [] b = 4 -> [kind |-> "inodes", inodes |->
                     <<Inode("file", 1, 0, <<6, 0, 0, 0, 0>>),
                       Inode("dir", 1, 0, <<7, 0, 0, 0, 0>>)>>]
      [] b = 5 -> [kind |-> "dir", entries |->
                     <<Entry(".", 2), Entry("..", 2), Entry("a", 3), Entry("d", 4)>>]
      [] b = 7 -> [kind |-> "dir", entries |->
                     <<Entry(".", 4), Entry("..", 2), Entry("b", 5), Entry("c", 6),
                       Entry("t", 8)>>]
      [] b = 10 -> Numbers(11, 0)
      [] b = 14 -> Numbers(15, 17)
      [] b = 18 -> Numbers(19, 0)
      [] b = 19 -> Numbers(16, 22)
      [] b = 20 -> [kind |-> "inodes", inodes |->
                     <<Inode("file", 3, 1, <<8, 9, 10, 0, 0>>),
                       Inode("file", 6, 3, <<12, 13, 14, 18, 0>>)>>]
      [] b = 21 -> [kind |-> "inodes", inodes |->
                     <<Unused,
                       Inode("file", 9, 9, <<8, 9, 10, 18, 23>>)>>]
      [] OTHER -> Data]

Open(path) == [op |-> "open", path |-> path]
List(path) == [op |-> "dir", path |-> path]

\* Every way a path can end, and files opened again from the caches: inodes 4
\* and 8 of the first script have the same index in their block groups.
SomeScripts ==
  {<<Open(<<"", "d", "b">>), Open(<<"", "d", "t">>), Open(<<"", "d", "b">>)>>,
   <<Open(<<"", "d", "c">>), List(<<"", "d", "">>), Open(<<"", "d", ".", "..", "a">>),
     Open(<<"", "d", "c">>)>>,
   <<Open(<<"", "d">>), List(<<"", "d">>), Open(<<"", "a", "b">>), List(<<"", "a">>)>>,
   <<Open(<<"a">>), Open(<<"">>), List(<<"">>), List(<<"d">>), Open(<<"", "x">>)>>,
   <<List(<<"", "">>), List(<<"", "x", "d">>), List(<<"", "d", "..", "">>)>>}

\* An adapter whose global interrupt status follows the ports', and one that
\* keeps a bit until it is cleared, each with disks and another device, some
\* of which raise an interrupt when their port is started.
Machines ==
  {[disks |-> {0, 1}, others |-> {}, sticky |-> FALSE, resets |-> {0}],
   [disks |-> {0}, others |-> {1}, sticky |-> TRUE, resets |-> {1}]}

\* A behaviour is followed up to the first race that makes what is read from
\* the disk arbitrary: after it every property of the run holds.
StoppedSpec ==
  /\ Init /\ [][MarksKept /\ Next]_vars
  /\ WF_vars(MarksKept /\ VfsThread)
  /\ WF_vars(MarksKept /\ ServerThread /\ UNCHANGED vfs)
  /\ WF_vars(MarksKept /\ InterruptThread /\ UNCHANGED vfs)
  /\ WF_vars(MarksKept /\ Hba /\ UNCHANGED vfs)
============================================================================
