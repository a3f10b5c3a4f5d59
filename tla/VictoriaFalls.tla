---------------------------- MODULE VictoriaFalls ----------------------------
(***************************************************************************)
(* The file service VictoriaFalls on top of the disk service Denali.       *)
(*                                                                         *)
(* VictoriaFalls has one server thread.  Every read it makes is a call to  *)
(* Denali that it waits for, so a request is a sequence of steps, one up to *)
(* each call, between which Denali's threads and the disk run.             *)
(***************************************************************************)
EXTENDS Ahci, Ext2

CONSTANTS Device,    \* device_id of the partition
          Scripts    \* the requests clients make, in order: [op, path]

\* device_id is an unsigned integer.
ASSUME DeviceAssumption == Device \in Nat

VARIABLE vfs

vars == <<hw, hba, port, irq, srv, call, resp, races, vfs>>

None == [kind |-> "none"]
NoReply == [status |-> "none", region |-> <<>>, size |-> 0, names |-> <<>>]

\* Records that a call to Denali waits for its answer at "pc".
Read(v, blocks, pc) ==
  /\ vfs' = [v EXCEPT !.pc = pc]
  /\ call' = [device |-> Device, blocks |-> blocks]
  /\ resp' = NoResponse

Goto(v, pc) ==
  /\ vfs' = [v EXCEPT !.pc = pc]
  /\ UNCHANGED <<call, resp>>

Answer(v, status) ==
  /\ vfs' = [v EXCEPT !.pc = "idle", !.reply = [NoReply EXCEPT !.status = status]]
  /\ UNCHANGED <<call, resp>>

Answered == resp # NoResponse
Failed == resp.status # "OK"

----------------------------------------------------------------------------
(* Starting.                                                               *)

\* Ext2BlockReader::Init reads the two sectors of the superblock.
ReadSuperblock ==
  /\ vfs.pc = "start"
  /\ Read(vfs, <<[lba |-> LbaOffset + 2, size |-> 2]>>, "super")

\* Ext2Driver::Init then reads the block group descriptors.
ReadDescriptors ==
  /\ vfs.pc = "super"
  /\ Answered
  /\ LET super == IF resp.region = <<LbaOffset + 2, LbaOffset + 3>>
                  THEN Disk[SuperblockAt] ELSE Garbage
     IN  IF Failed THEN Goto(vfs, "ended")
         ELSE Read([vfs EXCEPT !.super = super],
                   <<ReadRun(BgdtBlockNum, BgdtBlockSize(super))>>, "bgdt")

\* The table of inodes is made and the server starts: nobody calls
\* ProbePartition, which would look at the superblock's magic number.
StartServer ==
  /\ vfs.pc = "bgdt"
  /\ Answered
  /\ IF Failed THEN Goto(vfs, "ended")
     ELSE Goto([vfs EXCEPT !.bgdt = resp.region], "idle")

----------------------------------------------------------------------------
(* Walking a path.                                                         *)

\* The inode to read next, as a directory or as a file.
ReadNode(v, num, want) ==
  Goto([v EXCEPT !.ino = num, !.want = want, !.inode = None, !.double = None,
                 !.indirect = None, !.single = 0, !.list = <<>>], "inode")

Named(files, name) == {j \in DOMAIN files : files[j].name = name}
FirstNamed(files, name) ==
  files[CHOOSE j \in Named(files, name) : \A k \in Named(files, name) : j <= k].inode

\* The tokens of the path that have to be directories: all but the last one of
\* a file's path.
LastDirectory(v) == IF v.op = "open" THEN Len(v.path) - 1 ELSE Len(v.path)

\* With the entries of a directory at hand, the next token is looked up.
WalkFrom(v, files) ==
  IF v.i <= LastDirectory(v)
  THEN IF Named(files, v.path[v.i]) = {} THEN Answer(v, "NOT_FOUND")
       ELSE ReadNode([v EXCEPT !.i = @ + 1], FirstNamed(files, v.path[v.i]), "dir")
  ELSE IF v.op = "dir"
  THEN /\ vfs' = [v EXCEPT !.pc = "idle",
                    !.reply = [NoReply EXCEPT !.status = "OK",
                                 !.names = [j \in DOMAIN files |-> files[j].name]]]
       /\ UNCHANGED <<call, resp>>
  ELSE IF Named(files, v.path[Len(v.path)]) = {} THEN Answer(v, "NOT_FOUND")
  ELSE ReadNode(v, FirstNamed(files, v.path[Len(v.path)]), "file")

\* HandleOpenFile and HandleGetDirectory start at the root directory, inode 2;
\* a trailing slash of a directory's path is dropped.
HandleRequest ==
  /\ vfs.pc = "idle"
  /\ vfs.script # <<>>
  /\ LET req == Head(vfs.script)
         slash == req.op = "dir" /\ req.path[Len(req.path)] = ""
         path == IF slash THEN SubSeq(req.path, 1, Len(req.path) - 1) ELSE req.path
         v == [vfs EXCEPT !.op = req.op, !.asked = req.path, !.path = path,
                          !.i = 2, !.reply = NoReply, !.script = Tail(@)]
     IN  IF req.path[1] # "" THEN Answer(v, "INVALID_ARGUMENT")
         ELSE ReadNode(v, 2, "dir")

----------------------------------------------------------------------------
(* Reading an inode.                                                       *)

\* A directory is its first block; a file is answered with its memory and the
\* size in its inode.
GotNode(v, region) ==
  IF v.want = "dir" THEN WalkFrom(v, BlockAt(region, 0).entries)
  ELSE /\ vfs' = [v EXCEPT !.pc = "idle",
                    !.reply = [status |-> "OK", region |-> region,
                               size |-> v.inode.length, names |-> <<>>]]
       /\ UNCHANGED <<call, resp>>

\* InodeTable::GetInode reads the table of a block group once.  An inode
\* without the bit of the mode that is wanted is refused, one that was read
\* before comes from the cache, and a triply indirect one is not supported.
GetInode ==
  /\ vfs.pc = "inode"
  /\ LET num == vfs.ino
         group == BlockGroupOf(vfs.super, num)
     IN  IF group > NumberOfBlockGroups(vfs.super) THEN Answer(vfs, "INVALID_ARGUMENT")
         ELSE IF group \notin DOMAIN vfs.tables
         THEN Read(vfs, <<ReadRun(BlockAt(vfs.bgdt, group \div DescriptorsPerBlock)
                                    .tables[(group % DescriptorsPerBlock) + 1],
                                  InodeTableBlockSize(vfs.super))>>, "table")
         ELSE LET inode == InodeIn(vfs.super, vfs.tables[group], num)
                  v == [vfs EXCEPT !.inode = inode]
              IN  IF vfs.want \notin inode.mode THEN Answer(vfs, "INVALID_ARGUMENT")
                  ELSE IF num \in DOMAIN vfs.cache THEN GotNode(v, vfs.cache[num])
                  ELSE IF inode.block[Direct + 3] # 0 THEN Answer(vfs, "UNIMPLEMENTED")
                  ELSE Goto(v, "collect")

GotTable ==
  /\ vfs.pc = "table"
  /\ Answered
  /\ IF Failed THEN Answer(vfs, resp.status)
     ELSE Goto([vfs EXCEPT !.tables =
                 [g \in DOMAIN @ \cup {BlockGroupOf(vfs.super, vfs.ino)} |->
                    IF g \in DOMAIN @ THEN @[g] ELSE resp.region]], "inode")

\* ReadInode collects the block numbers: the double indirect and the indirect
\* block are read first, if there are any, then the single indirect blocks one
\* by one, then everything with one request.  A number is looked up in an
\* indirect block that is not there when the block count says it should be:
\* the process then faults at address 0.
Collect ==
  /\ vfs.pc = "collect"
  /\ LET inode == vfs.inode
         k == vfs.single
     IN  IF inode.block[Direct + 2] # 0 /\ vfs.double = None
         THEN Read(vfs, <<ReadRun(inode.block[Direct + 2], 1)>>, "double")
         ELSE IF inode.block[Direct + 1] # 0 /\ vfs.indirect = None
         THEN Read(vfs, <<ReadRun(inode.block[Direct + 1], 1)>>, "indirect")
         ELSE IF \/ IndirectCount(inode) > 0 /\ vfs.indirect = None
                 \/ k < SinglesNeeded(inode) /\ vfs.double = None
         THEN Goto(vfs, "faulted")
         ELSE IF k < SinglesNeeded(inode)
         THEN Read(vfs, <<ReadRun(vfs.double.numbers[k + 1], 1)>>, "single")
         ELSE LET list == DirectBlocks(inode)
                          \o (IF vfs.indirect = None THEN <<>>
                              ELSE IndirectBlocks(inode, vfs.indirect.numbers))
                          \o vfs.list
              IN  Read(vfs, ReadList(list), "contents")

\* The answer to one of the reads of an indirect block.
GotNumbers ==
  /\ vfs.pc \in {"double", "indirect", "single"}
  /\ Answered
  /\ LET block == BlockAt(resp.region, 0)
     IN  IF Failed THEN Answer(vfs, resp.status)
         ELSE CASE vfs.pc = "double" -> Goto([vfs EXCEPT !.double = block], "collect")
                [] vfs.pc = "indirect" -> Goto([vfs EXCEPT !.indirect = block], "collect")
                [] vfs.pc = "single" ->
                     Goto([vfs EXCEPT !.single = @ + 1,
                             !.list = @ \o SingleBlocks(vfs.inode, vfs.single, block.numbers)],
                          "collect")

\* What was read is kept in inode_cache_, and used.
GotContents ==
  /\ vfs.pc = "contents"
  /\ Answered
  /\ IF Failed THEN Answer(vfs, resp.status)
     ELSE GotNode([vfs EXCEPT !.cache =
                     [n \in DOMAIN @ \cup {vfs.ino} |->
                        IF n \in DOMAIN @ THEN @[n] ELSE resp.region]], resp.region)

----------------------------------------------------------------------------

Init ==
  /\ AhciInit
  /\ \E script \in Scripts :
     vfs = [pc |-> "start", script |-> script, op |-> "none", asked |-> <<>>, path |-> <<>>, i |-> 2,
            ino |-> 0, want |-> "dir", inode |-> None, double |-> None,
            indirect |-> None, single |-> 0, list |-> <<>>, super |-> None,
            bgdt |-> <<>>, tables |-> <<>>, cache |-> <<>>, reply |-> NoReply]

VfsThread ==
  /\ \/ ReadSuperblock \/ ReadDescriptors \/ StartServer
     \/ GetInode \/ GotTable \/ Collect \/ GotNumbers \/ GotContents
  /\ UNCHANGED <<hw, hba, port, irq, srv, races>>

Client ==
  /\ HandleRequest
  /\ UNCHANGED <<hw, hba, port, irq, srv, races>>

Next == VfsThread \/ Client \/ (AhciNext /\ UNCHANGED vfs)

\* The threads are scheduled round-robin and the device finishes what it was
\* given; clients need not ask for anything.
Spec ==
  /\ Init /\ [][Next]_vars
  /\ WF_vars(VfsThread)
  /\ WF_vars(ServerThread /\ UNCHANGED vfs)
  /\ WF_vars(InterruptThread /\ UNCHANGED vfs)
  /\ WF_vars(Hba /\ UNCHANGED vfs)

----------------------------------------------------------------------------
(* Properties.                                                             *)

Entries(inode) == Disk[LogicalBlock(inode, 0)].entries

\* What the path leads to, taken token by token from the root: an inode
\* number, or the error the service documents for it.
Resolve(path, last) ==
  LET at[i \in 1..last] ==
        IF i = 1 THEN [status |-> "OK", inode |-> 2]
        ELSE LET up == at[i - 1]
                 found == {e \in {Entries(InodeOf(up.inode))[j] :
                                    j \in DOMAIN Entries(InodeOf(up.inode))} :
                             e.name = path[i]}
             IN  IF up.status # "OK" THEN up
                 ELSE IF "dir" \notin InodeOf(up.inode).mode
                 THEN [up EXCEPT !.status = "INVALID_ARGUMENT"]
                 ELSE IF found = {} THEN [up EXCEPT !.status = "NOT_FOUND"]
                 ELSE [up EXCEPT !.inode = (CHOOSE e \in found : TRUE).inode]
  IN  at[last]

\* Every answer is the one the file system on the disk calls for: OpenFile
\* returns memory that starts with the blocks of the named file in order, and
\* its size, GetDirectory the names of the directory.  It takes the whole path
\* from the interrupt handler to the cached inode tables to get it right, and
\* the marks of the driver's two threads to be kept.
AnswersMatchDisk ==
  (MarksKept /\ vfs.pc = "idle" /\ vfs.reply.status # "none") =>
    LET reply == vfs.reply
        slash == vfs.op = "dir" /\ vfs.asked[Len(vfs.asked)] = ""
        last == Len(vfs.asked) - (IF slash THEN 1 ELSE 0)
        end == IF last = 0 THEN [status |-> "OK", inode |-> 2] ELSE Resolve(vfs.asked, last)
        node == InodeOf(end.inode)
        mode == IF vfs.op = "open" THEN "file" ELSE "dir"
    IN  CASE vfs.asked[1] # "" -> reply.status = "INVALID_ARGUMENT"
          [] vfs.asked = <<"">> /\ vfs.op = "open" -> reply.status = "NOT_FOUND"
          [] end.status # "OK" -> reply.status = end.status
          [] mode \notin node.mode -> reply.status = "INVALID_ARGUMENT"
          [] node.block[Direct + 3] # 0 -> reply.status = "UNIMPLEMENTED"
          [] vfs.op = "open" ->
               /\ reply.status = "OK"
               /\ reply.size = node.length
               /\ SubSeq(reply.region, 1, node.length * SectorsPerBlock) = FileSectors(node)
          [] OTHER ->
               /\ reply.status = "OK"
               /\ reply.names = [j \in DOMAIN Entries(node) |-> Entries(node)[j].name]

\* Every request to the file service is answered, and so is every boot, unless
\* one of the driver's races happens: in no other interleaving is a completion
\* interrupt lost between the device, the interrupt thread and the thread that
\* waits.
RequestsAnswered == (vfs.pc # "idle") ~> (vfs.pc = "idle" \/ races # {})
============================================================================
