-------------------------------- MODULE Ahci --------------------------------
(***************************************************************************)
(* The disk service Denali: its server thread, the interrupt thread of the *)
(* AHCI driver, and the host bus adapter (HBA) they drive.                 *)
(*                                                                         *)
(* The two threads share commands_issued_ and the semaphores of every port *)
(* without a lock, so IssueCommand and HandleIrq are modelled statement by *)
(* statement, and a statement that reads and writes a shared word is a     *)
(* load and a store.  The server thread of the process also runs the boot  *)
(* code (AhciController::Init, LoadPorts, Identify): main() only starts it *)
(* once the ports are loaded, so the two never run together.               *)
(*                                                                         *)
(* A sector's content is its own address, so that a memory region is the   *)
(* sequence of the sectors it holds and NoData where nothing was written.  *)
(***************************************************************************)
EXTENDS Integers, FiniteSets, Sequences

CONSTANTS NumPorts,   \* num_ports_
          Slots,      \* command slots of a port, 32 in the code
          Hardware    \* the machines of the model, one is chosen in Init

\* A machine has disks on the ports in "disks" and other devices on the ports
\* in "others".  "sticky" tells whether a bit of the global interrupt status
\* stays set until one is written to it (the AHCI standard) or follows the
\* port's own status (the emulator); starting a port in "resets" raises an
\* interrupt for the FIS its reset produces.
ASSUME HardwareAssumption ==
  /\ NumPorts \in Nat \ {0}
  /\ Slots \in Nat \ {0}
  /\ \A h \in Hardware :
       /\ h.disks \cup h.others \cup h.resets \subseteq 0..(NumPorts - 1)
       /\ h.sticky \in BOOLEAN

VARIABLES hw,      \* the machine
          hba,     \* registers and received FISes of the HBA
          port,    \* ports_: the driver's object for each port
          irq,     \* the interrupt thread
          srv,     \* the boot thread, then the server thread
          call,    \* the request waiting at Denali's endpoint
          resp,    \* the last response
          races    \* history: the races of the two threads that have happened

ahciVars == <<hw, hba, port, irq, srv, call, resp, races>>

NoData == -1
NoCall == [device |-> -1, blocks |-> <<>>]
NoResponse == [status |-> "none", region |-> <<>>]
Port == 0..(NumPorts - 1)
Slot == 0..(Slots - 1)

\* The sectors a list of disk blocks names, in order.
Sectors(blocks) ==
  LET total[i \in 0..Len(blocks)] ==
        IF i = 0 THEN <<>>
        ELSE total[i - 1] \o [k \in 1..blocks[i].size |-> blocks[i].lba + k - 1]
  IN  total[Len(blocks)]

----------------------------------------------------------------------------
(* The HBA.                                                                *)

\* The ports whose bit reads 1 in the global interrupt status.
InterruptStatus ==
  IF hw.sticky THEN hba.is ELSE {p \in Port : hba.pis[p] # {}}

\* Writing v to the global interrupt status clears the bits set in v.
WriteInterruptStatus(v) == [hba EXCEPT !.is = @ \ v]

\* The HBA finishes a command: it writes the sectors to memory, clears the
\* bit of the slot, stores the FISes that say so and raises an interrupt.  An
\* identify command is answered with a PIO transfer.
Complete(p, s) ==
  /\ s \in hba.ci[p]
  /\ LET cmd == hba.table[p][s]
         fis == IF cmd.kind = "identify" THEN {"PIO", "D2H"} ELSE {"D2H"}
     IN  /\ srv' = IF cmd.kind = "identify" THEN srv
                   ELSE [srv EXCEPT !.region =
                          [k \in DOMAIN @ |->
                             IF k - cmd.offset \in 1..cmd.size
                             THEN cmd.lba + (k - cmd.offset) - 1 ELSE @[k]]]
         /\ hba' = [hba EXCEPT !.ci[p] = @ \ {s},
                               !.pis[p] = @ \cup fis,
                               !.fis[p] = @ \cup fis,
                               !.is = @ \cup {p},
                               !.irqs = @ + 1]
  /\ UNCHANGED <<hw, port, irq, call, resp>>

----------------------------------------------------------------------------
(* Loading the ports.                                                      *)

AhciPort == [loaded |-> TRUE, init |-> FALSE, issued |-> {},
             sem |-> [s \in Slot |-> 0]]
Empty == [AhciPort EXCEPT !.loaded = FALSE]
Idle == [pc |-> "load", boot |-> TRUE, port |-> 0, slot |-> 0, offset |-> 0,
         blocks |-> <<>>, region |-> <<>>, reg |-> {}]

\* The ports are looked at in turn (index NumPorts is looked at too: no port
\* is implemented there).  The constructor of AhciPort starts a port that has
\* a device.
LoadPorts ==
  /\ srv.pc = "load"
  /\ IF srv.port > NumPorts
     THEN srv' = [srv EXCEPT !.pc = "serve", !.boot = FALSE] /\ UNCHANGED hba
     ELSE IF srv.port \notin hw.disks \cup hw.others
     THEN srv' = [srv EXCEPT !.port = @ + 1] /\ UNCHANGED hba
     ELSE /\ hba' = IF srv.port \in hw.resets
                    THEN [hba EXCEPT !.pis[srv.port] = {"D2H"},
                                     !.fis[srv.port] = {"D2H"},
                                     !.is = @ \cup {srv.port},
                                     !.irqs = @ + 1]
                    ELSE hba
          /\ srv' = [srv EXCEPT !.pc = "publish"]
  /\ UNCHANGED <<hw, port, irq, call, resp>>

\* Then ports_ gets the object, and a disk is asked to identify itself before
\* the next port is looked at.
PublishPort ==
  /\ srv.pc = "publish"
  /\ port' = [port EXCEPT ![srv.port] = AhciPort]
  /\ srv' = IF srv.port \in hw.disks THEN [srv EXCEPT !.pc = "select"]
            ELSE [srv EXCEPT !.pc = "load", !.port = @ + 1]
  /\ UNCHANGED <<hw, hba, irq, call, resp>>

----------------------------------------------------------------------------
(* Issuing a command.                                                      *)

Reply(status) ==
  /\ resp' = [status |-> status, region |-> srv.region]
  /\ call' = NoCall
  /\ srv' = [srv EXCEPT !.pc = "serve", !.blocks = <<>>]

Command ==
  IF srv.boot THEN [kind |-> "identify", lba |-> 0, size |-> 1, offset |-> 0]
  ELSE [kind |-> "read", lba |-> Head(srv.blocks).lba,
        size |-> Head(srv.blocks).size, offset |-> srv.offset]

\* The first slot without a command in commands_issued_ gets the command
\* table.  With every slot taken the request fails, at boot the process ends.
SelectSlot ==
  /\ srv.pc = "select"
  /\ LET free == Slot \ port[srv.port].issued
         slot == CHOOSE s \in free : \A t \in free : s <= t
     IN  IF free = {}
         THEN /\ IF srv.boot THEN srv' = [srv EXCEPT !.pc = "ended"] /\ UNCHANGED <<call, resp>>
                 ELSE Reply("INTERNAL")
              /\ UNCHANGED hba
         ELSE /\ hba' = [hba EXCEPT !.table[srv.port][slot] = Command]
              /\ srv' = [srv EXCEPT !.pc = "mark", !.slot = slot]
              /\ UNCHANGED <<call, resp>>
  /\ UNCHANGED <<hw, port, irq>>

\* commands_issued_ |= (1 << slot), the load ...
LoadIssued ==
  /\ srv.pc = "mark"
  /\ srv' = [srv EXCEPT !.pc = "mark_store", !.reg = port[srv.port].issued]
  /\ UNCHANGED <<hw, hba, port, irq, call, resp>>

\* ... and the store.
MarkIssued ==
  /\ srv.pc = "mark_store"
  /\ port' = [port EXCEPT ![srv.port].issued = srv.reg \cup {srv.slot}]
  /\ srv' = [srv EXCEPT !.pc = "issue"]
  /\ UNCHANGED <<hw, hba, irq, call, resp>>

\* port_struct_->command_issue |= (1 << slot), the load ...
LoadCommandIssue ==
  /\ srv.pc = "issue"
  /\ srv' = [srv EXCEPT !.pc = "issue_store", !.reg = hba.ci[srv.port]]
  /\ UNCHANGED <<hw, hba, port, irq, call, resp>>

\* ... and the store: the HBA takes a one for a new command and ignores a
\* zero.
CommandIssue ==
  /\ srv.pc = "issue_store"
  /\ hba' = [hba EXCEPT !.ci[srv.port] = @ \cup srv.reg \cup {srv.slot}]
  /\ srv' = [srv EXCEPT !.pc = "wait"]
  /\ UNCHANGED <<hw, port, irq, call, resp>>

\* The request's next block goes behind the one just read.
NextBlock ==
  [srv EXCEPT !.pc = "select", !.blocks = Tail(@),
              !.offset = @ + Head(srv.blocks).size]

\* The server thread returns from the wait for its command.  At boot the port
\* is now identified and the next one is looked at; a request goes on with its
\* next block, or answers.
Waited ==
  /\ srv.pc = "wait"
  /\ port[srv.port].sem[srv.slot] > 0
  /\ port' = [port EXCEPT ![srv.port].sem[srv.slot] = @ - 1,
                          ![srv.port].init = @ \/ srv.boot]
  /\ IF Len(srv.blocks) = 1 THEN Reply("OK")
     ELSE /\ srv' = IF srv.boot THEN [srv EXCEPT !.pc = "load", !.port = @ + 1]
                    ELSE NextBlock
          /\ UNCHANGED <<call, resp>>
  /\ UNCHANGED <<hw, hba, irq>>

----------------------------------------------------------------------------
(* The server thread.                                                      *)

GetDevice(id) ==
  IF id >= NumPorts THEN "INVALID_ARGUMENT"
  ELSE IF ~port[id].loaded THEN "NOT_FOUND" ELSE "OK"

\* HandleRead and HandleReadMany: one buffer for the whole request, then one
\* command at a time (HandleRead has a single block).  For a request of no
\* sectors the kernel computes a page count that wraps, and panics.
HandleReadMany ==
  /\ srv.pc = "serve"
  /\ call # NoCall
  /\ LET fresh == [k \in 1..Len(Sectors(call.blocks)) |-> NoData]
     IN  IF GetDevice(call.device) # "OK"
         THEN Reply(GetDevice(call.device))
         ELSE IF fresh = <<>>
         THEN srv' = [srv EXCEPT !.pc = "ended"] /\ UNCHANGED <<call, resp>>
         ELSE /\ srv' = [srv EXCEPT !.pc = "select", !.port = call.device,
                                    !.offset = 0, !.blocks = call.blocks,
                                    !.region = fresh]
              /\ UNCHANGED <<call, resp>>
  /\ UNCHANGED <<hw, hba, port, irq>>

----------------------------------------------------------------------------
(* The interrupt thread.                                                   *)

\* ZPortRecv: one message for every interrupt, however many ports it is for.
ReceiveIrq ==
  /\ irq.pc = "recv"
  /\ hba.irqs > 0
  /\ hba' = [hba EXCEPT !.irqs = @ - 1]
  /\ irq' = [irq EXCEPT !.pc = "scan", !.port = 0]
  /\ UNCHANGED <<hw, port, srv, call, resp>>

\* The loop over the ports looks for loaded ones with their bit set.
ScanPort ==
  /\ irq.pc = "scan"
  /\ irq' = IF irq.port = NumPorts THEN [irq EXCEPT !.pc = "recv"]
            ELSE IF port[irq.port].loaded /\ irq.port \in InterruptStatus
            THEN [irq EXCEPT !.pc = "ack"]
            ELSE [irq EXCEPT !.port = @ + 1]
  /\ UNCHANGED <<hw, hba, port, srv, call, resp>>

\* HandleIrq reads the port's status ...
ReadStatus ==
  /\ irq.pc = "ack"
  /\ irq' = [irq EXCEPT !.pc = "ack_store", !.reg = hba.pis[irq.port]]
  /\ UNCHANGED <<hw, hba, port, srv, call, resp>>

\* ... and acknowledges what it has read, and gives up when the FIS that
\* announces is not in memory.
AcknowledgeIrq ==
  /\ irq.pc = "ack_store"
  /\ hba' = [hba EXCEPT !.pis[irq.port] = @ \ irq.reg]
  /\ irq' = [irq EXCEPT !.pc = IF irq.reg \subseteq hba.fis[irq.port]
                               THEN "finished" ELSE "status"]
  /\ UNCHANGED <<hw, port, srv, call, resp>>

\* commands_finished = commands_issued_ & ~command_issue, of which the first
\* is read first.
ReadIssued ==
  /\ irq.pc = "finished"
  /\ irq' = [irq EXCEPT !.pc = "not_issued", !.reg = port[irq.port].issued]
  /\ UNCHANGED <<hw, hba, port, srv, call, resp>>

\* Mutant: command_issue is not looked at.
FindAllIssued ==
  /\ irq.pc = "not_issued"
  /\ irq' = [irq EXCEPT !.pc = "signal", !.finished = irq.reg]
  /\ UNCHANGED <<hw, hba, port, srv, call, resp>>

FindFinished ==
  /\ irq.pc = "not_issued"
  /\ irq' = [irq EXCEPT !.pc = "signal", !.finished = irq.reg \ hba.ci[irq.port]]
  /\ UNCHANGED <<hw, hba, port, srv, call, resp>>

\* The slots are taken in order: first the waiting thread is signalled ...
SignalFinished ==
  /\ irq.pc = "signal"
  /\ IF irq.finished = {}
     THEN irq' = [irq EXCEPT !.pc = "status"] /\ UNCHANGED port
     ELSE LET slot == CHOOSE s \in irq.finished : \A t \in irq.finished : s <= t
          IN  /\ port' = [port EXCEPT ![irq.port].sem[slot] = @ + 1]
              /\ irq' = [irq EXCEPT !.pc = "clear", !.slot = slot]
  /\ UNCHANGED <<hw, hba, srv, call, resp>>

\* ... then commands_issued_ &= ~(1 << i), a load ...
LoadToClear ==
  /\ irq.pc = "clear"
  /\ irq' = [irq EXCEPT !.pc = "clear_store", !.reg = port[irq.port].issued]
  /\ UNCHANGED <<hw, hba, port, srv, call, resp>>

\* ... and a store.
ClearIssued ==
  /\ irq.pc = "clear_store"
  /\ port' = [port EXCEPT ![irq.port].issued = irq.reg \ {irq.slot}]
  /\ irq' = [irq EXCEPT !.pc = "signal", !.finished = @ \ {irq.slot}]
  /\ UNCHANGED <<hw, hba, srv, call, resp>>

\* interrupt_status &= ~(1 << i), the load ...
LoadStatus ==
  /\ irq.pc = "status"
  /\ irq' = [irq EXCEPT !.pc = "status_store", !.reg = InterruptStatus]
  /\ UNCHANGED <<hw, hba, port, srv, call, resp>>

\* Mutant: the port's own status is acknowledged once more.
ClearStatusTwice ==
  /\ irq.pc = "status_store"
  /\ hba' = [hba EXCEPT !.pis[irq.port] = {}]
  /\ irq' = [irq EXCEPT !.pc = "scan", !.port = @ + 1]
  /\ UNCHANGED <<hw, port, srv, call, resp>>

\* ... and the store: what is written has the bits of the other ports, and
\* writing a one clears.
ClearStatus ==
  /\ irq.pc = "status_store"
  /\ hba' = WriteInterruptStatus(irq.reg \ {irq.port})
  /\ irq' = [irq EXCEPT !.pc = "scan", !.port = @ + 1]
  /\ UNCHANGED <<hw, port, srv, call, resp>>

----------------------------------------------------------------------------

AhciInit ==
  /\ hw \in Hardware
  /\ hba = [ci |-> [p \in Port |-> {}], pis |-> [p \in Port |-> {}],
            fis |-> [p \in Port |-> {}], is |-> {}, irqs |-> 0,
            table |-> [p \in Port |-> [s \in Slot |->
                        [kind |-> "none", lba |-> 0, size |-> 0, offset |-> 0]]]]
  /\ port = [p \in Port |-> Empty]
  /\ irq = [pc |-> "recv", port |-> 0, slot |-> 0, finished |-> {}, reg |-> {}]
  /\ srv = Idle
  /\ call = NoCall
  /\ resp = NoResponse
  /\ races = {}

----------------------------------------------------------------------------
(* The races of the driver.  The code has no answer to them, so the        *)
(* properties say what holds until one of them happens.                    *)

\* A thread stores commands_issued_ that the other has changed since it was
\* loaded: the other's update is lost.
LostUpdate ==
  \/ MarkIssued /\ srv.reg # port[srv.port].issued
  \/ ClearIssued /\ irq.reg # port[irq.port].issued

\* The interrupt thread takes a command for finished that IssueCommand has
\* marked and not yet handed to the HBA.
FoundEarly ==
  /\ FindFinished
  /\ srv.pc \in {"issue", "issue_store"} /\ srv.port = irq.port
  /\ srv.slot \in irq'.finished

\* The global status bit of a port that has something to report is cleared
\* together with another port's.
SweptAway ==
  ClearStatus /\ \E p \in hba.is \ hba'.is : hba.pis[p] # {}

Occurred ==
  {r \in {"lost", "early", "swept"} :
     \/ r = "lost" /\ LostUpdate
     \/ r = "early" /\ FoundEarly
     \/ r = "swept" /\ SweptAway}

----------------------------------------------------------------------------

ServerThread ==
  /\ \/ LoadPorts \/ PublishPort \/ SelectSlot \/ LoadIssued \/ MarkIssued
     \/ LoadCommandIssue \/ CommandIssue \/ Waited \/ HandleReadMany
  /\ races' = races \cup Occurred

InterruptThread ==
  /\ \/ ReceiveIrq \/ ScanPort \/ ReadStatus \/ AcknowledgeIrq \/ ReadIssued
     \/ FindFinished \/ SignalFinished \/ LoadToClear \/ ClearIssued
     \/ LoadStatus \/ ClearStatus
  /\ races' = races \cup Occurred

Hba == \E p \in Port, s \in Slot : Complete(p, s) /\ UNCHANGED races

AhciNext == ServerThread \/ InterruptThread \/ Hba

----------------------------------------------------------------------------
(* Properties.                                                             *)

\* Neither thread has undone the other's marks or misread them.
MarksKept == races \subseteq {"swept"}

\* A command is written into a slot only while the HBA is done with the slot's
\* last command, although IssueCommand looks at commands_issued_ alone, and
\* only the thread waiting for a command is ever signalled: a signal left
\* behind in a slot would end the wait of the command that uses it next.
SlotsAgree ==
  /\ \A p \in Port :
       /\ hba.ci[p] \subseteq port[p].issued
       /\ \A s \in Slot : port[p].sem[s] > 0 =>
            /\ srv.pc = "wait" /\ srv.port = p /\ srv.slot = s
            /\ port[p].sem[s] = 1
  /\ srv.pc \in {"mark", "mark_store", "issue", "issue_store"} =>
       srv.slot \notin hba.ci[srv.port]

\* The slots stay in agreement on every machine, in every interleaving in
\* which no update of commands_issued_ is lost and no command found early.
SlotsAgreeUnlessRaced == MarksKept => SlotsAgree
============================================================================
