----------------------------- MODULE AhciProofs -----------------------------
(***************************************************************************)
(* Proof that the disk driver's two threads and the adapter agree on the   *)
(* command slots, for every machine, every number of ports and slots,      *)
(* every file system and every list of requests, as long as no update of   *)
(* commands_issued_ is lost and no command is found before it is issued    *)
(* (SlotsAgreeUnlessRaced).                                                *)
(*                                                                         *)
(* commands_issued_ and the semaphores of a port have no lock, so the      *)
(* argument is about who owns a bit.  A bit that is set belongs to the     *)
(* command of the server thread, or to the interrupt thread, which has     *)
(* signalled the command and is about to clear the bit; the server thread  *)
(* may go on before that, and the bit then keeps its slot out of use.      *)
(* SlotInv states this, and that what the interrupt thread holds in its    *)
(* registers is still the server thread's command when it is acted upon.   *)
(***************************************************************************)
EXTENDS VictoriaFalls, WellFoundedInduction, TLAPS

(* The shapes of the records; the table, the status and the data of a      *)
(* request are left open.                                                  *)
SrvFields == {"pc", "boot", "port", "slot", "offset", "blocks", "region", "reg"}
IrqFields == {"pc", "port", "slot", "finished", "reg"}
HbaFields == {"ci", "pis", "fis", "is", "irqs", "table"}

AhciPorts ==
  [loaded : BOOLEAN, init : BOOLEAN, issued : SUBSET Slot, sem : [Slot -> Nat]]

(* The server thread has a bit in commands_issued_, is in IssueCommand, or *)
(* waits for the command.                                                  *)
Marked == srv.pc \in {"issue", "issue_store", "wait"}
Commanding == srv.pc \in {"select", "mark", "mark_store"} \/ Marked

(* The interrupt thread is in HandleIrq, or has just come back.            *)
Handling ==
  irq.pc \in {"ack", "ack_store", "finished", "not_issued", "signal", "clear",
              "clear_store", "status", "status_store"}

(* It has signalled the command in slot s of port p, and not yet cleared   *)
(* its bit.                                                                *)
Clearing(p, s) == irq.pc \in {"clear", "clear_store"} /\ irq.port = p /\ irq.slot = s

HbaType == DOMAIN hba = HbaFields /\ hba.ci \in [Port -> SUBSET Slot]

SrvType ==
  /\ DOMAIN srv = SrvFields
  /\ srv.pc \in {"load", "publish", "serve", "ended"} \/ Commanding
  /\ srv.boot \in BOOLEAN /\ srv.port \in Nat /\ srv.slot \in Slot
  /\ srv.boot => srv.blocks = <<>>

IrqType ==
  /\ DOMAIN irq = IrqFields
  /\ irq.pc \in {"recv", "scan"} \/ Handling
  /\ irq.port \in 0..NumPorts /\ irq.slot \in Slot

(* The file service asks for its own device only.                          *)
CallType == call = NoCall \/ call.device = Device

DriverType ==
  /\ hw \in Hardware
  /\ HbaType /\ SrvType /\ IrqType /\ CallType
  /\ port \in [Port -> AhciPorts]

(* A port is loaded once the boot loop has been there, and only loaded     *)
(* ports are worked on.                                                    *)
PortsInv ==
  /\ \A p \in Port : port[p].issued # {} => port[p].loaded
  /\ srv.pc \in {"load", "publish"} =>
       srv.boot /\ \A p \in Port : p >= srv.port => ~port[p].loaded
  /\ srv.boot => \A p \in Port : p > srv.port => ~port[p].loaded
  /\ srv.pc = "serve" => ~srv.boot
  /\ srv.pc = "publish" => srv.port \in Port
  /\ Commanding => srv.port \in Port /\ port[srv.port].loaded
  /\ Handling => irq.port \in Port /\ port[irq.port].loaded

(* Who owns a bit: the adapter works on the server thread's command and    *)
(* nothing else, ...                                                       *)
Working ==
  \A p \in Port : hba.ci[p] # {} =>
    /\ srv.pc = "wait" /\ p = srv.port /\ hba.ci[p] = {srv.slot}
    /\ srv.slot \in port[p].issued /\ ~Clearing(p, srv.slot)

(* ... a bit is the server thread's or the interrupt thread's, ...         *)
Owned ==
  \A p \in Port : \A s \in port[p].issued :
    (Marked /\ p = srv.port /\ s = srv.slot) \/ Clearing(p, s)

(* ... what the server thread is about to mark or has marked is not what   *)
(* the interrupt thread is about to clear, ...                             *)
Issuing ==
  /\ srv.pc \in {"mark", "mark_store"} => srv.slot \notin port[srv.port].issued
  /\ srv.pc \in {"issue", "issue_store"} =>
       srv.slot \in port[srv.port].issued /\ ~Clearing(srv.port, srv.slot)
  /\ srv.pc = "issue_store" => srv.reg = {}

(* ... what the interrupt thread has read, found and signalled is still    *)
(* marked, and what it has found is waited for and not yet signalled, ...  *)
Finding ==
  /\ irq.pc = "not_issued" => irq.reg \subseteq port[irq.port].issued
  /\ irq.pc = "signal" => \A s \in irq.finished :
       /\ srv.pc = "wait" /\ irq.port = srv.port /\ s = srv.slot
       /\ s \in port[irq.port].issued /\ hba.ci[irq.port] = {}
       /\ port[irq.port].sem[s] = 0
  /\ irq.pc \in {"clear", "clear_store"} =>
       irq.slot \in port[irq.port].issued /\ irq.finished = {irq.slot}

(* ... and a signal is for the thread that waits, and there is one.        *)
Signalled ==
  \A p \in Port, s \in Slot :
    \/ port[p].sem[s] = 0
    \/ /\ port[p].sem[s] = 1 /\ srv.pc = "wait" /\ p = srv.port /\ s = srv.slot
       /\ hba.ci[p] = {} /\ (s \in port[p].issued => Clearing(p, s))

SlotInv == Working /\ Owned /\ Issuing /\ Finding /\ Signalled

(* The inductive invariant.                                                *)
AInv == DriverType /\ PortsInv /\ SlotInv

(* What is known of the machine.                                           *)
LEMMA Machine ==
  ASSUME hw \in Hardware
  PROVE  /\ NumPorts \in Nat \ {0} /\ Port = 0..(NumPorts - 1)
         /\ hw.disks \subseteq Port /\ hw.others \subseteq Port
  BY HardwareAssumption DEF Port

(* A set of numbers with an element minimal in a relation that includes <  *)
(* has a least element ...                                                 *)
LEMMA LeastOf ==
  ASSUME NEW F, F \subseteq Nat, NEW R,
         \E s \in F : \A t \in F : ~(<<t, s>> \in R),
         \A x, y \in Nat : x < y => <<x, y>> \in R
  PROVE  \E s \in F : \A t \in F : s <= t
<1>1. PICK s \in F : \A t \in F : ~(<<t, s>> \in R)
  OBVIOUS
<1>2. s \in Nat /\ \A t \in F : t \in Nat /\ ~(t < s)
  BY <1>1, Zenon
<1>3. \A t \in F : s <= t
  BY <1>2, SMT
<1>. QED
  BY <1>3

(* ... so that every non-empty set of naturals has one ...                 *)
LEMMA LeastNat ==
  ASSUME NEW F, F \subseteq Nat, F # {}
  PROVE  \E s \in F : \A t \in F : s <= t
<1>1. \A x, y \in Nat : x < y => <<x, y>> \in OpToRel(<, Nat)
  BY Zenon DEF OpToRel
<1>2. \E s \in F : \A t \in F : ~(<<t, s>> \in OpToRel(<, Nat))
  BY WFMin, NatLessThanWellFounded, Zenon
<1>. QED
  BY <1>1, <1>2, LeastOf, Zenon

(* ... and the first free slot is a free slot.                             *)
LEMMA LeastSlot ==
  ASSUME NEW F, F \subseteq Slot, F # {}
  PROVE  (CHOOSE s \in F : \A t \in F : s <= t) \in F
<1>1. F \subseteq Nat
  BY HardwareAssumption DEF Slot
<1>. QED
  BY <1>1, LeastNat, Zenon

(* A step of the interrupt thread outside the part of HandleIrq that looks *)
(* at commands.                                                            *)
LEMMA InterruptGoesOn ==
  ASSUME AInv, UNCHANGED <<hw, port, srv, call>>, HbaType', hba'.ci = hba.ci, IrqType',
         irq.pc \notin {"clear", "clear_store"},
         irq'.pc \notin {"not_issued", "signal", "clear", "clear_store"},
         Handling' => irq'.port \in Port /\ port[irq'.port].loaded
  PROVE  AInv'
<1>1. DriverType'
  BY Zenon DEF AInv, DriverType, SrvType, CallType, Commanding, Marked
<1>2. PortsInv'
  BY Zenon DEF AInv, PortsInv, Commanding, Marked
<1>3. \A p, s : ~Clearing(p, s) /\ ~Clearing(p, s)'
  BY Zenon DEF Clearing
<1>4. Working' /\ Owned'
  BY <1>3, Zenon DEF AInv, SlotInv, Working, Owned, Marked
<1>6. Signalled'
  BY <1>3, Zenon DEF AInv, SlotInv, Signalled
<1>5. Issuing' /\ Finding'
  BY <1>3, Zenon DEF AInv, SlotInv, Issuing, Finding
<1>. QED
  BY <1>1, <1>2, <1>4, <1>5, <1>6, Zenon DEF AInv, SlotInv

(* An interrupt is received: the scan starts at port 0.                    *)
LEMMA ReceiveIrqStep ==
  ASSUME AInv, ReceiveIrq
  PROVE  AInv'
<1>1. IrqType /\ HbaType /\ 0 \in 0..NumPorts
  BY HardwareAssumption DEF AInv, DriverType
<1>2. irq.pc = "recv" /\ irq'.pc = "scan" /\ IrqType'
  BY <1>1 DEF ReceiveIrq, IrqType, IrqFields
<1>3. HbaType' /\ hba'.ci = hba.ci /\ UNCHANGED <<hw, port, srv, call>>
  BY <1>1 DEF ReceiveIrq, HbaType, HbaFields
<1>. QED
  BY <1>2, <1>3, InterruptGoesOn DEF Handling

(* The scan goes on, or stops at a loaded port with its bit set.           *)
LEMMA ScanPortStep ==
  ASSUME AInv, ScanPort
  PROVE  AInv'
<1>1. IrqType /\ HbaType /\ irq.pc = "scan" /\ UNCHANGED <<hba, hw, port, srv, call>>
  BY DEF AInv, DriverType, ScanPort
<1>2. NumPorts \in Nat \ {0} /\ irq.port \in 0..NumPorts
  BY <1>1, HardwareAssumption DEF IrqType
<1>3. HbaType' /\ hba'.ci = hba.ci
  BY <1>1 DEF HbaType
<1>4. CASE irq.port = NumPorts /\ irq' = [irq EXCEPT !.pc = "recv"]
  <2>1. IrqType' /\ irq'.pc = "recv"
    BY <1>1, <1>4 DEF IrqType, IrqFields, Handling
  <2>. QED
    BY <1>1, <1>3, <2>1, InterruptGoesOn DEF Handling
<1>5. CASE irq.port # NumPorts /\ port[irq.port].loaded /\ irq' = [irq EXCEPT !.pc = "ack"]
  <2>1. IrqType' /\ irq'.pc = "ack" /\ irq'.port = irq.port
    BY <1>1, <1>5 DEF IrqType, IrqFields, Handling
  <2>2. irq.port \in Port
    BY <1>2, <1>5 DEF Port
  <2>. QED
    BY <1>1, <1>3, <1>5, <2>1, <2>2, InterruptGoesOn
<1>6. CASE irq.port # NumPorts /\ irq' = [irq EXCEPT !.port = @ + 1]
  <2>1. irq.port + 1 \in 0..NumPorts
    BY <1>2, <1>6
  <2>2. IrqType' /\ irq'.pc = "scan"
    BY <1>1, <1>6, <2>1 DEF IrqType, IrqFields, Handling
  <2>. QED
    BY <1>1, <1>3, <2>2, InterruptGoesOn DEF Handling
<1>. QED
  BY <1>4, <1>5, <1>6 DEF ScanPort

(* The port's status is read and acknowledged.                             *)
LEMMA AcknowledgeStep ==
  ASSUME AInv, ReadStatus \/ AcknowledgeIrq
  PROVE  AInv'
<1>1. /\ IrqType /\ HbaType /\ irq.pc \in {"ack", "ack_store"} /\ Handling
      /\ UNCHANGED <<hw, port, srv, call>>
  BY DEF AInv, DriverType, ReadStatus, AcknowledgeIrq, Handling
<1>2. irq.port \in Port /\ port[irq.port].loaded
  BY <1>1, Zenon DEF AInv, PortsInv
<1>3. HbaType' /\ hba'.ci = hba.ci
  BY <1>1 DEF HbaType, HbaFields, ReadStatus, AcknowledgeIrq
<1>4. /\ IrqType' /\ irq'.port = irq.port
      /\ irq'.pc \in {"ack_store", "finished", "status"}
  <2>1. CASE ReadStatus
    BY <1>1, <2>1 DEF IrqType, IrqFields, Handling, ReadStatus
  <2>2. CASE AcknowledgeIrq
    <3>1. PICK a \in {"finished", "status"} : irq' = [irq EXCEPT !.pc = a]
      BY <2>2 DEF AcknowledgeIrq
    <3>. QED
      BY <1>1, <3>1 DEF IrqType, IrqFields, Handling
  <2>. QED
    BY <2>1, <2>2
<1>. QED
  BY <1>1, <1>2, <1>3, <1>4, InterruptGoesOn

(* The global status is read and written.                                  *)
LEMMA ClearStatusStep ==
  ASSUME AInv, LoadStatus \/ ClearStatus
  PROVE  AInv'
<1>1. /\ IrqType /\ HbaType /\ irq.pc \in {"status", "status_store"} /\ Handling
      /\ UNCHANGED <<hw, port, srv, call>>
  BY DEF AInv, DriverType, LoadStatus, ClearStatus, Handling
<1>2. irq.port \in Port /\ port[irq.port].loaded
  BY <1>1, Zenon DEF AInv, PortsInv
<1>3. HbaType' /\ hba'.ci = hba.ci
  BY <1>1 DEF HbaType, HbaFields, LoadStatus, ClearStatus, WriteInterruptStatus
<1>4. CASE LoadStatus
  <2>1. IrqType' /\ irq'.pc = "status_store" /\ irq'.port = irq.port
    BY <1>1, <1>4 DEF IrqType, IrqFields, Handling, LoadStatus
  <2>. QED
    BY <1>1, <1>2, <1>3, <2>1, InterruptGoesOn
<1>5. CASE ClearStatus
  <2>1. irq.port + 1 \in 0..NumPorts
    BY <1>2, HardwareAssumption DEF Port
  <2>2. IrqType' /\ irq'.pc = "scan"
    BY <1>1, <1>5, <2>1 DEF IrqType, IrqFields, Handling, ClearStatus
  <2>. QED
    BY <1>1, <1>3, <2>2, InterruptGoesOn DEF Handling
<1>. QED
  BY <1>4, <1>5

(* commands_issued_ is read: what is read is there.                        *)
LEMMA ReadIssuedStep ==
  ASSUME AInv, ReadIssued
  PROVE  AInv'
<1>1. /\ IrqType /\ HbaType /\ irq.pc = "finished" /\ Handling
      /\ UNCHANGED <<hba, hw, port, srv, call>>
  BY DEF AInv, DriverType, ReadIssued, Handling
<1>2. /\ IrqType' /\ irq'.pc = "not_issued" /\ irq'.port = irq.port
      /\ irq'.reg = port[irq.port].issued
  BY <1>1 DEF IrqType, IrqFields, Handling, ReadIssued
<1>3. DriverType' /\ PortsInv'
  BY <1>1, <1>2, Zenon DEF AInv, DriverType, HbaType, SrvType, CallType, PortsInv, Commanding,
     Marked, Handling
<1>4. \A p, s : ~Clearing(p, s) /\ ~Clearing(p, s)'
  BY <1>1, <1>2, Zenon DEF Clearing
<1>5. Working' /\ Owned' /\ Signalled'
  BY <1>1, <1>4, Zenon DEF AInv, SlotInv, Working, Owned, Signalled, Marked
<1>6. Issuing' /\ Finding'
  BY <1>1, <1>2, <1>4, Zenon DEF AInv, SlotInv, Issuing, Finding
<1>. QED
  BY <1>3, <1>5, <1>6, Zenon DEF AInv, SlotInv

(* commands_issued_ & ~command_issue: unless it is too early, that is the  *)
(* command the server thread waits for, or nothing.                        *)
LEMMA FindFinishedStep ==
  ASSUME AInv, FindFinished, ~FoundEarly
  PROVE  AInv'
<1>1. /\ IrqType /\ HbaType /\ irq.pc = "not_issued" /\ Handling
      /\ UNCHANGED <<hba, hw, port, srv, call>>
  BY DEF AInv, DriverType, FindFinished, Handling
<1>2. /\ IrqType' /\ irq'.pc = "signal" /\ irq'.port = irq.port
      /\ irq'.finished = irq.reg \ hba.ci[irq.port]
  BY <1>1 DEF IrqType, IrqFields, FindFinished, Handling
<1>3. DriverType' /\ PortsInv'
  BY <1>1, <1>2, Zenon DEF AInv, DriverType, HbaType, SrvType, CallType, PortsInv, Commanding,
     Marked, Handling
<1>4. \A p, s : ~Clearing(p, s) /\ ~Clearing(p, s)'
  BY <1>1, <1>2, Zenon DEF Clearing
<1>5. Working' /\ Owned' /\ Issuing'
  BY <1>1, <1>4, Zenon DEF AInv, SlotInv, Working, Owned, Issuing, Marked
<1>6. Signalled'
  BY <1>1, <1>4, Zenon DEF AInv, SlotInv, Signalled
<1>7. irq.port \in Port /\ port[irq.port].issued \in SUBSET Slot
  BY <1>1, Zenon DEF AInv, PortsInv, DriverType, AhciPorts
<1>8. ASSUME NEW s \in irq'.finished
      PROVE  /\ srv.pc = "wait" /\ irq.port = srv.port /\ s = srv.slot
             /\ s \in port[irq.port].issued /\ hba.ci[irq.port] = {}
             /\ port[irq.port].sem[s] = 0
  <2>1. s \in port[irq.port].issued /\ s \notin hba.ci[irq.port] /\ s \in Slot
    BY <1>1, <1>2, <1>7, <1>8, Zenon DEF AInv, SlotInv, Finding
  <2>2. Marked /\ irq.port = srv.port /\ s = srv.slot
    BY <1>4, <1>7, <2>1, Zenon DEF AInv, SlotInv, Owned
  <2>3. srv.pc = "wait"
    BY <1>8, <2>2, Zenon DEF FoundEarly, Marked
  <2>4. hba.ci[irq.port] = {}
    BY <1>7, <2>1, <2>2, Zenon DEF AInv, SlotInv, Working
  <2>5. port[irq.port].sem[s] = 0
    BY <1>4, <1>7, <2>1, Zenon DEF AInv, SlotInv, Signalled
  <2>. QED
    BY <2>1, <2>2, <2>3, <2>4, <2>5
<1>9. Finding'
  BY <1>1, <1>2, <1>8, Zenon DEF Finding
<1>. QED
  BY <1>3, <1>5, <1>6, <1>9, Zenon DEF AInv, SlotInv

(* The command is signalled, once, and its bit is now the interrupt        *)
(* thread's.                                                               *)
LEMMA SignalFinishedStep ==
  ASSUME AInv, SignalFinished
  PROVE  AInv'
<1>1. /\ IrqType /\ HbaType /\ irq.pc = "signal" /\ Handling
      /\ UNCHANGED <<hba, hw, srv, call>>
  BY DEF AInv, DriverType, SignalFinished, Handling
<1>2. irq.port \in Port /\ port[irq.port].loaded
  BY <1>1, Zenon DEF AInv, PortsInv
<1>3. CASE irq.finished = {}
  <2>1. IrqType' /\ irq'.pc = "status" /\ irq'.port = irq.port /\ UNCHANGED port
    BY <1>1, <1>3 DEF IrqType, IrqFields, SignalFinished, Handling
  <2>2. HbaType'
    BY <1>1, Zenon DEF HbaType
  <2>. QED
    BY <1>1, <1>2, <2>1, <2>2, InterruptGoesOn
<1>4. CASE irq.finished # {}
  <2>. DEFINE P == srv.port
              S == srv.slot
  <2>1. /\ srv.pc = "wait" /\ irq.port = P /\ irq.finished = {S} /\ P \in Port
        /\ S \in port[P].issued /\ hba.ci[P] = {} /\ port[P].sem[S] = 0
    <3>1. \A s \in irq.finished :
            /\ srv.pc = "wait" /\ irq.port = srv.port /\ s = srv.slot
            /\ s \in port[irq.port].issued /\ hba.ci[irq.port] = {}
            /\ port[irq.port].sem[s] = 0
      BY <1>1, Zenon DEF AInv, SlotInv, Finding
    <3>. QED
      BY <1>2, <1>4, <3>1, Zenon
  <2>2. S \in Slot /\ S <= S
    BY HardwareAssumption DEF AInv, DriverType, SrvType, Slot
  <2>3. S = CHOOSE s \in irq.finished : \A t \in irq.finished : s <= t
    BY <2>1, <2>2
  <2>4. /\ port' = [port EXCEPT ![P].sem[S] = @ + 1]
        /\ irq' = [irq EXCEPT !.pc = "clear", !.slot = S]
    BY <1>4, <2>1, <2>3, Zenon DEF SignalFinished
  <2>. HIDE DEF P, S
  <2>5. /\ IrqType' /\ irq'.pc = "clear" /\ irq'.port = P /\ irq'.slot = S
        /\ irq'.finished = {S}
    BY <1>1, <2>1, <2>2, <2>4 DEF IrqType, IrqFields, Handling
  <2>6. /\ port' \in [Port -> AhciPorts]
        /\ \A p \in Port : /\ port'[p].issued = port[p].issued
                           /\ port'[p].loaded = port[p].loaded
                           /\ \A s \in Slot : port'[p].sem[s] =
                                IF p = P /\ s = S THEN 1 ELSE port[p].sem[s]
    <3>1. port \in [Port -> AhciPorts]
      BY DEF AInv, DriverType
    <3>2. port[P].sem \in [Slot -> Nat] /\ port[P].sem[S] + 1 = 1
      BY <2>1, <2>2, <3>1 DEF AhciPorts
    <3>. QED
      BY <2>1, <2>2, <2>4, <3>1, <3>2, SMTT(30) DEF AhciPorts
  <2>7. DriverType'
    BY <1>1, <2>5, <2>6, Zenon DEF AInv, DriverType, HbaType, SrvType, CallType, Commanding, Marked
  <2>8. PortsInv'
    BY <1>1, <1>2, <2>1, <2>5, <2>6, ZenonT(40) DEF AInv, PortsInv, Commanding, Marked, Handling
  <2>9. /\ \A p, s : ~Clearing(p, s)
        /\ \A p, s : Clearing(p, s)' <=> p = P /\ s = S
    BY <1>1, <2>5, Zenon DEF Clearing
  <2>10. Working' /\ Owned'
    BY <1>1, <2>1, <2>6, <2>9, ZenonT(40) DEF AInv, SlotInv, Working, Owned, Marked
  <2>11. Issuing' /\ Finding'
    BY <1>1, <2>1, <2>5, <2>6, Zenon DEF Issuing, Finding
  <2>12. Signalled'
    <3>1. \A p \in Port, s \in Slot : (p = P /\ s = S) \/ port[p].sem[s] = 0
      BY <1>1, <2>1, <2>9, Zenon DEF AInv, SlotInv, Signalled, P, S
    <3>2. \A p \in Port, s \in Slot :
            port'[p].sem[s] = 0 \/ (port'[p].sem[s] = 1 /\ p = P /\ s = S)
      <4>. TAKE p \in Port, s \in Slot
      <4>1. CASE p = P /\ s = S
        BY <2>6, <4>1, SMT
      <4>2. CASE ~(p = P /\ s = S)
        BY <2>6, <3>1, <4>2, SMT
      <4>. QED
        BY <4>1, <4>2
    <3>. QED
      BY <1>1, <2>1, <2>9, <3>2, Zenon DEF Signalled, P, S
  <2>. QED
    BY <2>7, <2>8, <2>10, <2>11, <2>12, Zenon DEF AInv, SlotInv
<1>. QED
  BY <1>3, <1>4

(* The bits are loaded once more, and stored without that of the command:  *)
(* unless the server thread has marked another in between, just that bit   *)
(* goes.                                                                   *)
LEMMA LoadToClearStep ==
  ASSUME AInv, LoadToClear
  PROVE  AInv'
<1>1. /\ IrqType /\ HbaType /\ irq.pc = "clear" /\ Handling
      /\ UNCHANGED <<hba, hw, port, srv, call>>
  BY DEF AInv, DriverType, LoadToClear, Handling
<1>2. /\ IrqType' /\ irq'.pc = "clear_store" /\ irq'.port = irq.port
      /\ irq'.slot = irq.slot /\ irq'.finished = irq.finished
  BY <1>1 DEF IrqType, IrqFields, LoadToClear, Handling
<1>3. DriverType' /\ PortsInv'
  BY <1>1, <1>2, Zenon DEF AInv, DriverType, HbaType, SrvType, CallType, PortsInv, Commanding,
     Marked, Handling
<1>4. \A p, s : Clearing(p, s)' <=> Clearing(p, s)
  BY <1>1, <1>2, Zenon DEF Clearing
<1>5. Working' /\ Owned' /\ Issuing'
  BY <1>1, <1>4, Zenon DEF AInv, SlotInv, Working, Owned, Issuing, Marked
<1>6. Signalled' /\ Finding'
  BY <1>1, <1>2, <1>4, Zenon DEF AInv, SlotInv, Signalled, Finding
<1>. QED
  BY <1>3, <1>5, <1>6, Zenon DEF AInv, SlotInv

LEMMA ClearIssuedStep ==
  ASSUME AInv, ClearIssued, ~LostUpdate
  PROVE  AInv'
<1>. DEFINE q == irq.port
            z == irq.slot
<1>1. /\ IrqType /\ HbaType /\ irq.pc = "clear_store" /\ Handling
      /\ UNCHANGED <<hba, hw, srv, call>>
  BY DEF AInv, DriverType, ClearIssued, Handling
<1>2. /\ q \in Port /\ port[q].loaded /\ z \in port[q].issued /\ irq.finished = {z}
      /\ \A p, s : Clearing(p, s) <=> p = q /\ s = z
  BY <1>1, Zenon DEF AInv, PortsInv, SlotInv, Finding, Clearing
<1>3. /\ IrqType' /\ irq'.pc = "signal" /\ irq'.port = q /\ irq'.finished = {}
  BY <1>1, <1>2 DEF IrqType, IrqFields, ClearIssued, Handling
<1>4. port' = [port EXCEPT ![q].issued = port[q].issued \ {z}]
  BY Zenon DEF ClearIssued, LostUpdate
<1>5. /\ port' \in [Port -> AhciPorts]
      /\ \A p \in Port : /\ p = q => port'[p].issued = port[p].issued \ {z}
                         /\ p # q => port'[p].issued = port[p].issued
                         /\ port'[p].loaded = port[p].loaded
                         /\ port'[p].sem = port[p].sem
  <2>1. port \in [Port -> AhciPorts]
    BY DEF AInv, DriverType
  <2>. HIDE DEF q, z
  <2>. QED
    BY <1>2, <1>4, <2>1 DEF AhciPorts
<1>6. \A p \in Port : /\ port'[p].issued \subseteq port[p].issued
                      /\ \A s \in port[p].issued : s \in port'[p].issued \/ Clearing(p, s)
                      /\ \A s \in port'[p].issued : ~Clearing(p, s)
  <2>. TAKE p \in Port
  <2>. HIDE DEF q, z
  <2>1. CASE p = q
    BY <1>2, <1>5, <2>1
  <2>2. CASE p # q
    BY <1>2, <1>5, <2>2, Zenon
  <2>. QED
    BY <2>1, <2>2
<1>7. \A p, s : ~Clearing(p, s)'
  BY <1>3, Zenon DEF Clearing
<1>. HIDE DEF q, z
<1>8. DriverType'
  BY <1>1, <1>3, <1>5, Zenon DEF AInv, DriverType, HbaType, SrvType, CallType, Commanding, Marked
<1>9. PortsInv'
  BY <1>1, <1>2, <1>3, <1>5, <1>6, ZenonT(40) DEF AInv, PortsInv, Commanding, Marked
<1>10. Working'
  BY <1>1, <1>6, <1>7, Zenon DEF AInv, SlotInv, Working
<1>11. Owned'
  BY <1>1, <1>6, <1>7, Zenon DEF AInv, SlotInv, Owned, Marked
<1>12. Issuing'
  <2>1. srv.pc \in {"mark", "mark_store", "issue", "issue_store"} => srv.port \in Port
    BY Zenon DEF AInv, PortsInv, Commanding, Marked
  <2>. QED
    BY <1>1, <1>6, <1>7, <2>1, Zenon DEF AInv, SlotInv, Issuing
<1>13. Finding'
  BY <1>3, Zenon DEF Finding
<1>14. Signalled'
  <2>1. \A p \in Port, s \in Slot : s \in port'[p].issued =>
          s \in port[p].issued /\ ~Clearing(p, s)
    BY <1>6, Zenon
  <2>2. \A p \in Port, s \in Slot : port'[p].sem[s] = port[p].sem[s]
    BY <1>5, Zenon
  <2>3. Signalled
    BY Zenon DEF AInv, SlotInv
  <2>. SUFFICES ASSUME NEW p \in Port, NEW s \in Slot, port'[p].sem[s] # 0
                PROVE  /\ port'[p].sem[s] = 1 /\ srv'.pc = "wait"
                       /\ p = srv'.port /\ s = srv'.slot /\ hba'.ci[p] = {}
                       /\ (s \in port'[p].issued => Clearing(p, s)')
    BY Zenon DEF Signalled
  <2>. port[p].sem[s] # 0
    BY <2>2, Zenon
  <2>4. /\ port[p].sem[s] = 1 /\ srv.pc = "wait" /\ p = srv.port /\ s = srv.slot
        /\ hba.ci[p] = {} /\ (s \in port[p].issued => Clearing(p, s))
    BY <2>3, Zenon DEF Signalled
  <2>. QED
    BY <1>1, <2>1, <2>2, <2>4, Zenon
<1>. QED
  BY <1>8, <1>9, <1>10, <1>11, <1>12, <1>13, <1>14, Zenon DEF AInv, SlotInv

(* The adapter finishes the command it was given.                          *)
LEMMA CompleteStep ==
  ASSUME AInv, NEW p \in Port, NEW s \in Slot, Complete(p, s)
  PROVE  AInv'
<1>. DEFINE cmd == hba.table[p][s]
            fis == IF cmd.kind = "identify" THEN {"PIO", "D2H"} ELSE {"D2H"}
<1>1. s \in hba.ci[p] /\ UNCHANGED <<hw, port, irq, call>> /\ HbaType
  BY Zenon DEF Complete, AInv, DriverType
<1>2. srv.pc = "wait" /\ srv.port = p /\ srv.slot = s /\ hba.ci[p] = {s}
  BY <1>1, Zenon DEF AInv, SlotInv, Working
<1>3. /\ srv'.pc = srv.pc /\ srv'.boot = srv.boot /\ srv'.port = srv.port
      /\ srv'.slot = srv.slot /\ srv'.blocks = srv.blocks /\ srv'.reg = srv.reg
      /\ DOMAIN srv' = SrvFields
  BY Zenon DEF Complete, AInv, DriverType, SrvType, SrvFields
<1>4. hba' = [hba EXCEPT !.ci[p] = @ \ {s}, !.pis[p] = @ \cup fis, !.fis[p] = @ \cup fis,
                         !.is = @ \cup {p}, !.irqs = @ + 1]
  BY Zenon DEF Complete
<1>. HIDE DEF fis
<1>5. hba'.ci = [hba.ci EXCEPT ![p] = @ \ {s}] /\ DOMAIN hba' = HbaFields
  BY <1>1, <1>4 DEF HbaType, HbaFields
<1>6. HbaType' /\ \A q \in Port : hba'.ci[q] = {}
  <2>1. \A q \in Port : q # p => hba.ci[q] = {}
    BY <1>2, Zenon DEF AInv, SlotInv, Working
  <2>. QED
    BY <1>1, <1>2, <1>5, <2>1 DEF HbaType
<1>7. DriverType' /\ PortsInv'
  BY <1>1, <1>3, <1>6, Zenon DEF AInv, DriverType, SrvType, IrqType, CallType, PortsInv,
     Commanding, Marked, Handling
<1>8. Working'
  BY <1>6, Zenon DEF Working
<1>9. Owned' /\ Issuing'
  BY <1>1, <1>3, Zenon DEF AInv, SlotInv, Owned, Issuing, Marked, Clearing
<1>10. Finding'
  <2>1. irq.pc = "signal" => irq.port \in Port
    BY Zenon DEF AInv, PortsInv, Handling
  <2>. QED
    BY <1>1, <1>3, <1>6, <2>1, Zenon DEF AInv, SlotInv, Finding
<1>11. Signalled'
  <2>1. Signalled /\ \A q, t : Clearing(q, t)' <=> Clearing(q, t)
    BY <1>1, Zenon DEF AInv, SlotInv, Clearing
  <2>. SUFFICES ASSUME NEW q \in Port, NEW t \in Slot, port'[q].sem[t] # 0
                PROVE  /\ port'[q].sem[t] = 1 /\ srv'.pc = "wait"
                       /\ q = srv'.port /\ t = srv'.slot /\ hba'.ci[q] = {}
                       /\ (t \in port'[q].issued => Clearing(q, t)')
    BY Zenon DEF Signalled
  <2>. port[q].sem[t] # 0
    BY <1>1, Zenon
  <2>2. /\ port[q].sem[t] = 1 /\ srv.pc = "wait" /\ q = srv.port /\ t = srv.slot
        /\ (t \in port[q].issued => Clearing(q, t))
    BY <2>1, Zenon DEF Signalled
  <2>. QED
    BY <1>1, <1>3, <1>6, <2>1, <2>2, Zenon
<1>. QED
  BY <1>7, <1>8, <1>9, <1>10, <1>11, Zenon DEF AInv, SlotInv

(* A step of the server thread between commands.                           *)
LEMMA ServerGoesOn ==
  ASSUME AInv, UNCHANGED <<hw, port, irq>>, SrvType', CallType', HbaType', hba'.ci = hba.ci,
         ~Marked, ~Marked',
         srv'.pc \in {"load", "publish"} =>
           srv'.boot /\ \A p \in Port : p >= srv'.port => ~port[p].loaded,
         srv'.boot => \A p \in Port : p > srv'.port => ~port[p].loaded,
         srv'.pc = "serve" => ~srv'.boot,
         srv'.pc = "publish" => srv'.port \in Port,
         Commanding' => srv'.port \in Port /\ port[srv'.port].loaded,
         srv'.pc \in {"mark", "mark_store"} => srv'.slot \notin port[srv'.port].issued
  PROVE  AInv'
<1>1. DriverType'
  BY Zenon DEF AInv, DriverType, IrqType, Handling
<1>2. PortsInv'
  BY Zenon DEF AInv, PortsInv, Handling
<1>3. srv.pc # "wait" /\ srv'.pc # "wait"
      /\ srv'.pc \notin {"issue", "issue_store"}
  BY Zenon DEF Marked
<1>4. \A p \in Port : hba.ci[p] = {}
  BY <1>3, Zenon DEF AInv, SlotInv, Working
<1>5. \A p, s : Clearing(p, s)' <=> Clearing(p, s)
  BY Zenon DEF Clearing
<1>6. Working' /\ Owned'
  BY <1>4, <1>5, Zenon DEF AInv, SlotInv, Working, Owned
<1>7. Issuing'
  BY <1>3, Zenon DEF Issuing
<1>8. Finding'
  BY <1>3, Zenon DEF AInv, SlotInv, Finding
<1>9. Signalled'
  BY <1>3, Zenon DEF AInv, SlotInv, Signalled
<1>. QED
  BY <1>1, <1>2, <1>6, <1>7, <1>8, <1>9, Zenon DEF AInv, SlotInv

(* IssueCommand takes a slot whose bit is clear, or gives up.              *)
LEMMA SelectSlotStep ==
  ASSUME AInv, SelectSlot
  PROVE  AInv'
<1>. DEFINE free == Slot \ port[srv.port].issued
            slot == CHOOSE s \in free : \A t \in free : s <= t
<1>1. /\ srv.pc = "select" /\ UNCHANGED <<hw, port, irq>>
      /\ srv.port \in Port /\ port[srv.port].loaded
      /\ srv.boot => \A p \in Port : p > srv.port => ~port[p].loaded
  BY DEF SelectSlot, AInv, PortsInv, Commanding
<1>2. SrvType /\ CallType /\ HbaType
  BY DEF AInv, DriverType
<1>3. CASE free = {}
  <2>1. hba' = hba
    BY <1>3 DEF SelectSlot
  <2>2. \/ srv.boot /\ srv' = [srv EXCEPT !.pc = "ended"] /\ UNCHANGED call
        \/ ~srv.boot /\ srv' = [srv EXCEPT !.pc = "serve", !.blocks = <<>>] /\ call' = NoCall
    BY <1>3 DEF SelectSlot, Reply
  <2>3. /\ CallType' /\ SrvType' /\ srv'.port = srv.port /\ srv'.boot = srv.boot
        /\ srv'.pc \in {"ended", "serve"} /\ (srv'.pc = "serve" => ~srv.boot)
    BY <1>2, <2>2, Zenon DEF CallType, SrvType, SrvFields
  <2>4. HbaType' /\ ~Marked /\ ~Commanding' /\ ~Marked'
    BY <1>1, <1>2, <2>1, <2>3 DEF HbaType, Commanding, Marked
  <2>. QED
    BY <1>1, <2>1, <2>3, <2>4, ServerGoesOn, Zenon
<1>4. CASE free # {}
  <2>1. slot \in Slot /\ slot \notin port[srv.port].issued
    BY <1>4, LeastSlot, Zenon
  <2>2. /\ hba' = [hba EXCEPT !.table[srv.port][slot] = Command]
        /\ srv' = [srv EXCEPT !.pc = "mark", !.slot = slot]
        /\ call' = call
    BY <1>4 DEF SelectSlot
  <2>. HIDE DEF slot
  <2>3. HbaType' /\ hba'.ci = hba.ci
    BY <1>2, <2>2 DEF HbaType, HbaFields
  <2>4. /\ SrvType' /\ srv'.pc = "mark" /\ srv'.slot = slot /\ srv'.port = srv.port
        /\ srv'.boot = srv.boot
    BY <1>2, <2>1, <2>2 DEF SrvType, SrvFields, Commanding
  <2>5. CallType' /\ ~Marked /\ ~Marked'
    BY <1>1, <1>2, <2>2, <2>4 DEF CallType, Marked
  <2>. QED
    BY <1>1, <2>1, <2>3, <2>4, <2>5, ServerGoesOn, Zenon
<1>. QED
  BY <1>3, <1>4

(* commands_issued_ is loaded.                                             *)
LEMMA LoadIssuedStep ==
  ASSUME AInv, LoadIssued
  PROVE  AInv'
<1>1. /\ srv.pc = "mark" /\ UNCHANGED <<hw, hba, port, irq, call>>
      /\ srv.port \in Port /\ port[srv.port].loaded
      /\ srv.slot \notin port[srv.port].issued
      /\ srv.boot => \A p \in Port : p > srv.port => ~port[p].loaded
  BY DEF LoadIssued, AInv, PortsInv, Commanding, SlotInv, Issuing
<1>2. SrvType /\ CallType /\ HbaType
  BY DEF AInv, DriverType
<1>3. /\ SrvType' /\ srv'.pc = "mark_store" /\ srv'.slot = srv.slot /\ srv'.port = srv.port
      /\ srv'.boot = srv.boot
  BY <1>2 DEF LoadIssued, SrvType, SrvFields, Commanding
<1>4. CallType' /\ HbaType' /\ ~Marked /\ ~Marked'
  BY <1>1, <1>2, <1>3 DEF CallType, HbaType, Marked
<1>. QED
  BY <1>1, <1>3, <1>4, ServerGoesOn, Zenon

(* A request is refused, or its first command is begun on a loaded port.   *)
LEMMA HandleReadManyStep ==
  ASSUME AInv, HandleReadMany
  PROVE  AInv'
<1>. DEFINE dev == call.device
            fresh == [k \in 1..Len(Sectors(call.blocks)) |-> NoData]
<1>1. /\ srv.pc = "serve" /\ UNCHANGED <<hw, hba, port, irq>> /\ call # NoCall
      /\ ~srv.boot /\ ~Marked
  BY DEF HandleReadMany, AInv, PortsInv, Marked
<1>2. SrvType /\ CallType /\ HbaType /\ HbaType'
  BY <1>1 DEF AInv, DriverType, HbaType
<1>3. dev = Device /\ dev \in Nat
  BY <1>1, <1>2, DeviceAssumption DEF CallType
<1>4. CASE \E status : Reply(status)
  <2>1. CallType' /\ SrvType' /\ srv'.pc = "serve" /\ srv'.boot = srv.boot
    BY <1>2, <1>4 DEF Reply, CallType, SrvType, SrvFields
  <2>2. ~Commanding' /\ ~Marked'
    BY <2>1 DEF Commanding, Marked
  <2>. QED
    BY <1>1, <1>2, <2>1, <2>2, ServerGoesOn, Zenon
<1>5. CASE srv' = [srv EXCEPT !.pc = "ended"] /\ UNCHANGED call
  <2>1. CallType' /\ SrvType' /\ srv'.pc = "ended" /\ srv'.boot = srv.boot
    BY <1>2, <1>5 DEF CallType, SrvType, SrvFields
  <2>2. ~Commanding' /\ ~Marked'
    BY <2>1 DEF Commanding, Marked
  <2>. QED
    BY <1>1, <1>2, <2>1, <2>2, ServerGoesOn, Zenon
<1>6. CASE /\ GetDevice(dev) = "OK" /\ UNCHANGED call
           /\ srv' = [srv EXCEPT !.pc = "select", !.port = dev, !.offset = 0,
                                 !.blocks = call.blocks, !.region = fresh]
  <2>1. dev \in Port /\ port[dev].loaded
    BY <1>3, <1>6, HardwareAssumption DEF GetDevice, Port
  <2>. HIDE DEF fresh, dev
  <2>2. CallType'
    BY <1>2, <1>6 DEF CallType
  <2>3. /\ SrvType' /\ srv'.pc = "select" /\ srv'.port = dev /\ srv'.boot = srv.boot
    BY <1>1, <1>2, <1>3, <1>6 DEF SrvType, SrvFields, Commanding
  <2>4. ~Marked'
    BY <2>3 DEF Marked
  <2>. QED
    BY <1>1, <1>2, <2>1, <2>2, <2>3, <2>4, ServerGoesOn, Zenon
<1>. QED
  BY <1>4, <1>5, <1>6 DEF HandleReadMany

(* The boot loop starts a port, or goes to its next one.                   *)
LEMMA LoadPortsStep ==
  ASSUME AInv, LoadPorts
  PROVE  AInv'
<1>1. /\ srv.pc = "load" /\ UNCHANGED <<hw, port, irq, call>> /\ ~Marked
      /\ srv.boot /\ \A p \in Port : p >= srv.port => ~port[p].loaded
      /\ \A p \in Port : p > srv.port => ~port[p].loaded
  BY DEF LoadPorts, AInv, PortsInv, Marked
<1>2. SrvType /\ HbaType /\ CallType'
  BY <1>1 DEF AInv, DriverType, CallType
<1>3. CASE srv.port > NumPorts
  <2>1. srv' = [srv EXCEPT !.pc = "serve", !.boot = FALSE] /\ UNCHANGED hba
    BY <1>3 DEF LoadPorts
  <2>2. SrvType' /\ srv'.pc = "serve" /\ ~srv'.boot /\ HbaType'
    BY <1>2, <2>1 DEF SrvType, SrvFields, HbaType
  <2>3. ~Commanding' /\ ~Marked'
    BY <2>2 DEF Commanding, Marked
  <2>. QED
    BY <1>1, <1>2, <2>1, <2>2, <2>3, ServerGoesOn, Zenon
<1>4. CASE srv.port <= NumPorts /\ srv.port \notin hw.disks \cup hw.others
  <2>1. srv' = [srv EXCEPT !.port = @ + 1] /\ UNCHANGED hba
    BY <1>2, <1>4, HardwareAssumption DEF LoadPorts, SrvType
  <2>2. /\ SrvType' /\ srv'.pc = "load" /\ srv'.boot = srv.boot /\ srv'.port = srv.port + 1
        /\ HbaType'
    <3>1. /\ srv'.pc = srv.pc /\ srv'.boot = srv.boot /\ srv'.slot = srv.slot
          /\ srv'.blocks = srv.blocks /\ srv'.port = srv.port + 1 /\ DOMAIN srv' = SrvFields
      BY <1>2, <2>1, Zenon DEF SrvType, SrvFields
    <3>2. srv'.port \in Nat
      BY <1>2, <3>1 DEF SrvType
    <3>. QED
      BY <1>1, <1>2, <2>1, <3>1, <3>2, Zenon DEF SrvType, HbaType
  <2>3. srv.port \in Nat /\ Port = 0..(NumPorts - 1) /\ NumPorts \in Nat
    BY <1>2, Machine, Zenon DEF SrvType, AInv, DriverType
  <2>4. /\ \A p \in Port : p >= srv.port + 1 => ~port[p].loaded
        /\ \A p \in Port : p > srv.port + 1 => ~port[p].loaded
    BY <1>1, <2>3
  <2>5. ~Commanding' /\ ~Marked'
    BY <2>2 DEF Commanding, Marked
  <2>. QED
    BY <1>1, <1>2, <2>1, <2>2, <2>4, <2>5, ServerGoesOn, Zenon
<1>5. CASE srv.port \in hw.disks \cup hw.others
  <2>1. srv.port \in Port /\ ~(srv.port > NumPorts)
    BY <1>5, Machine DEF AInv, DriverType
  <2>2. /\ srv' = [srv EXCEPT !.pc = "publish"]
        /\ \/ hba' = hba
           \/ hba' = [hba EXCEPT !.pis[srv.port] = {"D2H"}, !.fis[srv.port] = {"D2H"},
                                 !.is = @ \cup {srv.port}, !.irqs = @ + 1]
    BY <1>5, <2>1, Zenon DEF LoadPorts
  <2>3. SrvType' /\ srv'.pc = "publish" /\ srv'.boot = srv.boot /\ srv'.port = srv.port
    BY <1>1, <1>2, <2>2, Zenon DEF SrvType, SrvFields
  <2>4. HbaType' /\ hba'.ci = hba.ci
    BY <1>2, <2>2, Zenon DEF HbaType, HbaFields
  <2>5. ~Commanding' /\ ~Marked'
    BY <2>3 DEF Commanding, Marked
  <2>. QED
    BY <1>1, <1>2, <2>1, <2>3, <2>4, <2>5, ServerGoesOn, Zenon
<1>6. srv.port \in Nat /\ NumPorts \in Nat
  BY <1>2, HardwareAssumption DEF SrvType
<1>. QED
  BY <1>3, <1>4, <1>5, <1>6

(* ports_ gets the object of the port: no bit of it was set before.        *)
LEMMA PublishPortStep ==
  ASSUME AInv, PublishPort
  PROVE  AInv'
<1>. DEFINE q == srv.port
<1>1. /\ srv.pc = "publish" /\ UNCHANGED <<hw, hba, irq, call>> /\ srv.boot /\ q \in Port
      /\ \A p \in Port : p >= q => ~port[p].loaded
      /\ \A p \in Port : p > q => ~port[p].loaded
      /\ port' = [port EXCEPT ![q] = AhciPort]
  BY DEF PublishPort, AInv, PortsInv
<1>2. SrvType /\ CallType' /\ HbaType' /\ IrqType' /\ hw' \in Hardware
  BY <1>1, Zenon DEF AInv, DriverType, CallType, HbaType, IrqType, Handling
<1>3. port \in [Port -> AhciPorts] /\ AhciPort \in AhciPorts /\ q \in Nat
  BY <1>2 DEF AInv, DriverType, AhciPort, AhciPorts, SrvType
<1>4. /\ port' \in [Port -> AhciPorts]
      /\ \A p \in Port : p # q => port'[p] = port[p]
      /\ port'[q].loaded /\ port'[q].issued = {} /\ \A s \in Slot : port'[q].sem[s] = 0
  BY <1>1, <1>3, Zenon DEF AhciPort
<1>5. /\ SrvType' /\ srv'.boot = srv.boot
      /\ \/ srv'.pc = "select" /\ srv'.port = q
         \/ srv'.pc = "load" /\ srv'.port = q + 1
  <2>1. CASE srv' = [srv EXCEPT !.pc = "select"]
    BY <1>2, <2>1, Zenon DEF SrvType, SrvFields, Commanding
  <2>2. CASE srv' = [srv EXCEPT !.pc = "load", !.port = @ + 1]
    <3>1. /\ srv'.pc = "load" /\ srv'.boot = srv.boot /\ srv'.slot = srv.slot
          /\ srv'.blocks = srv.blocks /\ srv'.port = srv.port + 1 /\ DOMAIN srv' = SrvFields
      BY <1>2, <2>2, Zenon DEF SrvType, SrvFields
    <3>2. srv'.port \in Nat
      BY <1>3, <3>1
    <3>. QED
      BY <1>2, <3>1, <3>2, Zenon DEF SrvType
  <2>. QED
    BY <2>1, <2>2, Zenon DEF PublishPort
<1>6. DriverType'
  BY <1>2, <1>4, <1>5, Zenon DEF DriverType
<1>. HIDE DEF q
<1>7. ~port[q].loaded /\ port[q].issued = {}
  <2>1. q >= q
    BY <1>3
  <2>. QED
    BY <1>1, <2>1, Zenon DEF AInv, PortsInv
<1>8. \A p \in Port : port'[p].issued = port[p].issued /\ (port[p].loaded => port'[p].loaded)
  BY <1>4, <1>7, Zenon
<1>9. PortsInv'
  <2>1. \A p \in Port : p > q => ~port'[p].loaded
    <3>1. \A p \in Port : p > q => p # q
      BY <1>3
    <3>. QED
      BY <1>1, <1>4, <3>1, Zenon
  <2>2. /\ \A p \in Port : port'[p].issued # {} => port'[p].loaded
        /\ Handling' => irq'.port \in Port /\ port'[irq'.port].loaded
    BY <1>1, <1>8, Zenon DEF AInv, PortsInv, Handling
  <2>3. CASE srv'.pc = "select" /\ srv'.port = q
    <3>1. srv'.port \in Port /\ port'[srv'.port].loaded
      BY <1>1, <1>4, <2>3, Zenon
    <3>2. srv'.boot => \A p \in Port : p > srv'.port => ~port'[p].loaded
      BY <2>1, <2>3, Zenon
    <3>. QED
      BY <2>2, <2>3, <3>1, <3>2, Zenon DEF PortsInv
  <2>4. CASE srv'.pc = "load" /\ srv'.port = q + 1
    <3>1. /\ \A p \in Port : p >= q + 1 => ~port'[p].loaded
          /\ \A p \in Port : p > q + 1 => ~port'[p].loaded
      <4>1. \A p \in Port : p \in Nat
        BY HardwareAssumption DEF Port
      <4>2. \A p \in Port : (p >= q + 1 => p > q) /\ (p > q + 1 => p > q)
        BY <1>3, <4>1
      <4>. QED
        BY <2>1, <4>2, Zenon
    <3>. QED
      BY <1>1, <1>5, <2>2, <2>4, <3>1, Zenon DEF PortsInv, Commanding, Marked
  <2>. QED
    BY <1>5, <2>3, <2>4
<1>10. SlotInv'
  <2>1. srv.pc # "wait" /\ srv'.pc \in {"select", "load"} /\ ~Marked
    BY <1>1, <1>5, Zenon DEF Marked
  <2>2. \A p \in Port : hba.ci[p] = {}
    BY <2>1, Zenon DEF AInv, SlotInv, Working
  <2>3. \A p, s : Clearing(p, s)' <=> Clearing(p, s)
    BY <1>1, Zenon DEF Clearing
  <2>4. Working' /\ Issuing'
    BY <1>1, <2>1, <2>2, Zenon DEF Working, Issuing
  <2>5. Owned'
    BY <1>8, <2>1, <2>3, Zenon DEF AInv, SlotInv, Owned
  <2>6. Finding'
    <3>1. irq.pc \in {"not_issued", "signal", "clear", "clear_store"} => irq.port \in Port
      BY Zenon DEF AInv, PortsInv, Handling
    <3>. QED
      BY <1>1, <1>8, <2>1, <3>1, Zenon DEF AInv, SlotInv, Finding
  <2>7. Signalled'
    <3>1. \A p \in Port, s \in Slot : port[p].sem[s] = 0
      BY <2>1, Zenon DEF AInv, SlotInv, Signalled
    <3>2. \A p \in Port, s \in Slot : port'[p].sem[s] = 0
      BY <1>4, <3>1, Zenon
    <3>. QED
      BY <3>2, Zenon DEF Signalled
  <2>. QED
    BY <2>4, <2>5, <2>6, <2>7 DEF SlotInv
<1>. QED
  BY <1>6, <1>9, <1>10 DEF AInv

(* Unless the interrupt thread has cleared a bit in between, storing       *)
(* commands_issued_ adds just the bit of the slot, which it does not hold. *)
LEMMA MarkIssuedStep ==
  ASSUME AInv, MarkIssued, ~LostUpdate
  PROVE  AInv'
<1>. DEFINE q == srv.port
            z == srv.slot
<1>1. /\ srv.pc = "mark_store" /\ UNCHANGED <<hw, hba, irq, call>>
      /\ q \in Port /\ port[q].loaded /\ z \notin port[q].issued /\ z \in Slot
  BY DEF MarkIssued, AInv, PortsInv, Commanding, SlotInv, Issuing, DriverType, SrvType
<1>2. SrvType /\ CallType' /\ HbaType' /\ IrqType' /\ hw' \in Hardware
  BY <1>1, Zenon DEF AInv, DriverType, CallType, HbaType, IrqType, Handling
<1>3. port' = [port EXCEPT ![q].issued = port[q].issued \cup {z}]
  BY Zenon DEF MarkIssued, LostUpdate
<1>4. /\ SrvType' /\ srv'.pc = "issue" /\ srv'.port = srv.port /\ srv'.slot = srv.slot
      /\ srv'.boot = srv.boot
  BY <1>2 DEF MarkIssued, SrvType, SrvFields, Commanding, Marked
<1>. HIDE DEF q, z
<1>5. /\ port' \in [Port -> AhciPorts]
      /\ \A p \in Port : /\ port'[p].loaded = port[p].loaded /\ port'[p].sem = port[p].sem
                         /\ p # q => port'[p].issued = port[p].issued
      /\ port'[q].issued = port[q].issued \cup {z}
  <2>1. port \in [Port -> AhciPorts]
    BY DEF AInv, DriverType
  <2>. QED
    BY <1>1, <1>3, <2>1, SMTT(30) DEF AhciPorts
<1>6. DriverType'
  BY <1>2, <1>4, <1>5, Zenon DEF DriverType
<1>7. \A p \in Port : /\ port[p].issued \subseteq port'[p].issued
                      /\ \A s \in port'[p].issued : s \in port[p].issued \/ (p = q /\ s = z)
  BY <1>5
<1>8. PortsInv'
  <2>1. srv'.port \in Port /\ port'[srv'.port].loaded
    BY <1>1, <1>4, <1>5, Zenon DEF q
  <2>2. srv'.boot => \A p \in Port : p > srv'.port => ~port'[p].loaded
    BY <1>4, <1>5, Zenon DEF AInv, PortsInv
  <2>3. Handling' => irq'.port \in Port /\ port'[irq'.port].loaded
    BY <1>1, <1>5, Zenon DEF AInv, PortsInv, Handling
  <2>4. \A p \in Port : port'[p].issued # {} => port'[p].loaded
    BY <1>1, <1>5, Zenon DEF AInv, PortsInv
  <2>. QED
    BY <1>4, <2>1, <2>2, <2>3, <2>4, Zenon DEF PortsInv
<1>9. SlotInv'
  <2>1. srv.pc # "wait" /\ ~Marked
    BY <1>1, Zenon DEF Marked
  <2>2. \A p \in Port : hba.ci[p] = {}
    BY <2>1, Zenon DEF AInv, SlotInv, Working
  <2>3. \A p, s : Clearing(p, s)' <=> Clearing(p, s)
    BY <1>1, Zenon DEF Clearing
  <2>4. ~Clearing(q, z)
    BY <1>1, Zenon DEF AInv, SlotInv, Finding, Clearing
  <2>5. Working'
    BY <1>1, <2>2, Zenon DEF Working
  <2>6. Owned'
    BY <1>4, <1>7, <2>1, <2>3, Zenon DEF AInv, SlotInv, Owned, Marked, q, z
  <2>7. Issuing'
    <3>1. z \in port'[q].issued /\ srv'.port = q /\ srv'.slot = z
      BY <1>4, <1>5 DEF q, z
    <3>2. ~Clearing(srv.port, srv.slot)'
      BY <1>1, <2>4, <3>1, Zenon DEF Clearing
    <3>. QED
      BY <1>4, <3>1, <3>2, Zenon DEF Issuing
  <2>8. Finding'
    <3>1. irq.pc \in {"not_issued", "signal", "clear", "clear_store"} => irq.port \in Port
      BY Zenon DEF AInv, PortsInv, Handling
    <3>2. irq'.pc = "not_issued" => irq'.reg \subseteq port'[irq'.port].issued
      BY <1>1, <1>7, <3>1, Zenon DEF AInv, SlotInv, Finding
    <3>3. irq'.pc = "signal" => irq'.finished = {}
      BY <1>1, <2>1, Zenon DEF AInv, SlotInv, Finding
    <3>4. irq'.pc \in {"clear", "clear_store"} =>
            irq'.slot \in port'[irq'.port].issued /\ irq'.finished = {irq'.slot}
      BY <1>1, <1>7, <3>1, Zenon DEF AInv, SlotInv, Finding
    <3>. QED
      BY <3>2, <3>3, <3>4, Zenon DEF Finding
  <2>9. Signalled'
    <3>1. \A p \in Port, s \in Slot : port[p].sem[s] = 0
      BY <2>1, Zenon DEF AInv, SlotInv, Signalled
    <3>. QED
      BY <1>5, <3>1, Zenon DEF Signalled
  <2>. QED
    BY <2>5, <2>6, <2>7, <2>8, <2>9 DEF SlotInv
<1>. QED
  BY <1>6, <1>8, <1>9 DEF AInv

(* command_issue is loaded: the adapter has no command.                    *)
LEMMA LoadCommandIssueStep ==
  ASSUME AInv, LoadCommandIssue
  PROVE  AInv'
<1>1. /\ srv.pc = "issue" /\ UNCHANGED <<hw, hba, port, irq, call>> /\ srv.port \in Port
  BY DEF LoadCommandIssue, AInv, PortsInv, Commanding, Marked
<1>2. \A p \in Port : hba.ci[p] = {}
  BY <1>1, Zenon DEF AInv, SlotInv, Working
<1>3. /\ SrvType' /\ srv'.pc = "issue_store" /\ srv'.port = srv.port /\ srv'.slot = srv.slot
      /\ srv'.boot = srv.boot /\ srv'.reg = {}
  BY <1>1, <1>2 DEF LoadCommandIssue, AInv, DriverType, SrvType, SrvFields, Commanding, Marked
<1>4. DriverType'
  BY <1>1, <1>3, Zenon DEF AInv, DriverType, CallType, HbaType, IrqType, Handling
<1>5. PortsInv'
  BY <1>1, <1>3, Zenon DEF AInv, PortsInv, Commanding, Marked, Handling
<1>6. \A p, s : Clearing(p, s)' <=> Clearing(p, s)
  BY <1>1, Zenon DEF Clearing
<1>7. Working' /\ Owned'
  BY <1>1, <1>2, <1>3, <1>6, Zenon DEF AInv, SlotInv, Working, Owned, Marked
<1>8. Issuing'
  <2>1. ~Clearing(srv.port, srv.slot)' /\ srv.slot \in port[srv.port].issued
    BY <1>1, <1>3, Zenon DEF AInv, SlotInv, Issuing, Clearing
  <2>. QED
    BY <1>1, <1>3, <2>1, Zenon DEF Issuing
<1>9. Finding'
  BY <1>1, <1>3, Zenon DEF AInv, SlotInv, Finding
<1>10. Signalled'
  BY <1>1, Zenon DEF AInv, SlotInv, Signalled
<1>. QED
  BY <1>4, <1>5, <1>7, <1>8, <1>9, <1>10, Zenon DEF AInv, SlotInv

(* The adapter is given the command.                                       *)
LEMMA CommandIssueStep ==
  ASSUME AInv, CommandIssue
  PROVE  AInv'
<1>1. /\ srv.pc = "issue_store" /\ UNCHANGED <<hw, port, irq, call>> /\ srv.reg = {}
      /\ srv.port \in Port /\ srv.slot \in Slot
      /\ srv.slot \in port[srv.port].issued /\ ~Clearing(srv.port, srv.slot)
  BY DEF CommandIssue, AInv, PortsInv, Commanding, Marked, SlotInv, Issuing, DriverType, SrvType
<1>2. HbaType /\ SrvType /\ \A p \in Port : hba.ci[p] = {}
  BY <1>1, Zenon DEF AInv, SlotInv, Working, DriverType
<1>3. /\ SrvType' /\ srv'.pc = "wait" /\ srv'.port = srv.port /\ srv'.slot = srv.slot
      /\ srv'.boot = srv.boot
  BY <1>2 DEF CommandIssue, SrvType, SrvFields, Commanding, Marked
<1>4. hba'.ci = [hba.ci EXCEPT ![srv.port] = @ \cup srv.reg \cup {srv.slot}]
      /\ DOMAIN hba' = HbaFields
  BY <1>2 DEF CommandIssue, HbaType, HbaFields
<1>5. /\ HbaType' /\ hba'.ci[srv.port] = {srv.slot}
      /\ \A p \in Port : p # srv.port => hba'.ci[p] = {}
  BY <1>1, <1>2, <1>4 DEF HbaType
<1>6. DriverType'
  BY <1>1, <1>3, <1>5, Zenon DEF AInv, DriverType, CallType, IrqType, Handling
<1>7. PortsInv'
  BY <1>1, <1>3, Zenon DEF AInv, PortsInv, Commanding, Marked, Handling
<1>8. \A p, s : Clearing(p, s)' <=> Clearing(p, s)
  BY <1>1, Zenon DEF Clearing
<1>9. Working'
  <2>1. ~Clearing(srv.port, srv.slot)'
    BY <1>1, <1>3, Zenon DEF Clearing
  <2>. SUFFICES ASSUME NEW p \in Port, hba'.ci[p] # {}
                PROVE  /\ srv'.pc = "wait" /\ p = srv'.port /\ hba'.ci[p] = {srv'.slot}
                       /\ srv'.slot \in port'[p].issued /\ ~Clearing(p, srv.slot)'
    BY Zenon DEF Working
  <2>2. p = srv.port
    BY <1>5, Zenon
  <2>. QED
    BY <1>1, <1>3, <1>5, <2>1, <2>2, Zenon
<1>10. Owned'
  BY <1>1, <1>3, <1>8, Zenon DEF AInv, SlotInv, Owned, Marked
<1>11. Issuing'
  BY <1>3, Zenon DEF Issuing
<1>12. Finding'
  BY <1>1, Zenon DEF AInv, SlotInv, Finding
<1>13. Signalled'
  BY <1>1, Zenon DEF AInv, SlotInv, Signalled
<1>. QED
  BY <1>6, <1>7, <1>9, <1>10, <1>11, <1>12, <1>13, Zenon DEF AInv, SlotInv

(* Where the server thread goes after its wait.                            *)
LEMMA AfterWait ==
  ASSUME SrvType, CallType, Waited
  PROVE  /\ SrvType' /\ CallType' /\ srv'.boot = srv.boot
         /\ \/ srv'.pc = "serve" /\ ~srv.boot
            \/ srv'.pc = "load" /\ srv.boot /\ srv'.port = srv.port + 1
            \/ srv'.pc = "select" /\ ~srv.boot /\ srv'.port = srv.port
<1>1. CASE Reply("OK") /\ Len(srv.blocks) = 1
  <2>1. ~srv.boot
    BY <1>1 DEF SrvType
  <2>. QED
    BY <1>1, <2>1 DEF Reply, SrvType, SrvFields, CallType
<1>2. CASE srv.boot /\ srv' = [srv EXCEPT !.pc = "load", !.port = @ + 1] /\ UNCHANGED call
  <2>1. /\ srv'.pc = "load" /\ srv'.boot = srv.boot /\ srv'.slot = srv.slot
        /\ srv'.blocks = srv.blocks /\ srv'.port = srv.port + 1 /\ DOMAIN srv' = SrvFields
    BY <1>2, Zenon DEF SrvType, SrvFields
  <2>2. srv'.port \in Nat
    BY <2>1 DEF SrvType
  <2>. QED
    BY <1>2, <2>1, <2>2, Zenon DEF SrvType, CallType
<1>3. CASE ~srv.boot /\ srv' = NextBlock /\ UNCHANGED call
  <2>1. /\ srv'.pc = "select" /\ srv'.boot = srv.boot /\ srv'.slot = srv.slot
        /\ srv'.port = srv.port /\ DOMAIN srv' = SrvFields
    BY <1>3 DEF SrvType, SrvFields, NextBlock
  <2>. QED
    BY <1>3, <2>1, Zenon DEF SrvType, CallType, Commanding
<1>. QED
  BY <1>1, <1>2, <1>3 DEF Waited

(* The wait takes the one signal there is.                                 *)
LEMMA TakesSignal ==
  ASSUME AInv, Waited
  PROVE  /\ port' \in [Port -> AhciPorts]
         /\ \A p \in Port : /\ port'[p].loaded = port[p].loaded
                            /\ port'[p].issued = port[p].issued
                            /\ \A s \in Slot : port'[p].sem[s] = 0
<1>1. /\ srv.pc = "wait" /\ port[srv.port].sem[srv.slot] > 0 /\ srv.port \in Port
      /\ srv.slot \in Slot /\ port \in [Port -> AhciPorts] /\ srv.boot \in BOOLEAN
  BY DEF Waited, AInv, PortsInv, Commanding, Marked, DriverType, SrvType
<1>2. port' = [port EXCEPT ![srv.port].sem[srv.slot] = @ - 1,
                           ![srv.port].init = @ \/ srv.boot]
  BY DEF Waited
<1>3. /\ port[srv.port].sem[srv.slot] = 1
      /\ \A p \in Port, s \in Slot : p # srv.port \/ s # srv.slot => port[p].sem[s] = 0
  <2>1. ~(port[srv.port].sem[srv.slot] = 0)
    BY <1>1
  <2>. QED
    BY <1>1, <2>1, Zenon DEF AInv, SlotInv, Signalled
<1>4. port'[srv.port] = [[port[srv.port] EXCEPT !.sem[srv.slot] = @ - 1]
                            EXCEPT !.init = @ \/ srv.boot]
  BY <1>1, <1>2, Zenon
<1>5. \A p \in Port : p # srv.port => port'[p] = port[p]
  BY <1>1, <1>2
<1>6. DOMAIN port' = Port /\ port' = [p \in Port |-> port'[p]]
  BY <1>1, <1>2, Zenon
<1>. DEFINE old == port[srv.port]
            new == port'[srv.port]
<1>7. old \in AhciPorts /\ old.sem \in [Slot -> Nat] /\ old.sem[srv.slot] - 1 = 0
  BY <1>1, <1>3 DEF AhciPorts
<1>8. /\ new.sem = [old.sem EXCEPT ![srv.slot] = old.sem[srv.slot] - 1]
      /\ new.init = (old.init \/ srv.boot)
      /\ new.loaded = old.loaded /\ new.issued = old.issued
      /\ new = [loaded |-> new.loaded, init |-> new.init, issued |-> new.issued,
                sem |-> new.sem]
  BY <1>4, <1>7, Zenon DEF AhciPorts
<1>9. \A s \in Slot : s # srv.slot => old.sem[s] = 0
  BY <1>1, <1>3, Zenon
<1>. HIDE DEF old, new
<1>10. (\A s \in Slot : new.sem[s] = 0) /\ new.sem \in [Slot -> Nat]
  BY <1>1, <1>7, <1>8, <1>9
<1>11. new.init \in BOOLEAN /\ new.loaded \in BOOLEAN /\ new.issued \in SUBSET Slot
  BY <1>7, <1>8, Zenon DEF AhciPorts
<1>12. new \in AhciPorts
  BY <1>8, <1>10, <1>11, Zenon DEF AhciPorts
<1>13. /\ new.loaded = old.loaded /\ new.issued = old.issued
       /\ \A s \in Slot : new.sem[s] = 0
  BY <1>8, <1>10, Zenon
<1>14. \A p \in Port : /\ port'[p] \in AhciPorts
                       /\ port'[p].loaded = port[p].loaded
                       /\ port'[p].issued = port[p].issued
                       /\ \A s \in Slot : port'[p].sem[s] = 0
  <2>. TAKE p \in Port
  <2>1. CASE p = srv.port
    BY <1>12, <1>13, <2>1, Zenon DEF old, new
  <2>2. CASE p # srv.port
    BY <1>1, <1>3, <1>5, <2>2, Zenon
  <2>. QED
    BY <2>1, <2>2
<1>. QED
  BY <1>6, <1>14, Zenon

(* The server thread gets past its wait only after the interrupt thread    *)
(* has signalled it, and leaves a bit that is not cleared yet to it.       *)
LEMMA WaitedStep ==
  ASSUME AInv, Waited
  PROVE  AInv'
<1>. DEFINE q == srv.port
            z == srv.slot
<1>1. /\ srv.pc = "wait" /\ UNCHANGED <<hw, hba, irq>> /\ q \in Port /\ z \in Slot
      /\ port[q].loaded /\ port[q].sem[z] # 0
  <2>1. /\ srv.pc = "wait" /\ UNCHANGED <<hw, hba, irq>> /\ q \in Port /\ z \in Slot
        /\ port[q].loaded /\ port[q].sem[z] > 0
    BY DEF Waited, AInv, PortsInv, Commanding, Marked, DriverType, SrvType
  <2>2. port[q].sem[z] # 0
    BY <2>1
  <2>. QED
    BY <2>1, <2>2
<1>2. /\ hba.ci[q] = {} /\ (z \in port[q].issued => Clearing(q, z))
  BY <1>1, Zenon DEF AInv, SlotInv, Signalled
<1>3. /\ port' \in [Port -> AhciPorts]
      /\ \A p \in Port : /\ port'[p].loaded = port[p].loaded
                         /\ port'[p].issued = port[p].issued
                         /\ \A s \in Slot : port'[p].sem[s] = 0
  BY TakesSignal
<1>4. /\ SrvType' /\ CallType' /\ srv'.boot = srv.boot
      /\ \/ srv'.pc = "serve" /\ ~srv.boot
         \/ srv'.pc = "load" /\ srv.boot /\ srv'.port = q + 1
         \/ srv'.pc = "select" /\ ~srv.boot /\ srv'.port = q
  BY AfterWait DEF AInv, DriverType
<1>5. DriverType'
  BY <1>1, <1>3, <1>4, Zenon DEF AInv, DriverType, HbaType, IrqType, Handling
<1>. HIDE DEF q, z
<1>6. PortsInv'
  <2>1. /\ \A p \in Port : port'[p].issued # {} => port'[p].loaded
        /\ Handling' => irq'.port \in Port /\ port'[irq'.port].loaded
    BY <1>1, <1>3, Zenon DEF AInv, PortsInv, Handling
  <2>2. srv.boot => \A p \in Port : p > q => ~port'[p].loaded
    BY <1>3, Zenon DEF AInv, PortsInv, q
  <2>3. CASE srv'.pc = "serve" /\ ~srv.boot
    BY <1>4, <2>1, <2>3, Zenon DEF PortsInv, Commanding, Marked
  <2>4. CASE srv'.pc = "load" /\ srv.boot /\ srv'.port = q + 1
    <3>1. /\ \A p \in Port : p >= q + 1 => ~port'[p].loaded
          /\ \A p \in Port : p > q + 1 => ~port'[p].loaded
      BY <1>1, <2>2, <2>4, HardwareAssumption DEF Port
    <3>. QED
      BY <1>4, <2>1, <2>4, <3>1, Zenon DEF PortsInv, Commanding, Marked
  <2>5. CASE srv'.pc = "select" /\ ~srv.boot /\ srv'.port = q
    <3>1. srv'.port \in Port /\ port'[srv'.port].loaded /\ ~srv'.boot
      BY <1>1, <1>3, <1>4, <2>5, Zenon
    <3>. QED
      BY <2>1, <2>5, <3>1, Zenon DEF PortsInv
  <2>. QED
    BY <1>4, <2>3, <2>4, <2>5
<1>7. SlotInv'
  <2>1. \A p, s : Clearing(p, s)' <=> Clearing(p, s)
    BY <1>1, Zenon DEF Clearing
  <2>2. \A p \in Port : hba.ci[p] = {}
    BY <1>2, Zenon DEF AInv, SlotInv, Working, q
  <2>3. Working'
    BY <1>1, <2>2, Zenon DEF Working
  <2>4. Owned'
    <3>1. \A p \in Port : \A s \in port[p].issued : (p = q /\ s = z) \/ Clearing(p, s)
      BY Zenon DEF AInv, SlotInv, Owned, q, z
    <3>2. \A p \in Port : \A s \in port[p].issued : Clearing(p, s)
      BY <1>2, <3>1, Zenon
    <3>. QED
      BY <1>3, <2>1, <3>2, Zenon DEF Owned
  <2>5. Issuing'
    BY <1>4, Zenon DEF Issuing
  <2>6. Finding'
    <3>1. irq.pc \in {"not_issued", "signal", "clear", "clear_store"} => irq.port \in Port
      BY Zenon DEF AInv, PortsInv, Handling
    <3>2. irq.pc = "signal" => irq.finished = {}
      BY <1>1, Zenon DEF AInv, SlotInv, Finding, q, z
    <3>. QED
      BY <1>1, <1>3, <3>1, <3>2, Zenon DEF AInv, SlotInv, Finding
  <2>7. Signalled'
    BY <1>3, Zenon DEF Signalled
  <2>. QED
    BY <2>3, <2>4, <2>5, <2>6, <2>7 DEF SlotInv
<1>. QED
  BY <1>5, <1>6, <1>7 DEF AInv

(* A step that leaves Denali alone but for the request at its endpoint.    *)
LEMMA ElsewhereStep ==
  ASSUME AInv, UNCHANGED <<hw, hba, port, irq, srv>>, CallType'
  PROVE  AInv'
<1>1. DriverType'
  BY Zenon DEF AInv, DriverType, HbaType, SrvType, IrqType, Commanding, Marked, Handling
<1>2. PortsInv'
  BY Zenon DEF AInv, PortsInv, Commanding, Marked, Handling
<1>3. \A p, s : Clearing(p, s)' <=> Clearing(p, s)
  BY Zenon DEF Clearing
<1>4. Working' /\ Owned'
  BY <1>3, Zenon DEF AInv, SlotInv, Working, Owned, Marked
<1>5. Issuing' /\ Finding'
  BY <1>3, Zenon DEF AInv, SlotInv, Issuing, Finding
<1>6. Signalled'
  BY <1>3, Zenon DEF AInv, SlotInv, Signalled
<1>. QED
  BY <1>1, <1>2, <1>4, <1>5, <1>6, Zenon DEF AInv, SlotInv

(* The file service only ever asks for the device its partition is on. *)
LEMMA VfsCalls ==
  ASSUME CallType, VfsThread \/ Client
  PROVE  CallType'
<1>1. CASE \E v, blocks, pc : Read(v, blocks, pc)
  BY <1>1 DEF Read, CallType
<1>2. CASE UNCHANGED call
  BY <1>2 DEF CallType
<1>. DEFINE Asks == \E v, blocks, pc : Read(v, blocks, pc)
<1>3. Asks \/ UNCHANGED call
  <2>. HIDE DEF Asks
  <2>1. /\ \A v, blocks, pc : Read(v, blocks, pc) => Asks
        /\ \A v, pc : Goto(v, pc) => UNCHANGED call
        /\ \A v, status : Answer(v, status) => UNCHANGED call
    BY Zenon DEF Asks, Goto, Answer
  <2>2. \A v, num, want : ReadNode(v, num, want) => UNCHANGED call
    BY <2>1 DEF ReadNode
  <2>3. \A v, files : WalkFrom(v, files) => UNCHANGED call
    BY <2>1, <2>2 DEF WalkFrom
  <2>4. \A v, region : GotNode(v, region) => UNCHANGED call
    BY <2>3 DEF GotNode
  <2>5. ReadSuperblock \/ ReadDescriptors \/ StartServer => Asks \/ UNCHANGED call
    BY <2>1 DEF ReadSuperblock, ReadDescriptors, StartServer
  <2>6. GetInode => Asks \/ UNCHANGED call
    BY <2>1, <2>4 DEF GetInode
  <2>7. GotTable \/ GotContents \/ GotNumbers => UNCHANGED call
    BY <2>1, <2>4, Zenon DEF GotTable, GotContents, GotNumbers
  <2>8. Collect => Asks \/ UNCHANGED call
    BY <2>1, Zenon DEF Collect
  <2>9. HandleRequest => UNCHANGED call
    BY <2>1, <2>2, Zenon DEF HandleRequest
  <2>. QED
    BY <2>5, <2>6, <2>7, <2>8, <2>9 DEF VfsThread, Client
<1>. QED
  BY <1>1, <1>2, <1>3

(* The invariant holds when the driver starts ...                          *)
LEMMA InitAInv ==
  ASSUME Init
  PROVE  AInv
<1>1. AhciInit /\ Slots \in Nat \ {0} /\ NumPorts \in Nat \ {0}
  BY HardwareAssumption, Zenon DEF Init
<1>2. 0 \in Slot /\ 0 \in 0..NumPorts /\ 0 \in Nat
  BY <1>1 DEF Slot
<1>3. /\ irq.pc = "recv" /\ srv.pc = "load" /\ srv.boot /\ hw \in Hardware
      /\ \A p \in Port : hba.ci[p] = {}
      /\ \A p \in Port : /\ ~port[p].loaded /\ port[p].issued = {}
                         /\ \A s \in Slot : port[p].sem[s] = 0
  BY <1>1, Zenon DEF AhciInit, Idle, Empty, AhciPort
<1>4. DriverType
  <2>1. HbaType
    BY <1>1, Zenon DEF AhciInit, HbaType, HbaFields
  <2>2. SrvType
    BY <1>1, <1>2, Zenon DEF AhciInit, Idle, SrvType, SrvFields
  <2>3. IrqType
    BY <1>1, <1>2, Zenon DEF AhciInit, IrqType, IrqFields
  <2>4. CallType
    BY <1>1, Zenon DEF AhciInit, CallType
  <2>5. port \in [Port -> AhciPorts]
    BY <1>1, Zenon DEF AhciInit, Empty, AhciPort, AhciPorts
  <2>. QED
    BY <1>3, <2>1, <2>2, <2>3, <2>4, <2>5 DEF DriverType
<1>5. PortsInv
  BY <1>3, Zenon DEF PortsInv, Commanding, Marked, Handling
<1>6. SlotInv
  BY <1>3, Zenon DEF SlotInv, Working, Owned, Issuing, Finding, Signalled
<1>. QED
  BY <1>4, <1>5, <1>6 DEF AInv

(* ... and every step of its threads, of the adapter and of the file       *)
(* service preserves it, unless an update is lost or a command found       *)
(* early.                                                                  *)
LEMMA NextAInv ==
  ASSUME AInv, [Next]_vars, MarksKept'
  PROVE  AInv'
<1>1. CASE VfsThread \/ Client
  BY <1>1, ElsewhereStep, VfsCalls, Zenon DEF AInv, DriverType, VfsThread, Client
<1>2. CASE ServerThread \/ InterruptThread
  <2>1. Occurred \subseteq {"swept"}
    BY <1>2, Zenon DEF ServerThread, InterruptThread, MarksKept
  <2>2. "lost" \notin Occurred /\ "early" \notin Occurred
    BY <2>1
  <2>3. ~LostUpdate /\ ~FoundEarly
    BY <2>2, Zenon DEF Occurred
  <2>4. CASE ServerThread
    BY <2>3, <2>4, LoadPortsStep, PublishPortStep, SelectSlotStep, LoadIssuedStep, MarkIssuedStep,
       LoadCommandIssueStep, CommandIssueStep, WaitedStep, HandleReadManyStep, Zenon
    DEF ServerThread
  <2>5. CASE InterruptThread
    BY <2>3, <2>5, ReceiveIrqStep, ScanPortStep, AcknowledgeStep, ReadIssuedStep, FindFinishedStep,
       SignalFinishedStep, LoadToClearStep, ClearIssuedStep, ClearStatusStep, Zenon
    DEF InterruptThread
  <2>. QED
    BY <1>2, <2>4, <2>5
<1>3. CASE Hba
  BY <1>3, CompleteStep, Zenon DEF Hba
<1>4. CASE UNCHANGED vars
  BY <1>4, ElsewhereStep DEF vars, AInv, DriverType, CallType
<1>. QED
  BY <1>1, <1>2, <1>3, <1>4 DEF Next, AhciNext

(* It says what SlotsAgree does.                                           *)
LEMMA AInvAgrees ==
  ASSUME AInv
  PROVE  SlotsAgree
<1>1. \A p \in Port : hba.ci[p] \subseteq port[p].issued
  BY DEF AInv, SlotInv, Working
<1>2. \A p \in Port, s \in Slot : port[p].sem[s] > 0 =>
        srv.pc = "wait" /\ srv.port = p /\ srv.slot = s /\ port[p].sem[s] = 1
  <2>. TAKE p \in Port, s \in Slot
  <2>1. \/ port[p].sem[s] = 0
        \/ srv.pc = "wait" /\ srv.port = p /\ srv.slot = s /\ port[p].sem[s] = 1
    BY Zenon DEF AInv, SlotInv, Signalled
  <2>. QED
    BY <2>1, SMT
<1>3. srv.pc \in {"mark", "mark_store", "issue", "issue_store"} =>
        srv.slot \notin hba.ci[srv.port]
  BY Zenon DEF AInv, PortsInv, Commanding, Marked, SlotInv, Working
<1>. QED
  BY <1>1, <1>2, <1>3, Zenon DEF SlotsAgree

(* On every machine, and whatever the interleaving of the server thread,   *)
(* the interrupt thread and the adapter: until one of the two updates of   *)
(* commands_issued_ undoes the other or the interrupt thread takes a       *)
(* marked command that is not yet issued for a finished one, the adapter   *)
(* never has a command in a slot that IssueCommand would take for free, a  *)
(* slot is never reused under a command, and only the thread waiting for a *)
(* command is ever signalled, once.                                        *)
THEOREM SlotsStayInAgreement == Spec => []SlotsAgreeUnlessRaced
<1>. DEFINE Inv == MarksKept => AInv
<1>1. Init => Inv
  BY InitAInv
<1>2. Inv /\ [Next]_vars => Inv'
  <2>. SUFFICES ASSUME Inv, [Next]_vars, MarksKept'
                PROVE  AInv'
    OBVIOUS
  <2>1. races \subseteq races'
    BY DEF Next, VfsThread, Client, AhciNext, ServerThread, InterruptThread, Hba, vars, ahciVars
  <2>2. MarksKept
    BY <2>1 DEF MarksKept
  <2>. QED
    BY <2>2, NextAInv
<1>3. Inv => SlotsAgreeUnlessRaced
  BY AInvAgrees DEF SlotsAgreeUnlessRaced
<1>. HIDE DEF Inv
<1>. QED
  BY <1>1, <1>2, <1>3, PTL DEF Spec
=============================================================================
