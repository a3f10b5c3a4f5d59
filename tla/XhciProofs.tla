----------------------------- MODULE XhciProofs -----------------------------
(***************************************************************************)
(* Proofs about the USB driver, for rings of any length, any number of     *)
(* transfers an endpoint starts with, any listeners and any typing: the    *)
(* threads of the driver never write one ring at the same time, and a      *)
(* descriptor is read only after the controller has written it.            *)
(*                                                                         *)
(* Nothing in the code locks a ring.  What keeps the threads apart is that *)
(* each command is caused by the completion of an earlier one: no-op,      *)
(* EnableSlot, AddressDevice, ConfigureEndpoint.  So the number of         *)
(* commands issued so far (Issued) tells how far the boot has come, and    *)
(* the invariant says for each place where the next cause can be (a        *)
(* statement of a thread, the controller, an unread event) which number    *)
(* goes with it.                                                           *)
(***************************************************************************)
EXTENDS Xhci, TLAPS

(* The commands in the order of the ring, and how many have an index.      *)
CommandLog == <<"NoOp", "EnableSlot", "AddressDevice", "ConfigureEndpoint">>
Issued == ring["command"].enqueue
CommandTrb(i) == ring["command"].trb[i]
ControlTrb(i) == ring["control"].trb[i]

(* p is what is left of the plan s. *)
Suffix(p, s) ==
  /\ Len(p) <= Len(s)
  /\ \A i \in 1..Len(p) : p[i] = s[Len(s) - Len(p) + i]

(* The plan that HandleInterrupts makes for an event, if it makes one.     *)
Handling(e) ==
  CASE e.type = "PortStatusChange" -> IssueCommand("EnableSlot")
    [] e.type = "CommandCompletion" /\ e.at = 1 -> IssueCommand("AddressDevice")
    [] e.type = "CommandCompletion" /\ e.at = 2 -> <<Do("spawn")>>
    [] e.type = "CommandCompletion" /\ e.at = 3 -> <<Do("signal_configured")>>
    [] e.type = "Transfer" /\ e.endpoint = 1 -> <<[Do("complete") EXCEPT !.arg = e.at]>>
    [] e.type = "Transfer" /\ e.endpoint = 3 ->
         <<[Do("deliver") EXCEPT !.arg = e.at], EnqueueTrb("keyboard", "Normal")>>
    [] OTHER -> <<>>

(* How many statements of ConfigureDevice there are, and have been done.   *)
Total == 16 + Prefill
Done == Total - Len(thread["configure"].plan)

-----------------------------------------------------------------------------
(* Types. *)

(* The statements of the plans, the blocks of the rings and their indices. *)
Ops ==
  {"enqueue", "doorbell", "reset", "insert_last", "await", "complete", "spawn", "enable",
   "signal_configured", "await_configured", "deliver"}
TrbTypes ==
  {"Blank", "NoOp", "EnableSlot", "AddressDevice", "ConfigureEndpoint", "Setup", "Data",
   "Status", "Normal"}
Stmts == [op : Ops, ring : Ring, type : TrbTypes, arg : Nat]
Trbs == [type : TrbTypes, buffer : Nat]
Index == 0..(RingSlots - 1)

(* What a thread has left to do, and where it is inside EnqueueTrb.        *)
Threads ==
  [plan : Seq(Stmts), ptr : Nat \cup {NoPtr}, last : Nat \cup {NoPtr},
   loop : {"poll", "drain", "clear"}, dequeue : Nat]
ThreadType == thread \in [Thread -> Threads]

(* A thread crashes the process when it takes the last index of a ring, so *)
(* that it never writes there.                                             *)
RingType ==
  /\ ring \in [Ring -> [enqueue : 0..RingSlots, trb : [Index -> Trbs]]]
  /\ \A r \in Ring : ring[r].enqueue = RingSlots => crashed

(* The blocks the controller writes to the event ring.                     *)
EventKinds == {"PortStatusChange", "CommandCompletion", "Transfer", "Failed"}
EventType ==
  events \in Seq([type : EventKinds,
                  endpoint : {0, 1, 3}, at : Nat])

(* The registers of the controller and its place in each ring.             *)
HcType ==
  hc \in [pending : BOOLEAN, bell : SUBSET Ring, reset : BOOLEAN, enabled : BOOLEAN,
          at : [Ring -> Nat]]

(* What the driver and the controller know of the device.                  *)
DeviceFields ==
  {"signal", "waiting", "ended", "read", "written", "enabled", "configure", "configured",
   "offset", "buffer"}

DeviceType == DOMAIN device = DeviceFields /\ device.offset \in Nat

Types == ThreadType /\ RingType /\ EventType /\ HcType /\ DeviceType

-----------------------------------------------------------------------------
(* The causes of the commands. *)

(* A thread inside EnqueueTrb has an index that was given out.             *)
PtrInv ==
  \A t \in Thread : thread[t].ptr # NoPtr =>
    /\ thread[t].plan # <<>> /\ Stmt(t).op = "enqueue"
    /\ thread[t].ptr < ring[Stmt(t).ring].enqueue
    /\ Stmt(t).ring = "command" => CommandTrb(thread[t].ptr) = Blank

(* Thread t is about to take index i of the command ring, or has it.       *)
Claims(t, i) ==
  \/ thread[t].ptr = NoPtr /\ Issued = i
  \/ thread[t].ptr = i /\ Issued = i + 1

(* The boot thread issues the first command, and then causes the second. *)
MainInv ==
  LET p == thread["main"].plan IN
  /\ Suffix(p, InitiateDriver)
  /\ Len(p) = 3 => Claims("main", 0)
  /\ Len(p) \in {1, 2} => Issued = 1

(* The interrupt thread handles the event it has read last. *)
IrqInv ==
  LET p == thread["irq"].plan
      n == thread["irq"].dequeue
      e == events[n]
  IN /\ n <= Len(events)
     /\ p # <<>> =>
          /\ n > 0 /\ Suffix(p, Handling(e))
          /\ Len(p) = 2 /\ e.type = "PortStatusChange" => Claims("irq", 1)
          /\ Len(p) = 2 /\ e.type = "CommandCompletion" => Claims("irq", 2)
          /\ e.type = "CommandCompletion" /\ e.at = 2 =>
               Issued = 3 /\ thread["configure"].plan = <<>>

(* The thread that configures the device. *)
ConfigureInv ==
  LET p == thread["configure"].plan IN
  p # <<>> =>
    /\ Suffix(p, ConfigureDevice)
    /\ Done < 13 + Prefill => Issued = 3
    /\ Done = 13 + Prefill => Claims("configure", 3)
    /\ Done > 13 + Prefill => Issued = 4

(* The controller takes the commands in order. *)
ControllerInv ==
  /\ Issued <= 4
  /\ \A i \in Index : CommandTrb(i) # Blank =>
       i < Issued /\ CommandTrb(i).type = CommandLog[i + 1]
  /\ \A i \in Index : ControlTrb(i).type # "ConfigureEndpoint"
  /\ hc.at["command"] <= RingSlots
  /\ \A i \in Index : i < hc.at["command"] => CommandTrb(i) # Blank
  /\ hc.at["command"] <= 1 => Issued <= 2
  /\ hc.at["command"] <= 2 => Issued <= 3 /\ thread["configure"].plan = <<>>
  /\ hc.enabled => hc.at["command"] > 3
  /\ hc.reset => Issued = 1

(* Each event is written once, and an unread one may be the next cause.    *)
EventInv ==
  \A n \in 1..Len(events) :
    LET e == events[n]
        new == n > thread["irq"].dequeue
    IN /\ e.type = "PortStatusChange" /\ new => Issued = 1
       /\ e.type = "CommandCompletion" =>
            /\ e.at < hc.at["command"]
            /\ new /\ e.at = 1 => Issued = 2
            /\ new /\ e.at = 2 => Issued = 3 /\ thread["configure"].plan = <<>>
       /\ e.type = "Transfer" => e.endpoint \in {1, 3}
       /\ e.type = "Transfer" /\ e.endpoint = 1 => e.at < hc.at["control"]
       /\ e.type = "Transfer" /\ e.endpoint = 3 => hc.enabled

(* The port changes once, and each command is completed once.              *)
OnceInv ==
  /\ \A m, n \in 1..Len(events) :
       events[m].type = events[n].type /\ events[m].type \notin {"Transfer", "Failed"}
         /\ events[m].at = events[n].at => m = n
  /\ \A n \in 1..Len(events) : events[n].type = "PortStatusChange" =>
       events[n].at = 0 /\ ~hc.reset /\ thread["main"].plan = <<>>
  /\ hc.reset => thread["main"].plan = <<>>

(* The inductive invariant of RingsHaveOneWriter.                          *)
XInv ==
  /\ Types /\ PtrInv /\ MainInv /\ IrqInv /\ ConfigureInv /\ ControllerInv
  /\ EventInv /\ OnceInv

-----------------------------------------------------------------------------
(* The control endpoint. *)

(* The control TRBs that are written when d statements of ConfigureDevice  *)
(* are done.                                                               *)
Staged(d) ==
  IF d <= 3 THEN d ELSE IF d <= 6 THEN 3 ELSE IF d <= 9 THEN d - 3 ELSE 6

(* Only the thread that configures the device writes the control ring, and *)
(* it enters a semaphore under the address of a status stage.              *)
StagesInv ==
  LET p == thread["configure"].plan
      taken == ring["control"].enqueue
  IN /\ p = <<>> /\ Issued <= 3 => taken = 0
     /\ p # <<>> =>
          /\ \/ taken = Staged(Done)
             \/ /\ Stmt("configure").ring = "control" /\ thread["configure"].ptr = Staged(Done)
                /\ taken = Staged(Done) + 1
          /\ thread["configure"].ptr # NoPtr /\ Stmt("configure").ring = "control"
               => thread["configure"].ptr = Staged(Done)
          /\ Done \in {3, 4} => thread["configure"].last = 2
          /\ Done \in {9, 10} => thread["configure"].last = 5
     /\ \A i \in Index \cap {1, 4} : ControlTrb(i) # Blank => ControlTrb(i).type = "Data"
     /\ device.waiting \subseteq {<<2, 1>>, <<5, 2>>}

(* What the controller has passed it has written, and only that is         *)
(* signalled and read.                                                     *)
DescriptorInv ==
  /\ hc.at["control"] > 1 => 1 \in device.written
  /\ hc.at["control"] > 4 => 2 \in device.written
  /\ device.signal \in [{1, 2} -> Nat]
  /\ \A c \in {1, 2} : device.signal[c] > 0 => c \in device.written
  /\ DescriptorIsThere

(* With XInv, the inductive invariant of DescriptorsAreThere.              *)
DInv == StagesInv /\ DescriptorInv
-----------------------------------------------------------------------------
(* Sequences. *)

(* The empty sequence is the one of length zero.                           *)
LEMMA SeqEmpty ==
  ASSUME NEW S, NEW s \in Seq(S)
  PROVE  Len(s) \in Nat /\ (s = <<>> <=> Len(s) = 0)
OBVIOUS

(* The elements of a sequence over a set are in it.                        *)
LEMMA SeqElement ==
  ASSUME NEW S, NEW s \in Seq(S), NEW n \in 1..Len(s)
  PROVE  s[n] \in S
OBVIOUS

-----------------------------------------------------------------------------
(* Plans. *)

(* The plan s is a and then b. *)
Joins(s, a, b) ==
  /\ s \in Seq(Stmts) /\ Len(s) = Len(a) + Len(b)
  /\ \A i \in 1..Len(a) : s[i] = a[i]
  /\ \A i \in 1..Len(b) : s[Len(a) + i] = b[i]

(* The plans that threads start with. *)
StartPlans ==
  /\ InitiateDriver \in Seq(Stmts) /\ Len(InitiateDriver) = 3
  /\ ConfigureDevice \in Seq(Stmts) /\ Len(ConfigureDevice) = Total

(* What the boot thread does next. *)
MainNext ==
  ThreadType /\ MainInv /\ thread["main"].plan # <<>> =>
    LET p == thread["main"].plan IN
    /\ Len(p) \in 1..3
    /\ Len(p) = 3 => /\ Stmt("main").op = "enqueue" /\ Stmt("main").ring = "command"
                     /\ Stmt("main").type = "NoOp"
    /\ Len(p) = 2 => Stmt("main").op = "doorbell"
    /\ Len(p) = 1 => Stmt("main").op = "reset"
    /\ Tail(p) \in Seq(Stmts) /\ Len(Tail(p)) = Len(p) - 1
    /\ Suffix(Tail(p), InitiateDriver)
    /\ Tail(p) = <<>> <=> Len(p) = 1

(* What the thread that configures the device does next. *)
ConfigureNext ==
  ThreadType /\ ConfigureInv /\ thread["configure"].plan # <<>> =>
    LET p == thread["configure"].plan
        c == Stmt("configure")
    IN
    /\ Done \in 0..(Total - 1) /\ Len(p) = Total - Done /\ Len(Tail(p)) = Total - (Done + 1)
    /\ Done \in {0, 1, 2, 6, 7, 8} =>
         c.op = "enqueue" /\ c.ring = "control" /\ c.type \in {"Setup", "Data", "Status"}
    /\ Done \in {1, 7} => c.type = "Data"
    /\ Done \in {3, 9, 14 + Prefill} => c.op = "doorbell"
    /\ Done = 4 => c.op = "insert_last" /\ c.arg = 1
    /\ Done = 10 => c.op = "insert_last" /\ c.arg = 2
    /\ Done = 5 => c.op = "await" /\ c.arg = 1
    /\ Done = 11 => c.op = "await" /\ c.arg = 2
    /\ Done = 12 => c.op = "enable"
    /\ Done \in 13..(12 + Prefill) => c.op = "enqueue" /\ c.ring = "keyboard"
    /\ Done = 13 + Prefill =>
         c.op = "enqueue" /\ c.ring = "command" /\ c.type = "ConfigureEndpoint"
    /\ Done = 15 + Prefill => c.op = "await_configured"
    /\ Tail(p) \in Seq(Stmts) /\ Suffix(Tail(p), ConfigureDevice)
    /\ Tail(p) = <<>> <=> Done = Total - 1

(* What the interrupt thread does next. *)
IrqNext ==
  ThreadType /\ EventType /\ IrqInv /\ thread["irq"].plan # <<>> =>
    LET p == thread["irq"].plan
        e == events[thread["irq"].dequeue]
        c == Stmt("irq")
    IN
    /\ thread["irq"].dequeue \in 1..Len(events) /\ Len(p) \in {1, 2}
    /\ e.type \in {"PortStatusChange", "CommandCompletion", "Transfer"}
    /\ e.type = "PortStatusChange" =>
         /\ Len(p) = 2 => c.op = "enqueue" /\ c.ring = "command" /\ c.type = "EnableSlot"
         /\ Len(p) = 1 => c.op = "doorbell"
    /\ e.type = "CommandCompletion" =>
         /\ e.at \in {1, 2, 3}
         /\ e.at = 1 /\ Len(p) = 2 =>
              c.op = "enqueue" /\ c.ring = "command" /\ c.type = "AddressDevice"
         /\ e.at = 1 /\ Len(p) = 1 => c.op = "doorbell"
         /\ e.at = 2 => Len(p) = 1 /\ c.op = "spawn"
         /\ e.at = 3 => Len(p) = 1 /\ c.op = "signal_configured"
    /\ e.type = "Transfer" =>
         /\ e.endpoint \in {1, 3}
         /\ e.endpoint = 1 => Len(p) = 1 /\ c.op = "complete" /\ c.arg = e.at
         /\ e.endpoint = 3 /\ Len(p) = 2 => c.op = "deliver"
         /\ e.endpoint = 3 /\ Len(p) = 1 => c.op = "enqueue" /\ c.ring = "keyboard"
    /\ Tail(p) \in Seq(Stmts) /\ Len(Tail(p)) = Len(p) - 1
    /\ Suffix(Tail(p), Handling(e))
    /\ Tail(p) = <<>> <=> Len(p) = 1

(* The plan for an event that is read. *)
EventNext ==
  XInv =>
    \A n \in 1..Len(events) :
    LET e == events[n] IN
    /\ EventPlan(e) = Handling(e) \/ EventPlan(e) = <<>>
    /\ EventPlan(e) \in Seq(Stmts)
    /\ e.type = "CommandCompletion" /\ Len(EventPlan(e)) = 2 => e.at = 1

(* The statements that are left of a plan are those of the code, in its    *)
(* order.                                                                  *)
LEMMA NextStatements == StartPlans /\ MainNext /\ ConfigureNext /\ IrqNext /\ EventNext
(* The statements are statements. *)
<1>DoType. ASSUME NEW op \in Ops
      PROVE  Do(op) \in Stmts /\ Do(op).op = op
  BY <1>DoType DEF Do, Stmts, Ring, TrbTypes
<1>ArgType. ASSUME NEW op \in Ops, NEW a \in Nat
      PROVE  LET s == [Do(op) EXCEPT !.arg = a] IN
             s \in Stmts /\ s.op = op /\ s.arg = a
  BY <1>ArgType DEF Do, Stmts, Ring, TrbTypes
<1>EnqueueType. ASSUME NEW r \in Ring, NEW type \in TrbTypes
      PROVE  LET s == EnqueueTrb(r, type) IN
             s \in Stmts /\ s.op = "enqueue" /\ s.ring = r /\ s.type = type
  BY <1>EnqueueType, Zenon DEF Do, EnqueueTrb, Stmts, TrbTypes, Ops
<1>BellType. ASSUME NEW r \in Ring
      PROVE  RingDoorbell(r) \in Stmts /\ RingDoorbell(r).op = "doorbell"
  BY <1>BellType DEF Do, RingDoorbell, Stmts, TrbTypes, Ops
(* A thread executes the statements of a plan one after the other. *)
<1>SuffixTail. ASSUME NEW S, NEW p \in Seq(S), NEW s \in Seq(S), p # <<>>, Suffix(p, s)
      PROVE  /\ Len(p) \in 1..Len(s) /\ Head(p) = s[Len(s) - Len(p) + 1]
             /\ Tail(p) \in Seq(S) /\ Len(Tail(p)) = Len(p) - 1
             /\ Suffix(Tail(p), s)
             /\ Tail(p) = <<>> <=> Len(p) = 1
  <2>. USE <1>SuffixTail
  <2>1. Len(p) \in Nat /\ Len(s) \in Nat /\ Len(p) > 0 /\ Head(p) = p[1]
    OBVIOUS
  <2>2. /\ Tail(p) \in Seq(S) /\ Len(Tail(p)) = Len(p) - 1
        /\ \A i \in 1..(Len(p) - 1) : Tail(p)[i] = p[i + 1]
    OBVIOUS
  <2>3. Suffix(Tail(p), s)
    BY <2>1, <2>2 DEF Suffix
  <2>4. Tail(p) = <<>> <=> Len(p) = 1
    <3>1. Tail(p) = <<>> <=> Len(Tail(p)) = 0
      BY <2>2, SeqEmpty, Zenon
    <3>. QED
      BY <2>1, <2>2, <3>1
  <2>. QED
    BY <2>1, <2>2, <2>3, <2>4, SMTT(30) DEF Suffix
<1>Joined. ASSUME NEW a \in Seq(Stmts), NEW b \in Seq(Stmts)
      PROVE  Joins(a \o b, a, b)
  <2>. USE <1>Joined
  <2>1. Len(a) \in Nat /\ Len(b) \in Nat
    OBVIOUS
  <2>. DEFINE s == a \o b
  <2>2. /\ s \in Seq(Stmts) /\ Len(s) = Len(a) + Len(b)
        /\ \A i \in 1..(Len(a) + Len(b)) : s[i] = IF i <= Len(a) THEN a[i] ELSE b[i - Len(a)]
    OBVIOUS
  <2>. HIDE DEF s
  <2>4. \A i \in 1..Len(a) : s[i] = a[i]
    BY <2>1, <2>2
  <2>5. \A i \in 1..Len(b) : s[Len(a) + i] = b[i]
    <3>1. ASSUME NEW i \in 1..Len(b) PROVE s[Len(a) + i] = b[i]
      <4>1. Len(a) + i \in 1..(Len(a) + Len(b)) /\ ~(Len(a) + i <= Len(a))
            /\ (Len(a) + i) - Len(a) = i
        BY <2>1
      <4>. QED
        BY <2>2, <4>1
    <3>. QED
      BY <3>1
  <2>. QED
    BY <2>2, <2>4, <2>5, Zenon DEF s, Joins
(* The plan of a command. *)
<1>IssuePlan. ASSUME NEW type \in TrbTypes
      PROVE  /\ IssueCommand(type) \in Seq(Stmts) /\ Len(IssueCommand(type)) = 2
             /\ IssueCommand(type)[1] = EnqueueTrb("command", type)
             /\ IssueCommand(type)[2] = RingDoorbell("command")
  <2>. USE <1>IssuePlan
  <2>1. EnqueueTrb("command", type) \in Stmts /\ RingDoorbell("command") \in Stmts
    BY <1>EnqueueType, <1>BellType DEF Ring
  <2>. QED
    BY <2>1 DEF IssueCommand
(* The plan of the boot thread. *)
<1>MainPlan. /\ InitiateDriver \in Seq(Stmts) /\ Len(InitiateDriver) = 3
      /\ InitiateDriver[1] = EnqueueTrb("command", "NoOp")
      /\ InitiateDriver[2] = RingDoorbell("command")
      /\ InitiateDriver[3] = Do("reset")
  <2>1. <<Do("reset")>> \in Seq(Stmts) /\ Len(<<Do("reset")>>) = 1 /\ <<Do("reset")>>[1] = Do("reset")
    BY <1>DoType DEF Ops
  <2>2. NoOpCommand \in Seq(Stmts) /\ Len(NoOpCommand) = 2
    BY <1>IssuePlan DEF NoOpCommand, TrbTypes
  <2>. QED
    <3>. DEFINE d == <<Do("reset")>>
                s == NoOpCommand \o d
    <3>1. d \in Seq(Stmts) /\ Len(d) = 1 /\ d[1] = Do("reset")
      BY <2>1
    <3>. HIDE DEF d
    <3>2. Joins(s, NoOpCommand, d)
      BY <2>2, <3>1, <1>Joined, Zenon
    <3>4. s = InitiateDriver
      BY Zenon DEF InitiateDriver, d
    <3>. HIDE DEF s
    <3>3. Len(s) = 3 /\ s[1] = NoOpCommand[1] /\ s[2] = NoOpCommand[2] /\ s[3] = Do("reset")
      BY <2>2, <3>1, <3>2 DEF Joins
    <3>. QED
      BY <3>2, <3>3, <3>4, <1>IssuePlan, Zenon DEF NoOpCommand, Joins, TrbTypes
(* The five statements of a control transfer and the wait for it. *)
<1>ReadPlan. ASSUME NEW c \in Nat
      PROVE  LET s == ExecuteReadControlCommand(c) \o AwaitResult(c) IN
             /\ s \in Seq(Stmts) /\ Len(s) = 6
             /\ s[1] = EnqueueTrb("control", "Setup") /\ s[2] = EnqueueTrb("control", "Data")
             /\ s[3] = EnqueueTrb("control", "Status") /\ s[4] = RingDoorbell("control")
             /\ s[5] = [Do("insert_last") EXCEPT !.arg = c]
             /\ s[6] = [Do("await") EXCEPT !.arg = c]
  <2>. USE <1>ReadPlan
  <2>. DEFINE a == ExecuteReadControlCommand(c)
              b == AwaitResult(c)
  <2>1. /\ EnqueueTrb("control", "Setup") \in Stmts /\ EnqueueTrb("control", "Data") \in Stmts
        /\ EnqueueTrb("control", "Status") \in Stmts /\ RingDoorbell("control") \in Stmts
    BY <1>EnqueueType, <1>BellType DEF Ring, TrbTypes
  <2>2. [Do("insert_last") EXCEPT !.arg = c] \in Stmts /\ [Do("await") EXCEPT !.arg = c] \in Stmts
    BY <1>ArgType DEF Ops
  <2>3. /\ a \in Seq(Stmts) /\ Len(a) = 5
        /\ a[1] = EnqueueTrb("control", "Setup") /\ a[2] = EnqueueTrb("control", "Data")
        /\ a[3] = EnqueueTrb("control", "Status") /\ a[4] = RingDoorbell("control")
        /\ a[5] = [Do("insert_last") EXCEPT !.arg = c]
    BY <2>1, <2>2 DEF ExecuteReadControlCommand
  <2>4. b \in Seq(Stmts) /\ Len(b) = 1 /\ b[1] = [Do("await") EXCEPT !.arg = c]
    BY <2>2 DEF AwaitResult
  <2>. HIDE DEF a, b
  <2>. DEFINE s == a \o b
  <2>5. Joins(s, a, b)
    BY <2>3, <2>4, <1>Joined, Zenon
  <2>. HIDE DEF s
  <2>6. s = ExecuteReadControlCommand(c) \o AwaitResult(c)
    BY Zenon DEF a, b, s
  <2>7. /\ Len(s) = 6 /\ s[1] = a[1] /\ s[2] = a[2] /\ s[3] = a[3] /\ s[4] = a[4] /\ s[5] = a[5]
        /\ s[6] = b[1]
    BY <2>3, <2>4, <2>5 DEF Joins
  <2>. QED
    BY <2>3, <2>4, <2>5, <2>6, <2>7, Zenon DEF Joins
(* Setting up the keyboard's endpoint, and the command for it. *)
<1>EndpointPlan. LET s == IssueConfigureDeviceCommand IN
      /\ s \in Seq(Stmts) /\ Len(s) = Prefill + 3
      /\ s[1] = Do("enable")
      /\ \A i \in 2..(Prefill + 1) : s[i] = EnqueueTrb("keyboard", "Normal")
      /\ s[Prefill + 2] = EnqueueTrb("command", "ConfigureEndpoint")
      /\ s[Prefill + 3] = RingDoorbell("command")
  <2>. DEFINE f == [i \in 1..Prefill |-> EnqueueTrb("keyboard", "Normal")]
              a == <<Do("enable")>>
              c == IssueCommand("ConfigureEndpoint")
  <2>1. Prefill \in Nat
    BY RingAssumption
  <2>2. f \in Seq(Stmts) /\ Len(f) = Prefill /\ \A i \in 1..Prefill : f[i] = EnqueueTrb("keyboard", "Normal")
    <3>1. EnqueueTrb("keyboard", "Normal") \in Stmts
      BY <1>EnqueueType DEF Ring, TrbTypes
    <3>. QED
      BY <2>1, <3>1
  <2>3. a \in Seq(Stmts) /\ Len(a) = 1 /\ a[1] = Do("enable")
    BY <1>DoType DEF Ops
  <2>4. /\ c \in Seq(Stmts) /\ Len(c) = 2 /\ c[1] = EnqueueTrb("command", "ConfigureEndpoint")
        /\ c[2] = RingDoorbell("command")
    BY <1>IssuePlan DEF TrbTypes
  <2>5. IssueConfigureDeviceCommand = (a \o f) \o c
    BY DEF IssueConfigureDeviceCommand, InitializeEndpoint
  <2>. HIDE DEF a, f, c
  <2>. DEFINE g == a \o f
  <2>6. Joins(g, a, f)
    BY <2>2, <2>3, <1>Joined, Zenon
  <2>. HIDE DEF g
  <2>. DEFINE s == g \o c
  <2>7. Joins(s, g, c)
    BY <2>4, <2>6, <1>Joined, Zenon DEF Joins
  <2>. HIDE DEF s
  <2>8. s = IssueConfigureDeviceCommand
    BY <2>5, Zenon DEF s, g
  <2>9. /\ Len(g) = Prefill + 1 /\ g[1] = Do("enable")
        /\ \A i \in 1..Prefill : g[1 + i] = EnqueueTrb("keyboard", "Normal")
    <3>1. Len(g) = Prefill + 1 /\ g[1] = a[1]
      BY <2>1, <2>2, <2>3, <2>6 DEF Joins
    <3>2. \A i \in 1..Prefill : g[1 + i] = f[i]
      BY <2>2, <2>3, <2>6, Zenon DEF Joins
    <3>. QED
      BY <2>2, <2>3, <3>1, <3>2, Zenon
  <2>10. /\ Len(s) = Prefill + 3 /\ s[1] = Do("enable")
         /\ \A i \in 2..(Prefill + 1) : s[i] = g[i]
         /\ s[Prefill + 2] = c[1] /\ s[Prefill + 3] = c[2]
    BY <2>1, <2>4, <2>7, <2>9 DEF Joins
  <2>11. \A i \in 2..(Prefill + 1) : s[i] = EnqueueTrb("keyboard", "Normal")
    <3>1. \A i \in 2..(Prefill + 1) : i - 1 \in 1..Prefill /\ 1 + (i - 1) = i
      BY <2>1
    <3>. QED
      BY <2>9, <2>10, <3>1
  <2>. QED
    BY <2>4, <2>7, <2>8, <2>10, <2>11, Zenon DEF Joins
(* The statements of ConfigureDevice. *)
<1>ConfigurePlan. LET s == ConfigureDevice IN
      /\ s \in Seq(Stmts) /\ Len(s) = Total /\ Total \in Nat
      /\ s[1] = EnqueueTrb("control", "Setup") /\ s[2] = EnqueueTrb("control", "Data")
      /\ s[3] = EnqueueTrb("control", "Status") /\ s[4] = RingDoorbell("control")
      /\ s[5] = [Do("insert_last") EXCEPT !.arg = 1] /\ s[6] = [Do("await") EXCEPT !.arg = 1]
      /\ s[7] = EnqueueTrb("control", "Setup") /\ s[8] = EnqueueTrb("control", "Data")
      /\ s[9] = EnqueueTrb("control", "Status") /\ s[10] = RingDoorbell("control")
      /\ s[11] = [Do("insert_last") EXCEPT !.arg = 2] /\ s[12] = [Do("await") EXCEPT !.arg = 2]
      /\ s[13] = Do("enable")
      /\ \A i \in 14..(Prefill + 13) : s[i] = EnqueueTrb("keyboard", "Normal")
      /\ s[Prefill + 14] = EnqueueTrb("command", "ConfigureEndpoint")
      /\ s[Prefill + 15] = RingDoorbell("command")
      /\ s[Prefill + 16] = Do("await_configured")
  <2>. DEFINE a == ExecuteReadControlCommand(1) \o AwaitResult(1)
              b == ExecuteReadControlCommand(2) \o AwaitResult(2)
              c == IssueConfigureDeviceCommand
              d == <<Do("await_configured")>>
  <2>1. Prefill \in Nat
    BY RingAssumption
  <2>2. d \in Seq(Stmts) /\ Len(d) = 1 /\ d[1] = Do("await_configured")
    BY <1>DoType DEF Ops
  <2>3. /\ ExecuteReadControlCommand(2) \in Seq(Stmts) /\ AwaitResult(2) \in Seq(Stmts)
    <3>1. /\ EnqueueTrb("control", "Setup") \in Stmts /\ EnqueueTrb("control", "Data") \in Stmts
          /\ EnqueueTrb("control", "Status") \in Stmts /\ RingDoorbell("control") \in Stmts
      BY <1>EnqueueType, <1>BellType DEF Ring, TrbTypes
    <3>2. [Do("insert_last") EXCEPT !.arg = 2] \in Stmts /\ [Do("await") EXCEPT !.arg = 2] \in Stmts
      BY <1>ArgType, SMTT(30) DEF Ops
    <3>. QED
      BY <3>1, <3>2 DEF ExecuteReadControlCommand, AwaitResult
  <2>4. a \in Seq(Stmts) /\ b \in Seq(Stmts) /\ c \in Seq(Stmts)
    <3>1. 1 \in Nat /\ 2 \in Nat
      OBVIOUS
    <3>. QED
      BY <3>1, <1>ReadPlan, <1>EndpointPlan, Zenon
  <2>5. ConfigureDevice = ((a \o b) \o c) \o d
    <3>1. (a \o ExecuteReadControlCommand(2)) \o AwaitResult(2) = a \o b
      <4>. DEFINE x == ExecuteReadControlCommand(2)
                  y == AwaitResult(2)
      <4>. HIDE DEF a
      <4>1. a \in Seq(Stmts) /\ x \in Seq(Stmts) /\ y \in Seq(Stmts)
        BY <2>3, <2>4, Zenon
      <4>. HIDE DEF x, y
      <4>2. (a \o x) \o y = a \o (x \o y)
        BY <4>1, SMTT(30)
      <4>. QED
        BY <4>2, Zenon DEF x, y
    <3>. QED
      BY <3>1, Zenon DEF ConfigureDevice
  <2>6. /\ Len(a) = 6
        /\ a[1] = EnqueueTrb("control", "Setup") /\ a[2] = EnqueueTrb("control", "Data")
        /\ a[3] = EnqueueTrb("control", "Status") /\ a[4] = RingDoorbell("control")
        /\ a[5] = [Do("insert_last") EXCEPT !.arg = 1] /\ a[6] = [Do("await") EXCEPT !.arg = 1]
    <3>1. 1 \in Nat
      OBVIOUS
    <3>. QED
      BY <3>1, <1>ReadPlan, Zenon
  <2>7. /\ Len(b) = 6
        /\ b[1] = EnqueueTrb("control", "Setup") /\ b[2] = EnqueueTrb("control", "Data")
        /\ b[3] = EnqueueTrb("control", "Status") /\ b[4] = RingDoorbell("control")
        /\ b[5] = [Do("insert_last") EXCEPT !.arg = 2] /\ b[6] = [Do("await") EXCEPT !.arg = 2]
    <3>1. 2 \in Nat
      OBVIOUS
    <3>. QED
      BY <3>1, <1>ReadPlan, Zenon
  <2>. HIDE DEF a, b, c, d
  <2>. DEFINE ab == a \o b
  <2>8. Joins(ab, a, b)
    BY <2>4, <1>Joined, Zenon
  <2>. HIDE DEF ab
  <2>. DEFINE abc == ab \o c
  <2>9. Joins(abc, ab, c)
    BY <2>4, <2>8, <1>Joined, Zenon DEF Joins
  <2>. HIDE DEF abc
  <2>. DEFINE s == abc \o d
  <2>10. Joins(s, abc, d)
    BY <2>2, <2>9, <1>Joined, Zenon DEF Joins
  <2>. HIDE DEF s
  <2>11. s = ConfigureDevice
    BY <2>5, Zenon DEF s, abc, ab
  <2>12. /\ Len(c) = Prefill + 3 /\ c[1] = Do("enable")
         /\ \A i \in 2..(Prefill + 1) : c[i] = EnqueueTrb("keyboard", "Normal")
         /\ c[Prefill + 2] = EnqueueTrb("command", "ConfigureEndpoint")
         /\ c[Prefill + 3] = RingDoorbell("command")
    BY <1>EndpointPlan DEF c
  <2>13. /\ Len(ab) = 12
         /\ \A i \in 1..6 : ab[i] = a[i] /\ ab[6 + i] = b[i]
    BY <2>6, <2>7, <2>8 DEF Joins
  <2>14. /\ Len(abc) = Prefill + 15
         /\ \A i \in 1..12 : abc[i] = ab[i]
         /\ \A i \in 1..(Prefill + 3) : abc[12 + i] = c[i]
    BY <2>1, <2>9, <2>12, <2>13 DEF Joins
  <2>15. /\ Len(s) = Prefill + 16 /\ s[Prefill + 16] = d[1]
         /\ \A i \in 1..(Prefill + 15) : s[i] = abc[i]
    <3>1. /\ Len(s) = Len(abc) + Len(d) /\ (\A i \in 1..Len(abc) : s[i] = abc[i])
          /\ \A i \in 1..Len(d) : s[Len(abc) + i] = d[i]
      BY <2>10, Zenon DEF Joins
    <3>2. 1 \in 1..1 /\ (Prefill + 15) + 1 = Prefill + 16
      BY <2>1
    <3>3. s[(Prefill + 15) + 1] = d[1]
      BY <2>2, <2>14, <3>1, <3>2, Zenon
    <3>. QED
      BY <2>2, <2>14, <3>1, <3>2, <3>3, Zenon
  <2>16. \A i \in 1..12 : s[i] = ab[i]
    <3>1. \A i \in 1..12 : i \in 1..(Prefill + 15)
      BY <2>1
    <3>. QED
      BY <2>14, <2>15, <3>1, Zenon
  <2>17. \A i \in 1..(Prefill + 3) : s[12 + i] = c[i]
    <3>1. \A i \in 1..(Prefill + 3) : 12 + i \in 1..(Prefill + 15)
      BY <2>1
    <3>. QED
      BY <2>14, <2>15, <3>1, Zenon
  <2>18. /\ s[1] = a[1] /\ s[2] = a[2] /\ s[3] = a[3] /\ s[4] = a[4] /\ s[5] = a[5] /\ s[6] = a[6]
         /\ s[7] = b[1] /\ s[8] = b[2] /\ s[9] = b[3] /\ s[10] = b[4] /\ s[11] = b[5]
         /\ s[12] = b[6]
    BY <2>13, <2>16
  <2>19. /\ s[13] = c[1] /\ s[Prefill + 14] = c[Prefill + 2] /\ s[Prefill + 15] = c[Prefill + 3]
    BY <2>1, <2>17
  <2>20. \A i \in 14..(Prefill + 13) : s[i] = EnqueueTrb("keyboard", "Normal")
    <3>1. \A i \in 14..(Prefill + 13) :
            i - 12 \in 1..(Prefill + 3) /\ i - 12 \in 2..(Prefill + 1) /\ 12 + (i - 12) = i
      BY <2>1
    <3>. QED
      BY <2>12, <2>17, <3>1
  <2>21. Len(s) = Total /\ Total \in Nat
    BY <2>1, <2>15 DEF Total
  <2>. QED
    BY <2>2, <2>6, <2>7, <2>10, <2>11, <2>12, <2>15, <2>18, <2>19, <2>20, <2>21, Zenon DEF Joins
(* The plan of an event. *)
<1>HandlingPlan. ASSUME NEW e, e.at \in Nat
      PROVE  /\ e.type = "PortStatusChange" => Handling(e) = IssueCommand("EnableSlot")
             /\ e.type = "CommandCompletion" =>
                  /\ e.at = 1 => Handling(e) = IssueCommand("AddressDevice")
                  /\ e.at = 2 => Handling(e) = <<Do("spawn")>>
                  /\ e.at = 3 => Handling(e) = <<Do("signal_configured")>>
                  /\ e.at \notin {1, 2, 3} => Handling(e) = <<>>
             /\ e.type = "Transfer" =>
                  /\ e.endpoint = 1 => Handling(e) = <<[Do("complete") EXCEPT !.arg = e.at]>>
                  /\ e.endpoint = 3 =>
                       Handling(e) = <<[Do("deliver") EXCEPT !.arg = e.at],
                                       EnqueueTrb("keyboard", "Normal")>>
                  /\ e.endpoint \notin {1, 3} => Handling(e) = <<>>
             /\ e.type = "Failed" => Handling(e) = <<>>
  BY <1>HandlingPlan DEF Handling
(* A plan of one statement, and one of two. *)
<1>OneStmt. ASSUME NEW x \in Stmts, NEW p \in Seq(Stmts), p # <<>>, NEW s, s = <<x>>, Suffix(p, s)
      PROVE  /\ Len(p) = 1 /\ Head(p) = x /\ Tail(p) \in Seq(Stmts) /\ Len(Tail(p)) = Len(p) - 1
             /\ Suffix(Tail(p), s) /\ (Tail(p) = <<>> <=> Len(p) = 1)
  <2>. USE <1>OneStmt
  <2>1. s \in Seq(Stmts) /\ Len(s) = 1 /\ s[1] = x
    OBVIOUS
  <2>2. /\ Len(p) \in 1..Len(s) /\ Head(p) = s[Len(s) - Len(p) + 1]
        /\ Tail(p) \in Seq(Stmts) /\ Len(Tail(p)) = Len(p) - 1
        /\ Suffix(Tail(p), s) /\ (Tail(p) = <<>> <=> Len(p) = 1)
    BY <2>1, <1>SuffixTail, Zenon
  <2>3. Len(p) = 1 /\ Head(p) = s[1]
    BY <2>1, <2>2
  <2>. QED
    BY <2>1, <2>2, <2>3, Zenon
<1>TwoStmts. ASSUME NEW s \in Seq(Stmts), Len(s) = 2, NEW p \in Seq(Stmts), p # <<>>, Suffix(p, s)
      PROVE  /\ Len(p) \in {1, 2} /\ (Len(p) = 2 => Head(p) = s[1]) /\ (Len(p) = 1 => Head(p) = s[2])
             /\ Tail(p) \in Seq(Stmts) /\ Len(Tail(p)) = Len(p) - 1
             /\ Suffix(Tail(p), s) /\ (Tail(p) = <<>> <=> Len(p) = 1)
  <2>. USE <1>TwoStmts
  <2>1. /\ Len(p) \in 1..Len(s) /\ Head(p) = s[Len(s) - Len(p) + 1]
        /\ Tail(p) \in Seq(Stmts) /\ Len(Tail(p)) = Len(p) - 1
        /\ Suffix(Tail(p), s) /\ (Tail(p) = <<>> <=> Len(p) = 1)
    BY <1>SuffixTail, Zenon
  <2>2. Len(p) \in 1..2
    BY <2>1, Zenon
  <2>3. /\ Len(p) \in {1, 2}
        /\ Len(p) = 2 => 2 - Len(p) + 1 = 1
        /\ Len(p) = 1 => 2 - Len(p) + 1 = 2
    <3>1. \A n \in 1..2 : n \in {1, 2} /\ (n = 2 => 2 - n + 1 = 1) /\ (n = 1 => 2 - n + 1 = 2)
      OBVIOUS
    <3>. QED
      BY <2>2, <3>1, Zenon
  <2>4. Len(p) \in {1, 2} /\ (Len(p) = 2 => Head(p) = s[1]) /\ (Len(p) = 1 => Head(p) = s[2])
    BY <2>1, <2>3, Zenon
  <2>. QED
    BY <2>1, <2>4, Zenon
(* The boot thread. *)
<1>MainHead. ASSUME ThreadType, MainInv, thread["main"].plan # <<>>
      PROVE  LET p == thread["main"].plan IN
             /\ Len(p) \in 1..3
             /\ Len(p) = 3 => /\ Stmt("main").op = "enqueue" /\ Stmt("main").ring = "command"
                              /\ Stmt("main").type = "NoOp"
             /\ Len(p) = 2 => Stmt("main").op = "doorbell"
             /\ Len(p) = 1 => Stmt("main").op = "reset"
             /\ Tail(p) \in Seq(Stmts) /\ Len(Tail(p)) = Len(p) - 1
             /\ Suffix(Tail(p), InitiateDriver)
             /\ Tail(p) = <<>> <=> Len(p) = 1
  <2>. USE <1>MainHead
  <2>. DEFINE p == thread["main"].plan
  <2>1. p \in Seq(Stmts) /\ p # <<>> /\ Suffix(p, InitiateDriver)
    BY DEF ThreadType, Threads, MainInv, Thread
  <2>. HIDE DEF p
  <2>2. /\ Len(p) \in 1..Len(InitiateDriver)
        /\ Head(p) = InitiateDriver[Len(InitiateDriver) - Len(p) + 1]
        /\ Tail(p) \in Seq(Stmts) /\ Len(Tail(p)) = Len(p) - 1
        /\ Suffix(Tail(p), InitiateDriver) /\ (Tail(p) = <<>> <=> Len(p) = 1)
    BY <2>1, <1>SuffixTail, <1>MainPlan, Zenon
  <2>3. Len(p) \in 1..3 /\ Head(p) = InitiateDriver[3 - Len(p) + 1]
    BY <2>2, <1>MainPlan, Zenon
  <2>4. /\ Len(p) = 3 => Head(p) = EnqueueTrb("command", "NoOp")
        /\ Len(p) = 2 => Head(p) = RingDoorbell("command")
        /\ Len(p) = 1 => Head(p) = Do("reset")
    <3>0. Len(p) \in 1..3
      BY <2>3
    <3>1. /\ Len(p) = 3 => 3 - Len(p) + 1 = 1
          /\ Len(p) = 2 => 3 - Len(p) + 1 = 2
          /\ Len(p) = 1 => 3 - Len(p) + 1 = 3
      <4>1. \A n \in 1..3 :
              /\ n = 3 => 3 - n + 1 = 1
              /\ n = 2 => 3 - n + 1 = 2
              /\ n = 1 => 3 - n + 1 = 3
        OBVIOUS
      <4>. QED
        BY <3>0, <4>1, Zenon
    <3>. QED
      BY <2>3, <3>1, <1>MainPlan, Zenon
  <2>5. /\ EnqueueTrb("command", "NoOp").op = "enqueue"
        /\ EnqueueTrb("command", "NoOp").ring = "command"
        /\ EnqueueTrb("command", "NoOp").type = "NoOp"
        /\ RingDoorbell("command").op = "doorbell" /\ Do("reset").op = "reset"
    BY <1>EnqueueType, <1>BellType, <1>DoType DEF Ring, TrbTypes, Ops
  <2>. QED
    BY <2>2, <2>3, <2>4, <2>5, Zenon DEF p, Stmt
(* The thread that configures the device. *)
<1>ConfigureHead. ASSUME ThreadType, ConfigureInv, thread["configure"].plan # <<>>
      PROVE  LET p == thread["configure"].plan
                 c == Stmt("configure")
             IN
             /\ Done \in 0..(Total - 1) /\ Len(p) = Total - Done /\ Len(Tail(p)) = Total - (Done + 1)
             /\ Done \in {0, 1, 2, 6, 7, 8} =>
                  c.op = "enqueue" /\ c.ring = "control" /\ c.type \in {"Setup", "Data", "Status"}
             /\ Done \in {1, 7} => c.type = "Data"
             /\ Done \in {3, 9, 14 + Prefill} => c.op = "doorbell"
             /\ Done = 4 => c.op = "insert_last" /\ c.arg = 1
             /\ Done = 10 => c.op = "insert_last" /\ c.arg = 2
             /\ Done = 5 => c.op = "await" /\ c.arg = 1
             /\ Done = 11 => c.op = "await" /\ c.arg = 2
             /\ Done = 12 => c.op = "enable"
             /\ Done \in 13..(12 + Prefill) => c.op = "enqueue" /\ c.ring = "keyboard"
             /\ Done = 13 + Prefill =>
                  c.op = "enqueue" /\ c.ring = "command" /\ c.type = "ConfigureEndpoint"
             /\ Done = 15 + Prefill => c.op = "await_configured"
             /\ Tail(p) \in Seq(Stmts) /\ Suffix(Tail(p), ConfigureDevice)
             /\ Tail(p) = <<>> <=> Done = Total - 1
  <2>. USE <1>ConfigureHead
  <2>. DEFINE p == thread["configure"].plan
              s == ConfigureDevice
              d == Done
  <2>1. p \in Seq(Stmts) /\ p # <<>> /\ Suffix(p, s)
    BY DEF ThreadType, Threads, ConfigureInv, Thread
  <2>2. s \in Seq(Stmts) /\ Len(s) = Total /\ Total \in Nat /\ Prefill \in Nat /\ Total = 16 + Prefill
    BY <1>ConfigurePlan, RingAssumption DEF Total
  <2>3. d = Total - Len(p)
    BY DEF Done
  <2>. HIDE DEF p, s, d
  <2>4. /\ Len(p) \in 1..Len(s) /\ Head(p) = s[Len(s) - Len(p) + 1]
        /\ Tail(p) \in Seq(Stmts) /\ Len(Tail(p)) = Len(p) - 1
        /\ Suffix(Tail(p), s) /\ (Tail(p) = <<>> <=> Len(p) = 1)
    BY <2>1, <2>2, <1>SuffixTail, Zenon
  <2>5. /\ d \in 0..(Total - 1) /\ Len(p) = Total - d /\ Len(Tail(p)) = Total - (d + 1)
        /\ Head(p) = s[d + 1] /\ (Tail(p) = <<>> <=> d = Total - 1)
    BY <2>2, <2>3, <2>4, SMTT(30)
  <2>6. d = Done /\ s = ConfigureDevice /\ p = thread["configure"].plan /\ Head(p) = Stmt("configure")
    BY Zenon DEF p, Stmt, d, s
  <2>. DEFINE c == Stmt("configure")
  <2>. HIDE DEF c
  <2>7. c = s[d + 1]
    BY <2>5, <2>6, Zenon DEF c
  <2>8. /\ d \in {0, 1, 2, 6, 7, 8} =>
             c.op = "enqueue" /\ c.ring = "control" /\ c.type \in {"Setup", "Data", "Status"}
        /\ d \in {1, 7} => c.type = "Data"
    <3>1. /\ (d = 0 => c = s[1]) /\ (d = 1 => c = s[2]) /\ (d = 2 => c = s[3])
          /\ (d = 6 => c = s[7]) /\ (d = 7 => c = s[8]) /\ (d = 8 => c = s[9])
      BY <2>7
    <3>2. /\ s[1] = EnqueueTrb("control", "Setup") /\ s[7] = EnqueueTrb("control", "Setup")
          /\ s[2] = EnqueueTrb("control", "Data") /\ s[8] = EnqueueTrb("control", "Data")
          /\ s[3] = EnqueueTrb("control", "Status") /\ s[9] = EnqueueTrb("control", "Status")
      BY <1>ConfigurePlan, Zenon DEF s
    <3>3. \A type \in {"Setup", "Data", "Status"} :
            /\ EnqueueTrb("control", type).op = "enqueue"
            /\ EnqueueTrb("control", type).ring = "control"
            /\ EnqueueTrb("control", type).type = type
      BY <1>EnqueueType DEF Ring, TrbTypes
    <3>. QED
      BY <3>1, <3>2, <3>3
  <2>9. d \in {3, 9, 14 + Prefill} => c.op = "doorbell"
    <3>1. /\ (d = 3 => c = s[4]) /\ (d = 9 => c = s[10])
          /\ (d = 14 + Prefill => c = s[Prefill + 15])
      BY <2>2, <2>7
    <3>2. /\ RingDoorbell("control").op = "doorbell" /\ RingDoorbell("command").op = "doorbell"
      BY <1>BellType DEF Ring
    <3>. QED
      BY <2>6, <3>1, <3>2, <1>ConfigurePlan, Zenon
  <2>10. /\ d = 4 => c.op = "insert_last" /\ c.arg = 1
         /\ d = 10 => c.op = "insert_last" /\ c.arg = 2
         /\ d = 5 => c.op = "await" /\ c.arg = 1
         /\ d = 11 => c.op = "await" /\ c.arg = 2
    <3>1. /\ (d = 4 => c = s[5]) /\ (d = 10 => c = s[11])
          /\ (d = 5 => c = s[6]) /\ (d = 11 => c = s[12])
      BY <2>7
    <3>2. ASSUME NEW op \in {"insert_last", "await"}, NEW a \in {1, 2}, c = [Do(op) EXCEPT !.arg = a]
          PROVE  c.op = op /\ c.arg = a
      <4>1. op \in Ops /\ a \in Nat
        BY DEF Ops
      <4>. QED
        BY <3>2, <4>1, <1>ArgType, Zenon
    <3>3. /\ s[5] = [Do("insert_last") EXCEPT !.arg = 1] /\ s[6] = [Do("await") EXCEPT !.arg = 1]
          /\ s[11] = [Do("insert_last") EXCEPT !.arg = 2] /\ s[12] = [Do("await") EXCEPT !.arg = 2]
      BY <1>ConfigurePlan, Zenon DEF s
    <3>. QED
      BY <3>1, <3>2, <3>3
  <2>11. /\ d = 12 => c.op = "enable"
         /\ d = 13 + Prefill =>
              c.op = "enqueue" /\ c.ring = "command" /\ c.type = "ConfigureEndpoint"
         /\ d = 15 + Prefill => c.op = "await_configured"
    <3>1. /\ (d = 12 => c = s[13]) /\ (d = 13 + Prefill => c = s[Prefill + 14])
          /\ (d = 15 + Prefill => c = s[Prefill + 16])
      BY <2>2, <2>7
    <3>2. Do("enable").op = "enable" /\ Do("await_configured").op = "await_configured"
      BY <1>DoType DEF Ops
    <3>3. /\ EnqueueTrb("command", "ConfigureEndpoint").op = "enqueue"
          /\ EnqueueTrb("command", "ConfigureEndpoint").ring = "command"
          /\ EnqueueTrb("command", "ConfigureEndpoint").type = "ConfigureEndpoint"
      BY <1>EnqueueType DEF Ring, TrbTypes
    <3>4. /\ s[13] = Do("enable") /\ s[Prefill + 16] = Do("await_configured")
          /\ s[Prefill + 14] = EnqueueTrb("command", "ConfigureEndpoint")
      BY <1>ConfigurePlan, Zenon DEF s
    <3>. QED
      BY <3>1, <3>2, <3>3, <3>4
  <2>12. d \in 13..(12 + Prefill) => c.op = "enqueue" /\ c.ring = "keyboard"
    <3>1. d \in 13..(12 + Prefill) => d + 1 \in 14..(Prefill + 13)
      BY <2>2, <2>5
    <3>2. /\ EnqueueTrb("keyboard", "Normal").op = "enqueue"
          /\ EnqueueTrb("keyboard", "Normal").ring = "keyboard"
      BY <1>EnqueueType DEF Ring, TrbTypes
    <3>. QED
      BY <2>6, <2>7, <3>1, <3>2, <1>ConfigurePlan, Zenon
  <2>13. d = Done /\ c = Stmt("configure") /\ s = ConfigureDevice
    BY Zenon DEF c, d, s
  <2>. QED
    BY <2>4, <2>5, <2>8, <2>9, <2>10, <2>11, <2>12, <2>13, Zenon DEF p
(* The interrupt thread. *)
<1>IrqHead. ASSUME ThreadType, EventType, IrqInv, thread["irq"].plan # <<>>
      PROVE  LET p == thread["irq"].plan
                 e == events[thread["irq"].dequeue]
                 c == Stmt("irq")
             IN
             /\ thread["irq"].dequeue \in 1..Len(events) /\ Len(p) \in {1, 2}
             /\ e.type \in {"PortStatusChange", "CommandCompletion", "Transfer"}
             /\ e.type = "PortStatusChange" =>
                  /\ Len(p) = 2 => c.op = "enqueue" /\ c.ring = "command" /\ c.type = "EnableSlot"
                  /\ Len(p) = 1 => c.op = "doorbell"
             /\ e.type = "CommandCompletion" =>
                  /\ e.at \in {1, 2, 3}
                  /\ e.at = 1 /\ Len(p) = 2 =>
                       c.op = "enqueue" /\ c.ring = "command" /\ c.type = "AddressDevice"
                  /\ e.at = 1 /\ Len(p) = 1 => c.op = "doorbell"
                  /\ e.at = 2 => Len(p) = 1 /\ c.op = "spawn"
                  /\ e.at = 3 => Len(p) = 1 /\ c.op = "signal_configured"
             /\ e.type = "Transfer" =>
                  /\ e.endpoint \in {1, 3}
                  /\ e.endpoint = 1 => Len(p) = 1 /\ c.op = "complete" /\ c.arg = e.at
                  /\ e.endpoint = 3 /\ Len(p) = 2 => c.op = "deliver"
                  /\ e.endpoint = 3 /\ Len(p) = 1 => c.op = "enqueue" /\ c.ring = "keyboard"
             /\ Tail(p) \in Seq(Stmts) /\ Len(Tail(p)) = Len(p) - 1
             /\ Suffix(Tail(p), Handling(e))
             /\ Tail(p) = <<>> <=> Len(p) = 1
  <2>. USE <1>IrqHead
  <2>. DEFINE p == thread["irq"].plan
              n == thread["irq"].dequeue
              e == events[n]
              s == Handling(e)
  <2>1. /\ p \in Seq(Stmts) /\ p # <<>> /\ n \in 1..Len(events)
    BY DEF ThreadType, Threads, EventType, IrqInv, Thread
  <2>2. /\ e.type \in EventKinds
        /\ e.endpoint \in {0, 1, 3} /\ e.at \in Nat
    <3>. DEFINE E == [type : EventKinds,
                      endpoint : {0, 1, 3}, at : Nat]
    <3>1. e \in E
      BY <2>1, SeqElement, Zenon DEF EventType
    <3>. HIDE DEF e
    <3>. QED
      BY <3>1
  <2>3. Suffix(p, s)
    BY <2>1, Zenon DEF IrqInv
  <2>. HIDE DEF p, n, e, s
  <2>4. ASSUME s \in Seq(Stmts), Len(s) = 2
        PROVE  /\ Len(p) \in {1, 2} /\ (Len(p) = 2 => Head(p) = s[1])
               /\ (Len(p) = 1 => Head(p) = s[2])
               /\ Tail(p) \in Seq(Stmts) /\ Len(Tail(p)) = Len(p) - 1
               /\ Suffix(Tail(p), s) /\ (Tail(p) = <<>> <=> Len(p) = 1)
    BY <2>1, <2>3, <2>4, <1>TwoStmts, Zenon
  <2>5. CASE e.type = "PortStatusChange"
    <3>1. s = IssueCommand("EnableSlot")
      BY <2>2, <2>5, <1>HandlingPlan DEF s
    <3>2. /\ s \in Seq(Stmts) /\ Len(s) = 2 /\ s[1] = EnqueueTrb("command", "EnableSlot")
          /\ s[2] = RingDoorbell("command")
      BY <3>1, <1>IssuePlan DEF TrbTypes
    <3>3. /\ s[1].op = "enqueue" /\ s[1].ring = "command" /\ s[1].type = "EnableSlot"
          /\ s[2].op = "doorbell"
      BY <3>2, <1>EnqueueType, <1>BellType DEF TrbTypes, Ring
    <3>4. /\ Len(p) \in {1, 2} /\ (Len(p) = 2 => Head(p) = s[1]) /\ (Len(p) = 1 => Head(p) = s[2])
      BY <2>4, <3>2, Zenon
    <3>. QED
      BY <2>1, <2>4, <2>5, <3>2, <3>3, <3>4, Zenon DEF p, n, e, s, Stmt
  <2>6. CASE e.type = "CommandCompletion" /\ e.at = 1
    <3>1. s = IssueCommand("AddressDevice")
      BY <2>2, <2>6, <1>HandlingPlan DEF s
    <3>2. /\ s \in Seq(Stmts) /\ Len(s) = 2 /\ s[1] = EnqueueTrb("command", "AddressDevice")
          /\ s[2] = RingDoorbell("command")
      BY <3>1, <1>IssuePlan DEF TrbTypes
    <3>3. /\ s[1].op = "enqueue" /\ s[1].ring = "command" /\ s[1].type = "AddressDevice"
          /\ s[2].op = "doorbell"
      BY <3>2, <1>EnqueueType, <1>BellType DEF TrbTypes, Ring
    <3>4. /\ Len(p) \in {1, 2} /\ (Len(p) = 2 => Head(p) = s[1]) /\ (Len(p) = 1 => Head(p) = s[2])
      BY <2>4, <3>2, Zenon
    <3>5. e.at # 2 /\ e.at # 3
      BY <2>6
    <3>. QED
      BY <2>1, <2>4, <2>6, <3>2, <3>3, <3>4, <3>5, Zenon DEF p, n, e, s, Stmt
  <2>7. ASSUME NEW x \in Stmts, s = <<x>>
        PROVE  /\ Len(p) = 1 /\ Head(p) = x /\ Tail(p) \in Seq(Stmts) /\ Len(Tail(p)) = Len(p) - 1
               /\ Suffix(Tail(p), s) /\ (Tail(p) = <<>> <=> Len(p) = 1)
    BY <2>1, <2>3, <2>7, <1>OneStmt, Zenon
  <2>8. CASE e.type = "CommandCompletion" /\ e.at = 2
    <3>1. s = <<Do("spawn")>> /\ Do("spawn") \in Stmts /\ Do("spawn").op = "spawn"
      BY <2>2, <2>8, <1>HandlingPlan, <1>DoType DEF s, Ops
    <3>2. e.at # 1 /\ e.at # 3
      BY <2>8
    <3>. QED
      BY <2>1, <2>7, <2>8, <3>1, <3>2, Zenon DEF p, n, e, s, Stmt
  <2>9. CASE e.type = "CommandCompletion" /\ e.at = 3
    <3>1. /\ s = <<Do("signal_configured")>> /\ Do("signal_configured") \in Stmts
          /\ Do("signal_configured").op = "signal_configured"
      BY <2>2, <2>9, <1>HandlingPlan, <1>DoType DEF s, Ops
    <3>2. e.at # 1 /\ e.at # 2
      BY <2>9
    <3>. QED
      BY <2>1, <2>7, <2>9, <3>1, <3>2, Zenon DEF p, n, e, s, Stmt
  <2>10. CASE e.type = "Transfer" /\ e.endpoint = 1
    <3>. DEFINE x == [Do("complete") EXCEPT !.arg = e.at]
    <3>1. s = <<x>> /\ x \in Stmts /\ x.op = "complete" /\ x.arg = e.at
      BY <2>2, <2>10, <1>HandlingPlan, <1>ArgType DEF s, Ops
    <3>. HIDE DEF x
    <3>2. e.endpoint # 3
      BY <2>10
    <3>. QED
      BY <2>1, <2>7, <2>10, <3>1, <3>2, Zenon DEF p, n, e, s, Stmt
  <2>11. CASE e.type = "Transfer" /\ e.endpoint = 3
    <3>. DEFINE x == [Do("deliver") EXCEPT !.arg = e.at]
                y == EnqueueTrb("keyboard", "Normal")
    <3>1. s = <<x, y>> /\ x \in Stmts /\ y \in Stmts
      BY <2>2, <2>11, <1>HandlingPlan, <1>ArgType, <1>EnqueueType DEF s, Ops, Ring, TrbTypes
    <3>2. x.op = "deliver"
      <4>1. "deliver" \in Ops
        BY DEF Ops
      <4>. QED
        BY <2>2, <4>1, <1>ArgType, Zenon
    <3>6. y.op = "enqueue" /\ y.ring = "keyboard"
      BY <1>EnqueueType DEF Ring, TrbTypes
    <3>. HIDE DEF x, y
    <3>3. s \in Seq(Stmts) /\ Len(s) = 2 /\ s[1] = x /\ s[2] = y
      BY <3>1
    <3>4. /\ Len(p) \in {1, 2} /\ (Len(p) = 2 => Head(p) = x) /\ (Len(p) = 1 => Head(p) = y)
      BY <2>4, <3>3, Zenon
    <3>5. e.endpoint # 1
      BY <2>11
    <3>. QED
      BY <2>1, <2>4, <2>11, <3>2, <3>3, <3>4, <3>5, <3>6, Zenon DEF p, n, e, s, Stmt
  <2>12. CASE \/ e.type = "CommandCompletion" /\ e.at \notin {1, 2, 3}
              \/ e.type = "Transfer" /\ e.endpoint \notin {1, 3}
              \/ e.type = "Failed"
    <3>1. s = <<>>
      BY <2>2, <2>12, <1>HandlingPlan DEF s
    <3>2. Len(p) = 0
      BY <2>1, <2>3, <3>1 DEF Suffix
    <3>. QED
      BY <2>1, <3>2, SeqEmpty
  <2>. QED
    BY <2>2, <2>5, <2>6, <2>8, <2>9, <2>10, <2>11, <2>12, Zenon DEF EventKinds
(* The plan for an event that is read. *)
<1>EventPlanIs. ASSUME XInv, NEW n \in 1..Len(events)
      PROVE  LET e == events[n] IN
             /\ EventPlan(e) = Handling(e) \/ EventPlan(e) = <<>>
             /\ EventPlan(e) \in Seq(Stmts)
             /\ e.type = "CommandCompletion" /\ Len(EventPlan(e)) = 2 => e.at = 1
  <2>. USE <1>EventPlanIs
  <2>0. ControllerInv /\ EventInv /\ EventType /\ HcType
    BY Zenon DEF XInv, Types
  <2>. DEFINE E == [type : EventKinds,
                    endpoint : {0, 1, 3}, at : Nat]
              e == events[n]
              v == EventPlan(e)
  <2>1. e \in E
    BY <2>0, SeqElement, Zenon DEF EventType
  <2>. HIDE DEF e
  <2>2. /\ e.type \in EventKinds
        /\ e.endpoint \in {0, 1, 3} /\ e.at \in Nat
    BY <2>1
  <2>3. CASE e.type = "PortStatusChange"
    <3>1. v = Handling(e)
      BY <2>2, <2>3, <1>HandlingPlan DEF EventPlan
    <3>2. v = IssueCommand("EnableSlot")
      BY <2>3 DEF EventPlan
    <3>3. v \in Seq(Stmts)
      BY <3>2, <1>IssuePlan DEF TrbTypes
    <3>4. e.type # "CommandCompletion"
      BY <2>3
    <3>. QED
      BY <3>1, <3>3, <3>4, Zenon DEF e
  <2>4. CASE e.type = "CommandCompletion"
    <3>. DEFINE type == ring["command"].trb[e.at].type
    <3>1. e.at < hc.at["command"] /\ hc.at["command"] <= RingSlots /\ hc.at["command"] \in Nat
      BY <2>0, <2>4 DEF EventInv, ControllerInv, e, HcType, Ring
    <3>2. e.at \in Index
      BY <2>2, <3>1, RingAssumption DEF Index
    <3>3. e.at < Issued /\ type = CommandLog[e.at + 1] /\ Issued <= 4
      BY <2>0, <3>1, <3>2, Zenon DEF ControllerInv, CommandTrb
    <3>4. Issued \in Nat
      BY RingAssumption DEF XInv, Types, RingType, Ring, Issued
    <3>5. e.at \in {0, 1, 2, 3}
      BY <2>2, <3>3, <3>4
    <3>6. v = HandleCommandCompletion(type)
      BY <2>4 DEF EventPlan
    <3>. HIDE DEF type
    <3>7. /\ e.at = 0 => type = "NoOp"
          /\ e.at = 1 => type = "EnableSlot"
          /\ e.at = 2 => type = "AddressDevice"
          /\ e.at = 3 => type = "ConfigureEndpoint"
      BY <3>3 DEF CommandLog
    <3>8. CASE e.at = 0
      <4>1. HandleCommandCompletion(type) = <<>>
        BY <3>7, <3>8 DEF HandleCommandCompletion
      <4>2. v = <<>> /\ v \in Seq(Stmts) /\ Len(v) # 2
        BY <3>6, <4>1
      <4>. QED
        BY <4>2, Zenon DEF e
    <3>9. CASE e.at = 1
      <4>1. HandleCommandCompletion(type) = IssueCommand("AddressDevice")
        BY <3>7, <3>9 DEF HandleCommandCompletion, InitializeSlot
      <4>2. v = Handling(e)
        BY <2>2, <2>4, <3>6, <3>9, <4>1, <1>HandlingPlan
      <4>3. v \in Seq(Stmts)
        BY <3>6, <4>1, <1>IssuePlan DEF TrbTypes
      <4>. QED
        BY <3>9, <4>2, <4>3, Zenon DEF e
    <3>10. CASE e.at = 2
      <4>1. HandleCommandCompletion(type) = <<Do("spawn")>>
        BY <3>7, <3>10 DEF HandleCommandCompletion
      <4>2. v = Handling(e)
        BY <2>2, <2>4, <3>6, <3>10, <4>1, <1>HandlingPlan
      <4>3. v \in Seq(Stmts) /\ Len(v) # 2
        BY <3>6, <4>1, <1>DoType DEF Ops
      <4>. QED
        BY <4>2, <4>3, Zenon DEF e
    <3>11. CASE e.at = 3
      <4>1. HandleCommandCompletion(type) = <<Do("signal_configured")>>
        BY <3>7, <3>11 DEF HandleCommandCompletion
      <4>2. v = Handling(e)
        BY <2>2, <2>4, <3>6, <3>11, <4>1, <1>HandlingPlan
      <4>3. v \in Seq(Stmts) /\ Len(v) # 2
        BY <3>6, <4>1, <1>DoType DEF Ops
      <4>. QED
        BY <4>2, <4>3, Zenon DEF e
    <3>. QED
      BY <3>5, <3>8, <3>9, <3>10, <3>11, Zenon
  <2>5. CASE e.type = "Transfer"
    <3>1. e.endpoint \in {1, 3}
      BY <2>0, <2>5, Zenon DEF EventInv, e
    <3>2. v = HandleTransferCompletion(e)
      BY <2>5 DEF EventPlan
    <3>3. e.type # "CommandCompletion"
      BY <2>5
    <3>4. CASE e.endpoint = 1
      <4>. DEFINE x == [Do("complete") EXCEPT !.arg = e.at]
      <4>1. v = <<x>> /\ Handling(e) = <<x>>
        BY <2>2, <2>5, <3>2, <3>4, <1>HandlingPlan DEF HandleTransferCompletion
      <4>2. x \in Stmts
        BY <2>2, <1>ArgType DEF Ops
      <4>. HIDE DEF x, v
      <4>3. v \in Seq(Stmts)
        BY <4>1, <4>2
      <4>. QED
        BY <3>3, <4>1, <4>3, Zenon DEF e, v
    <3>5. CASE e.endpoint = 3
      <4>. DEFINE x == [Do("deliver") EXCEPT !.arg = e.at]
                  y == EnqueueTrb("keyboard", "Normal")
      <4>1. Handling(e) = <<x, y>> /\ (v = <<x, y>> \/ v = <<>>)
        BY <2>2, <2>5, <3>2, <3>5, <1>HandlingPlan DEF HandleTransferCompletion
      <4>2. x \in Stmts /\ y \in Stmts
        BY <2>2, <1>ArgType, <1>EnqueueType DEF Ops, Ring, TrbTypes
      <4>. HIDE DEF x, y, v
      <4>3. <<x, y>> \in Seq(Stmts) /\ <<>> \in Seq(Stmts)
        BY <4>2
      <4>. QED
        BY <3>3, <4>1, <4>3, Zenon DEF e, v
    <3>. QED
      BY <3>1, <3>4, <3>5
  <2>6. CASE e.type = "Failed"
    <3>1. v = <<>>
      BY <2>6 DEF EventPlan
    <3>2. e.type # "CommandCompletion" /\ <<>> \in Seq(Stmts)
      BY <2>6
    <3>. QED
      BY <3>1, <3>2, Zenon DEF e
  <2>. QED
    BY <2>2, <2>3, <2>4, <2>5, <2>6, Zenon DEF EventKinds
<1>1. StartPlans
  BY <1>MainPlan, <1>ConfigurePlan, Zenon DEF StartPlans
<1>2. MainNext
  BY <1>MainHead, Zenon DEF MainNext
<1>3. ConfigureNext
  BY <1>ConfigureHead, Zenon DEF ConfigureNext
<1>4. IrqNext
  BY <1>IrqHead, Zenon DEF IrqNext
<1>5. EventNext
  BY <1>EventPlanIs, Zenon DEF EventNext
<1>. QED
  BY <1>1, <1>2, <1>3, <1>4, <1>5, Zenon

(* At its start it has all of them left. *)
LEMMA SuffixSelf ==
  ASSUME NEW S, NEW s \in Seq(S)
  PROVE  Suffix(s, s)
BY DEF Suffix

-----------------------------------------------------------------------------
(* Who executes what. *)

(* The statements that only one thread executes. *)
LEMMA IrqOps ==
  ASSUME ThreadType, EventType, IrqInv, thread["irq"].plan # <<>>
  PROVE  LET e == events[thread["irq"].dequeue]
             op == Stmt("irq").op
         IN
         /\ op \in {"enqueue", "doorbell", "spawn", "signal_configured", "complete", "deliver"}
         /\ op = "spawn" => e.type = "CommandCompletion" /\ e.at = 2 /\ Len(thread["irq"].plan) = 1
         /\ op = "complete" => /\ e.type = "Transfer" /\ e.endpoint = 1
                               /\ Stmt("irq").arg = e.at
<1>. DEFINE n == thread["irq"].dequeue
            e == events[n]
            c == Stmt("irq")
            m == Len(thread["irq"].plan)
<1>1. /\ n \in 1..Len(events) /\ m \in {1, 2}
      /\ e.type = "PortStatusChange" =>
           /\ m = 2 => c.op = "enqueue"
           /\ m = 1 => c.op = "doorbell"
      /\ e.type = "CommandCompletion" =>
           /\ e.at \in {1, 2, 3}
           /\ e.at = 1 /\ m = 2 => c.op = "enqueue"
           /\ e.at = 1 /\ m = 1 => c.op = "doorbell"
           /\ e.at = 2 => m = 1 /\ c.op = "spawn"
           /\ e.at = 3 => c.op = "signal_configured"
      /\ e.type = "Transfer" =>
           /\ e.endpoint \in {1, 3}
           /\ e.endpoint = 1 => c.op = "complete" /\ c.arg = e.at
           /\ e.endpoint = 3 /\ m = 2 => c.op = "deliver"
           /\ e.endpoint = 3 /\ m = 1 => c.op = "enqueue"
  BY NextStatements, Zenon DEF IrqNext
<1>2. e.type \in {"PortStatusChange", "CommandCompletion", "Transfer"}
  BY NextStatements, Zenon DEF IrqNext
<1>. HIDE DEF n, e, c, m
<1>3. /\ c.op \in {"enqueue", "doorbell", "spawn", "signal_configured", "complete", "deliver"}
      /\ c.op = "spawn" => e.type = "CommandCompletion" /\ e.at = 2 /\ m = 1
      /\ c.op = "complete" => e.type = "Transfer" /\ e.endpoint = 1 /\ c.arg = e.at
  BY <1>1, <1>2
<1>. QED
  BY <1>3, Zenon DEF n, e, c, m

(* Only the thread that configures the device waits for a descriptor.      *)
LEMMA ConfigureOps ==
  ASSUME ThreadType, ConfigureInv, thread["configure"].plan # <<>>
  PROVE  LET c == Stmt("configure") IN
         /\ c.op \in {"enqueue", "doorbell", "insert_last", "await", "enable", "await_configured"}
         /\ c.op = "insert_last" => (Done = 4 /\ c.arg = 1) \/ (Done = 10 /\ c.arg = 2)
         /\ c.op = "await" => (Done = 5 /\ c.arg = 1) \/ (Done = 11 /\ c.arg = 2)
<1>. DEFINE c == Stmt("configure")
            d == Done
<1>1. /\ d \in 0..(Total - 1)
      /\ d \in {0, 1, 2, 6, 7, 8} => c.op = "enqueue"
      /\ d \in {3, 9, 14 + Prefill} => c.op = "doorbell"
      /\ d = 4 => c.op = "insert_last" /\ c.arg = 1
      /\ d = 10 => c.op = "insert_last" /\ c.arg = 2
      /\ d = 5 => c.op = "await" /\ c.arg = 1
      /\ d = 11 => c.op = "await" /\ c.arg = 2
      /\ d = 12 => c.op = "enable"
      /\ d \in 13..(12 + Prefill) => c.op = "enqueue"
      /\ d = 13 + Prefill => c.op = "enqueue"
      /\ d = 15 + Prefill => c.op = "await_configured"
  BY NextStatements, Zenon DEF ConfigureNext
<1>2. Prefill \in Nat /\ Total = 16 + Prefill
  BY RingAssumption DEF Total
<1>. HIDE DEF c, d
<1>3. \/ d \in {0, 1, 2, 6, 7, 8} \/ d \in 13..(12 + Prefill) \/ d = 13 + Prefill
      \/ d \in {3, 9, 14 + Prefill} \/ d = 4 \/ d = 10 \/ d = 5 \/ d = 11 \/ d = 12
      \/ d = 15 + Prefill
  <2>1. d \in 0..(15 + Prefill)
    <3>1. d \in 0..(Total - 1)
      BY <1>1, Zenon
    <3>. QED
      BY <1>2, <3>1
  <2>2. CASE d <= 12
    <3>1. d \in {0, 1, 2, 3, 4, 5, 6, 7, 8, 9, 10, 11, 12}
      BY <2>1, <2>2, <1>2
    <3>. QED
      BY <3>1, Zenon
  <2>3. CASE ~(d <= 12)
    <3>1. \/ d \in 13..(12 + Prefill) \/ d = 13 + Prefill \/ d = 14 + Prefill
          \/ d = 15 + Prefill
      BY <2>1, <2>3, <1>2
    <3>. QED
      BY <3>1, Zenon
  <2>. QED
    BY <2>2, <2>3, Zenon
<1>4. /\ c.op \in {"enqueue", "doorbell", "insert_last", "await", "enable", "await_configured"}
      /\ c.op = "insert_last" => (d = 4 /\ c.arg = 1) \/ (d = 10 /\ c.arg = 2)
      /\ c.op = "await" => (d = 5 /\ c.arg = 1) \/ (d = 11 /\ c.arg = 2)
  BY <1>1, <1>3
<1>. QED
  BY <1>4, Zenon DEF c, d

(* The boot thread issues one command and resets the port.                 *)
LEMMA MainOps ==
  ASSUME ThreadType, MainInv, thread["main"].plan # <<>>
  PROVE  Stmt("main").op \in {"enqueue", "doorbell", "reset"}
<1>. DEFINE c == Stmt("main")
            m == Len(thread["main"].plan)
<1>1. /\ m \in 1..3 /\ (m = 3 => c.op = "enqueue") /\ (m = 2 => c.op = "doorbell")
      /\ m = 1 => c.op = "reset"
  BY NextStatements, Zenon DEF MainNext
<1>. HIDE DEF c, m
<1>2. c.op \in {"enqueue", "doorbell", "reset"}
  BY <1>1
<1>. QED
  BY <1>2, Zenon DEF c

-----------------------------------------------------------------------------
(* One writer to a ring. *)

(* A thread inside EnqueueTrb: which command it writes is told by how many *)
(* there are; the keyboard's ring is the configuring thread's until the    *)
(* endpoint is configured, and the interrupt thread's from then on.        *)
Held(t) ==
  LET i == thread[t].ptr IN
  /\ Stmt(t).ring \in Ring
  /\ Stmt(t).ring = "command" =>
       \/ t = "main" /\ Stmt(t).type = "NoOp" /\ Claims(t, 0)
       \/ /\ t = "irq" /\ Stmt(t).type = "EnableSlot" /\ Claims(t, 1)
          /\ events[thread[t].dequeue].type = "PortStatusChange"
       \/ /\ t = "irq" /\ Stmt(t).type = "AddressDevice" /\ Claims(t, 2)
          /\ events[thread[t].dequeue].type = "CommandCompletion"
          /\ events[thread[t].dequeue].at = 1
       \/ /\ t = "configure" /\ Stmt(t).type = "ConfigureEndpoint" /\ Claims(t, 3)
          /\ Done = 13 + Prefill
  /\ Stmt(t).ring = "control" =>
       /\ t = "configure" /\ Done \in {0, 1, 2, 6, 7, 8} /\ Issued = 3
       /\ Stmt(t).type \in {"Setup", "Data", "Status"}
       /\ Done \in {1, 7} => Stmt(t).type = "Data"
  /\ Stmt(t).ring = "keyboard" =>
       \/ t = "irq" /\ Len(thread[t].plan) = 1 /\ Issued > 3
       \/ t = "configure" /\ Done \in 13..(12 + Prefill) /\ Issued = 3

(* Every thread that holds an index is in one of these places.             *)
LEMMA Holder ==
  ASSUME XInv, NEW t \in Thread, thread[t].plan # <<>>, Stmt(t).op = "enqueue"
  PROVE  Held(t)
<1>. USE DEF Held
<1>. DEFINE c == Stmt(t)
<1>0. /\ ThreadType /\ EventType /\ MainInv /\ IrqInv /\ ConfigureInv /\ ControllerInv /\ EventInv
      /\ RingType /\ HcType
  BY Zenon DEF XInv, Types
<1>1. CASE t = "main"
  <2>1. Len(thread["main"].plan) = 3 /\ c.ring = "command" /\ c.type = "NoOp"
    <3>1. /\ Len(thread["main"].plan) \in 1..3
          /\ Len(thread["main"].plan) = 3 => c.ring = "command" /\ c.type = "NoOp"
          /\ Len(thread["main"].plan) = 2 => c.op = "doorbell"
          /\ Len(thread["main"].plan) = 1 => c.op = "reset"
      BY <1>0, <1>1, NextStatements, Zenon DEF MainNext
    <3>. QED
      BY <3>1
  <2>2. Claims("main", 0)
    BY <1>0, <2>1, Zenon DEF MainInv
  <2>. QED
    BY <1>1, <2>1, <2>2, Zenon DEF Ring
<1>2. CASE t = "irq"
  <2>. DEFINE p == thread["irq"].plan
              e == events[thread["irq"].dequeue]
  <2>1. /\ thread["irq"].dequeue \in 1..Len(events) /\ Len(p) \in {1, 2}
        /\ e.type = "PortStatusChange" =>
             /\ Len(p) = 2 => c.ring = "command" /\ c.type = "EnableSlot"
             /\ Len(p) = 1 => c.op = "doorbell"
        /\ e.type = "CommandCompletion" =>
             /\ e.at \in {1, 2, 3}
             /\ e.at = 1 /\ Len(p) = 2 => c.ring = "command" /\ c.type = "AddressDevice"
             /\ e.at = 1 /\ Len(p) = 1 => c.op = "doorbell"
             /\ e.at = 2 => c.op = "spawn"
             /\ e.at = 3 => c.op = "signal_configured"
        /\ e.type = "Transfer" =>
             /\ e.endpoint \in {1, 3}
             /\ e.endpoint = 1 => c.op = "complete"
             /\ e.endpoint = 3 /\ Len(p) = 2 => c.op = "deliver"
             /\ e.endpoint = 3 /\ Len(p) = 1 => c.ring = "keyboard"
    BY <1>0, <1>2, NextStatements, Zenon DEF IrqNext
  <2>2. e.type \in {"PortStatusChange", "CommandCompletion", "Transfer"}
    BY <1>0, <1>2, NextStatements, Zenon DEF IrqNext
  <2>3. /\ Len(p) = 2 /\ e.type = "PortStatusChange" => Claims("irq", 1)
        /\ Len(p) = 2 /\ e.type = "CommandCompletion" => Claims("irq", 2)
    BY <1>0, <1>2, Zenon DEF IrqInv
  <2>4. e.type = "Transfer" /\ e.endpoint = 3 => hc.enabled
    BY <1>0, <2>1, Zenon DEF EventInv
  <2>5. hc.enabled => Issued > 3
    <3>1. hc.enabled => hc.at["command"] > 3 /\ hc.at["command"] <= RingSlots /\ hc.at["command"] \in Nat
      BY <1>0 DEF ControllerInv, HcType, Ring
    <3>2. hc.enabled => 3 \in Index /\ 3 < hc.at["command"]
      BY <3>1, RingAssumption DEF Index
    <3>3. hc.enabled => 3 < Issued
      BY <1>0, <3>2, Zenon DEF ControllerInv
    <3>. QED
      BY <1>0, <3>3 DEF RingType, Issued, Ring
  <2>. HIDE DEF p, e, c
  <2>6. \/ e.type = "PortStatusChange" /\ Len(p) = 2
        \/ e.type = "CommandCompletion" /\ e.at = 1 /\ Len(p) = 2
        \/ e.type = "Transfer" /\ e.endpoint = 3 /\ Len(p) = 1
    BY <2>1, <2>2 DEF c
  <2>7. /\ c.ring \in Ring
        /\ c.ring = "command" =>
             \/ c.type = "EnableSlot" /\ Claims("irq", 1) /\ e.type = "PortStatusChange"
             \/ c.type = "AddressDevice" /\ Claims("irq", 2) /\ e.type = "CommandCompletion" /\ e.at = 1
        /\ c.ring # "control"
        /\ c.ring = "keyboard" => Len(p) = 1 /\ Issued > 3
    BY <2>1, <2>3, <2>4, <2>5, <2>6 DEF Ring
  <2>. QED
    BY <1>2, <2>7, Zenon DEF p, e, c
<1>3. CASE t = "configure"
  <2>. DEFINE d == Done
  <2>1. /\ d \in 0..(Total - 1)
        /\ d \in {0, 1, 2, 6, 7, 8} => c.ring = "control" /\ c.type \in {"Setup", "Data", "Status"}
        /\ d \in {1, 7} => c.type = "Data"
        /\ d \in {3, 9, 14 + Prefill} => c.op = "doorbell"
        /\ d = 4 => c.op = "insert_last"
        /\ d = 10 => c.op = "insert_last"
        /\ d = 5 => c.op = "await"
        /\ d = 11 => c.op = "await"
        /\ d = 12 => c.op = "enable"
        /\ d \in 13..(12 + Prefill) => c.ring = "keyboard"
        /\ d = 13 + Prefill => c.ring = "command" /\ c.type = "ConfigureEndpoint"
        /\ d = 15 + Prefill => c.op = "await_configured"
    BY <1>0, <1>3, NextStatements, Zenon DEF ConfigureNext
  <2>2. /\ d < 13 + Prefill => Issued = 3
        /\ d = 13 + Prefill => Claims("configure", 3)
    BY <1>0, <1>3, Zenon DEF ConfigureInv
  <2>3. Prefill \in Nat /\ Total = 16 + Prefill
    BY RingAssumption DEF Total
  <2>. HIDE DEF d, c
  <2>4. d \in {0, 1, 2, 6, 7, 8} \/ d \in 13..(12 + Prefill) \/ d = 13 + Prefill
    <3>1. \/ d \in {0, 1, 2, 6, 7, 8} \/ d \in 13..(12 + Prefill) \/ d = 13 + Prefill
          \/ d \in {3, 9, 14 + Prefill} \/ d = 4 \/ d = 10 \/ d = 5 \/ d = 11 \/ d = 12
          \/ d = 15 + Prefill
      BY <2>1, <2>3
    <3>. QED
      BY <2>1, <3>1 DEF c
  <2>5. d \in {0, 1, 2, 6, 7, 8} \/ d \in 13..(12 + Prefill) => d < 13 + Prefill
    BY <2>3
  <2>6. /\ c.ring \in Ring
        /\ c.ring = "command" =>
             c.type = "ConfigureEndpoint" /\ Claims("configure", 3) /\ d = 13 + Prefill
        /\ c.ring = "control" =>
              /\ d \in {0, 1, 2, 6, 7, 8} /\ Issued = 3 /\ c.type \in {"Setup", "Data", "Status"}
              /\ d \in {1, 7} => c.type = "Data"
        /\ c.ring = "keyboard" => d \in 13..(12 + Prefill) /\ Issued = 3
    <3>1. CASE d \in {0, 1, 2, 6, 7, 8}
      BY <2>1, <2>2, <2>5, <3>1, SMTT(30) DEF Ring
    <3>2. CASE d \in 13..(12 + Prefill)
      BY <2>1, <2>2, <2>5, <3>2 DEF Ring
    <3>3. CASE d = 13 + Prefill
      BY <2>1, <2>2, <3>3, Zenon DEF Ring
    <3>. QED
      BY <2>4, <3>1, <3>2, <3>3
  <2>. QED
    BY <1>3, <2>6, Zenon DEF d, c
<1>. QED
  BY <1>1, <1>2, <1>3 DEF Thread
(* Two threads inside EnqueueTrb are inside it for two rings. *)
LEMMA Exclusive ==
  ASSUME XInv, NEW t \in Thread, NEW u \in Thread, thread[t].ptr # NoPtr, thread[u].ptr # NoPtr,
         Stmt(t).ring = Stmt(u).ring
  PROVE  t = u
<1>1. /\ thread[t].plan # <<>> /\ Stmt(t).op = "enqueue"
      /\ thread[u].plan # <<>> /\ Stmt(u).op = "enqueue"
  BY Zenon DEF XInv, PtrInv
<1>2. Issued \in Nat
  BY RingAssumption DEF XInv, Types, RingType, Issued, Ring
<1>. DEFINE Holds(x) ==
       /\ Stmt(x).ring \in Ring
       /\ Stmt(x).ring = "command" =>
            \/ x = "main" /\ Issued = 1
            \/ x = "irq" /\ Issued \in {2, 3}
            \/ x = "configure" /\ Issued = 4
       /\ Stmt(x).ring = "control" => x = "configure"
       /\ Stmt(x).ring = "keyboard" =>
              (x = "irq" /\ Issued > 3) \/ (x = "configure" /\ Issued = 3)
<1>3. ASSUME NEW x \in Thread, thread[x].plan # <<>>, Stmt(x).op = "enqueue", thread[x].ptr # NoPtr
      PROVE  Holds(x)
  <2>1. /\ Stmt(x).ring \in Ring
        /\ Stmt(x).ring = "command" =>
             \/ x = "main" /\ Claims(x, 0)
             \/ x = "irq" /\ Claims(x, 1)
             \/ x = "irq" /\ Claims(x, 2)
             \/ x = "configure" /\ Claims(x, 3)
        /\ Stmt(x).ring = "control" => x = "configure"
        /\ Stmt(x).ring = "keyboard" =>
              (x = "irq" /\ Issued > 3) \/ (x = "configure" /\ Issued = 3)
    BY <1>3, Holder, Zenon DEF Held
  <2>2. \A i \in 0..3 : Claims(x, i) => Issued = i + 1
    BY <1>3 DEF Claims
  <2>. QED
    BY <2>1, <2>2
<1>4. Holds(t) /\ Holds(u)
  BY <1>1, <1>3, Zenon
<1>. QED
  BY <1>2, <1>4 DEF Ring

-----------------------------------------------------------------------------
(* Kinds of steps. *)

(* Thread u stays where it is.                                             *)
Keeps(u) ==
  /\ thread'[u].plan = thread[u].plan /\ thread'[u].ptr = thread[u].ptr
  /\ thread'[u].dequeue = thread[u].dequeue

(* The events that are there stay. *)
Grows ==
  /\ Len(events') >= Len(events)
  /\ \A n \in 1..Len(events) : events'[n] = events[n]

(* Thread t is done with a statement. *)
Drops(t) ==
  /\ thread[t].plan # <<>> /\ thread'[t].plan = Tail(thread[t].plan)
  /\ thread'[t].ptr = NoPtr /\ thread'[t].dequeue = thread[t].dequeue
  /\ Stmt(t).op = "enqueue" => thread[t].ptr # NoPtr
  /\ \A u \in Thread \ {t} : Keeps(u)

(* What a statement that is done leaves of the plans. *)
LEMMA DropMain ==
  ASSUME XInv, NEW t \in Thread, Drops(t), Issued' = Issued
  PROVE  MainInv'
<1>0. ThreadType /\ MainInv
  BY Zenon DEF XInv, Types
<1>1. CASE t = "main"
  <2>. DEFINE p == thread["main"].plan
  <2>1. p # <<>> /\ thread'["main"].plan = Tail(p)
    BY <1>1, Zenon DEF Drops
  <2>2. /\ Len(p) \in 1..3 /\ (Len(p) = 3 => Stmt("main").op = "enqueue")
        /\ Len(Tail(p)) = Len(p) - 1 /\ Suffix(Tail(p), InitiateDriver)
    BY <1>0, <2>1, NextStatements, Zenon DEF MainNext
  <2>3. /\ Len(p) = 3 => Claims("main", 0) /\ thread["main"].ptr # NoPtr
        /\ Len(p) \in {1, 2} => Issued = 1
    BY <1>0, <1>1, <2>2, Zenon DEF MainInv, Drops
  <2>. DEFINE m == Len(p)
              k == Len(Tail(p))
  <2>. HIDE DEF p, m, k
  <2>a. m \in 1..3 /\ k = m - 1
    BY <2>2, Zenon DEF m, k
  <2>b. k \in {1, 2} => m = 3 \/ m = 2
    BY <2>a
  <2>c. Claims("main", 0) /\ thread["main"].ptr # NoPtr => Issued = 1
    BY DEF Claims
  <2>4. Len(Tail(p)) \in {1, 2} => Issued = 1
    BY <2>3, <2>b, <2>c, Zenon DEF m, k
  <2>d. k # 3
    BY <2>a
  <2>5. Len(Tail(p)) # 3
    BY <2>d, Zenon DEF k
  <2>. QED
    BY <2>1, <2>2, <2>4, <2>5, Zenon DEF MainInv
<1>2. CASE t # "main"
  <2>1. Keeps("main")
    BY <1>2 DEF Drops, Thread
  <2>. QED
    BY <1>0, <2>1, Zenon DEF MainInv, Keeps, Claims, Issued
<1>. QED
  BY <1>1, <1>2

(* The interrupt thread has the rest of its plan left.                     *)
LEMMA DropIrq ==
  ASSUME XInv, NEW t \in Thread, Drops(t), Issued' = Issued, events' = events
  PROVE  IrqInv'
<1>0. ThreadType /\ EventType /\ IrqInv
  BY Zenon DEF XInv, Types
<1>. DEFINE p == thread["irq"].plan
            n == thread["irq"].dequeue
            e == events[n]
<1>1. CASE t = "irq"
  <2>1. /\ p # <<>> /\ thread'["irq"].plan = Tail(p) /\ thread'["irq"].dequeue = n
    BY <1>1, Zenon DEF Drops
  <2>2. /\ n \in 1..Len(events) /\ Len(p) \in {1, 2} /\ Len(Tail(p)) = Len(p) - 1
        /\ Suffix(Tail(p), Handling(e)) /\ (Tail(p) = <<>> <=> Len(p) = 1)
        /\ e.type = "CommandCompletion" /\ e.at = 2 => Len(p) = 1
    BY <1>0, <2>1, NextStatements, Zenon DEF IrqNext
  <2>3. n <= Len(events) /\ n > 0
    BY <1>0, <2>1, Zenon DEF IrqInv
  <2>. DEFINE m == Len(p)
              k == Len(Tail(p))
  <2>. HIDE DEF p, n, e, m, k
  <2>a. m \in {1, 2} /\ k = m - 1
    BY <2>2, Zenon DEF m, k
  <2>b. k # 2
    BY <2>a
  <2>4. Len(Tail(p)) # 2
    BY <2>b, Zenon DEF k
  <2>5. n' = n /\ e' = e /\ p' = Tail(p)
    BY <2>1, Zenon DEF n, e, p
  <2>6. /\ n' <= Len(events')
        /\ p' # <<>> =>
             /\ n' > 0 /\ Suffix(p', Handling(e'))
             /\ Len(p') = 2 /\ e'.type = "PortStatusChange" => Claims("irq", 1)'
             /\ Len(p') = 2 /\ e'.type = "CommandCompletion" => Claims("irq", 2)'
             /\ e'.type = "CommandCompletion" /\ e'.at = 2 =>
                  Issued' = 3 /\ thread'["configure"].plan = <<>>
    BY <2>2, <2>3, <2>4, <2>5, Zenon
  <2>. QED
    BY <2>6, Zenon DEF IrqInv, n, e, p
<1>2. CASE t # "irq"
  <2>1. Keeps("irq")
    BY <1>2 DEF Drops, Thread
  <2>2. thread["configure"].plan = <<>> => thread'["configure"].plan = <<>>
    BY DEF Drops, Keeps, Thread
  <2>. QED
    BY <1>0, <2>1, <2>2, Zenon DEF IrqInv, Keeps, Claims, Issued
<1>. QED
  BY <1>1, <1>2

(* The configuring thread has the rest of its plan left.                   *)
LEMMA DropConfigure ==
  ASSUME XInv, NEW t \in Thread, Drops(t), Issued' = Issued
  PROVE  ConfigureInv'
<1>0. ThreadType /\ ConfigureInv
  BY Zenon DEF XInv, Types
<1>1. CASE t = "configure"
  <2>. DEFINE p == thread["configure"].plan
              d == Done
  <2>1. p # <<>> /\ thread'["configure"].plan = Tail(p) /\ thread'["configure"].ptr = NoPtr
    BY <1>1, Zenon DEF Drops
  <2>2. /\ d \in 0..(Total - 1) /\ Len(Tail(p)) = Total - (d + 1)
        /\ Suffix(Tail(p), ConfigureDevice)
        /\ d = 13 + Prefill => Stmt("configure").op = "enqueue"
    BY <1>0, <2>1, NextStatements, Zenon DEF ConfigureNext
  <2>3. /\ d < 13 + Prefill => Issued = 3
        /\ d = 13 + Prefill => Claims("configure", 3) /\ thread["configure"].ptr # NoPtr
        /\ d > 13 + Prefill => Issued = 4
    BY <1>0, <1>1, <2>1, <2>2, Zenon DEF ConfigureInv, Drops
  <2>4. Prefill \in Nat /\ Total = 16 + Prefill
    BY RingAssumption DEF Total
  <2>5. Done' = Total - Len(Tail(p))
    BY <2>1, Zenon DEF Done, Total
  <2>. DEFINE k == Len(Tail(p))
  <2>. HIDE DEF p, d, k
  <2>a. d \in 0..(Total - 1) /\ k = Total - (d + 1) /\ Done' = Total - k
    BY <2>2, <2>5, Zenon DEF k
  <2>6. Done' = d + 1
    BY <2>4, <2>a
  <2>7. /\ d + 1 < 13 + Prefill => Issued = 3
        /\ d + 1 = 13 + Prefill => Issued = 3
        /\ d + 1 > 13 + Prefill => Issued = 4
    BY <2>2, <2>3, <2>4 DEF Claims
  <2>. QED
    BY <2>1, <2>2, <2>6, <2>7, Zenon DEF ConfigureInv, Claims
<1>2. CASE t # "configure"
  <2>1. Keeps("configure")
    BY <1>2 DEF Drops, Thread
  <2>2. Done' = Done
    BY <2>1, Zenon DEF Done, Total, Keeps
  <2>. QED
    BY <1>0, <2>1, <2>2, Zenon DEF ConfigureInv, Keeps, Claims, Issued
<1>. QED
  BY <1>1, <1>2
(* What a step leaves alone. *)
LEMMA SameEvents ==
  ASSUME EventInv, events' = events, thread'["irq"].dequeue = thread["irq"].dequeue,
         Issued' = Issued, hc'.at = hc.at, hc'.enabled = hc.enabled,
         thread["configure"].plan = <<>> => thread'["configure"].plan = <<>>
  PROVE  EventInv'
BY Zenon DEF EventInv

(* No event is written.                                                    *)
LEMMA SameOnce ==
  ASSUME OnceInv, events' = events, hc'.reset = hc.reset,
         thread["main"].plan = <<>> => thread'["main"].plan = <<>>
  PROVE  OnceInv'
BY Zenon DEF OnceInv

(* No command is issued or taken.                                          *)
LEMMA SameController ==
  ASSUME ControllerInv, ring'["command"] = ring["command"],
         ring'["control"].trb = ring["control"].trb,
         hc'.at = hc.at, hc'.enabled = hc.enabled, hc'.reset => Issued = 1,
         thread["configure"].plan = <<>> => thread'["configure"].plan = <<>>
  PROVE  ControllerInv'
BY Zenon DEF ControllerInv, Issued, CommandTrb, ControlTrb, Index, CommandLog, Blank

(* A thread that is done with a statement holds no index.                  *)
LEMMA DropPtr ==
  ASSUME PtrInv, NEW t \in Thread, Drops(t), ring' = ring
  PROVE  PtrInv'
<1>. SUFFICES ASSUME NEW u \in Thread, thread'[u].ptr # NoPtr
              PROVE  /\ thread'[u].plan # <<>> /\ Stmt(u)'.op = "enqueue"
                     /\ thread'[u].ptr < ring[Stmt(u)'.ring].enqueue
                     /\ Stmt(u)'.ring = "command" => CommandTrb(thread'[u].ptr) = Blank
  BY Zenon DEF PtrInv, CommandTrb, Blank
<1>1. Keeps(u)
  BY DEF Drops
<1>. QED
  BY <1>1, Zenon DEF PtrInv, Keeps, Stmt

(* A thread with a new plan. *)
NewPlan(f, g, t, v) ==
  /\ g \in [Thread -> Threads]
  /\ g[t].plan = v /\ g[t].ptr = f[t].ptr /\ g[t].last = f[t].last
  /\ g[t].loop = f[t].loop /\ g[t].dequeue = f[t].dequeue
  /\ \A u \in Thread \ {t} : g[u] = f[u]

(* A thread that is given a plan keeps the rest of its state.              *)
LEMMA PlanReplaced ==
  ASSUME NEW f \in [Thread -> Threads], NEW t \in Thread, NEW v \in Seq(Stmts)
  PROVE  NewPlan(f, [f EXCEPT ![t].plan = v], t, v)
<1>. DEFINE Q == Seq(Stmts)
            T == Thread
            L == {"poll", "drain", "clear"}
<1>1. v \in Q /\ t \in T
  OBVIOUS
<1>2. Threads = [plan : Q, ptr : Nat \cup {NoPtr}, last : Nat \cup {NoPtr}, loop : L, dequeue : Nat]
  BY DEF Threads
<1>3. f \in [T -> Threads]
  OBVIOUS
<1>. HIDE DEF Q, T, L
<1>. DEFINE g == [f EXCEPT ![t].plan = v]
<1>4. /\ g \in [T -> Threads]
      /\ g[t].plan = v /\ g[t].ptr = f[t].ptr /\ g[t].last = f[t].last
      /\ g[t].loop = f[t].loop /\ g[t].dequeue = f[t].dequeue
      /\ \A u \in T \ {t} : g[u] = f[u]
  BY <1>1, <1>2, <1>3, ZenonT(40)
<1>. HIDE DEF g
<1>5. NewPlan(f, g, t, v)
  BY <1>4, Zenon DEF NewPlan, T
<1>. QED
  BY <1>5, Zenon DEF g

(* A thread that goes on to the next statement of its plan. *)
LEMMA Advances ==
  ASSUME ThreadType, PtrInv, NEW t \in Thread, thread[t].plan # <<>>, Stmt(t).op # "enqueue",
         thread' = Advance(t)
  PROVE  ThreadType' /\ Drops(t)
<1>1. thread[t].ptr = NoPtr
  BY Zenon DEF PtrInv
<1>2. Tail(thread[t].plan) \in Seq(Stmts)
  BY DEF ThreadType, Threads
<1>3. NewPlan(thread, thread', t, Tail(thread[t].plan))
  BY <1>2, PlanReplaced, Zenon DEF Advance, ThreadType
<1>. QED
  BY <1>1, <1>3, Zenon DEF NewPlan, ThreadType, Drops, Keeps

(* A statement that does not touch a ring. *)
LEMMA DropStep ==
  ASSUME XInv, NEW t \in Thread, thread[t].plan # <<>>, Stmt(t).op # "enqueue",
         thread' = Advance(t), ring' = ring, events' = events, crashed' = crashed,
         hc'.at = hc.at, hc'.enabled = hc.enabled, HcType', DeviceType',
         hc'.reset = hc.reset \/ Stmt(t).op = "reset"
  PROVE  XInv'
<1>1. ThreadType' /\ Drops(t)
  BY Advances, Zenon DEF XInv, Types
<1>2. Issued' = Issued
  BY Zenon DEF Issued
<1>3. MainInv' /\ IrqInv' /\ ConfigureInv'
  BY <1>1, <1>2, DropMain, DropIrq, DropConfigure, Zenon
<1>4. PtrInv'
  BY <1>1, DropPtr, Zenon DEF XInv
<1>5. RingType' /\ EventType'
  BY Zenon DEF XInv, Types, RingType, EventType, Index, Trbs
<1>6. /\ thread["configure"].plan = <<>> => thread'["configure"].plan = <<>>
      /\ thread["main"].plan = <<>> => thread'["main"].plan = <<>>
      /\ thread'["irq"].dequeue = thread["irq"].dequeue
  BY <1>1 DEF Drops, Keeps, Thread
<1>7. EventInv'
  BY <1>2, <1>6, SameEvents, Zenon DEF XInv
<1>8. CASE hc'.reset = hc.reset
  <2>1. hc'.reset => Issued = 1
    BY <1>8, Zenon DEF XInv, ControllerInv
  <2>2. OnceInv' /\ ControllerInv'
    BY <1>6, <1>8, <2>1, SameOnce, SameController, Zenon DEF XInv
  <2>. QED
    BY <1>1, <1>3, <1>4, <1>5, <1>7, <2>2, Zenon DEF XInv, Types
<1>9. CASE Stmt(t).op = "reset"
  <2>1. t = "main" /\ Len(thread["main"].plan) = 1 /\ Tail(thread["main"].plan) = <<>>
    <3>0. ThreadType /\ EventType /\ MainInv /\ IrqInv /\ ConfigureInv
      BY Zenon DEF XInv, Types
    <3>1. CASE t = "main"
      <4>1. /\ Len(thread["main"].plan) \in 1..3
            /\ Len(thread["main"].plan) = 3 => Stmt("main").op = "enqueue"
            /\ Len(thread["main"].plan) = 2 => Stmt("main").op = "doorbell"
            /\ Tail(thread["main"].plan) = <<>> <=> Len(thread["main"].plan) = 1
        BY <3>0, <3>1, NextStatements, Zenon DEF MainNext
      <4>. QED
        BY <1>9, <3>1, <4>1
    <3>2. CASE t = "irq"
      BY <1>9, <3>0, <3>2, IrqOps, Zenon
    <3>3. CASE t = "configure"
      BY <1>9, <3>0, <3>3, ConfigureOps, Zenon
    <3>. QED
      BY <3>1, <3>2, <3>3 DEF Thread
  <2>2. Issued = 1
    BY <2>1, Zenon DEF XInv, MainInv
  <2>3. thread["main"].plan # <<>> /\ thread'["main"].plan = <<>>
    BY <1>1, <2>1, Zenon DEF Drops
  <2>4. \A n \in 1..Len(events) : events[n].type # "PortStatusChange"
    BY <2>3, Zenon DEF XInv, OnceInv
  <2>5. OnceInv'
    BY <2>3, <2>4, Zenon DEF XInv, OnceInv
  <2>6. ControllerInv'
    BY <1>6, <2>2, SameController, Zenon DEF XInv
  <2>. QED
    BY <1>1, <1>3, <1>4, <1>5, <1>7, <2>5, <2>6, Zenon DEF XInv, Types
<1>. QED
  BY <1>8, <1>9, Zenon
-----------------------------------------------------------------------------
(* EnqueueTrb. *)

(* A TRB is written to a ring. *)
NewTrb(r, i, x) ==
  /\ ring' \in [Ring -> [enqueue : 0..RingSlots, trb : [Index -> Trbs]]]
  /\ \A q \in Ring : ring'[q].enqueue = ring[q].enqueue
  /\ \A q \in Ring \ {r} : ring'[q] = ring[q]
  /\ ring'[r].trb[i] = x
  /\ \A j \in Index \ {i} : ring'[r].trb[j] = ring[r].trb[j]

(* EnqueueTrb writes one block of one ring.                                *)
LEMMA TrbWritten ==
  ASSUME RingType, NEW r \in Ring, NEW i \in Index, NEW x \in Trbs,
         ring' = [ring EXCEPT ![r].trb[i] = x]
  PROVE  NewTrb(r, i, x)
<1>. DEFINE E == 0..RingSlots
            R == Ring
            I == Index
<1>1. ring \in [R -> [enqueue : E, trb : [I -> Trbs]]] /\ r \in R /\ i \in I
  BY DEF RingType
<1>. HIDE DEF E, R, I
<1>2. /\ ring' \in [R -> [enqueue : E, trb : [I -> Trbs]]]
      /\ \A q \in R : ring'[q].enqueue = ring[q].enqueue
      /\ \A q \in R \ {r} : ring'[q] = ring[q]
      /\ ring'[r].trb[i] = x
      /\ \A j \in I \ {i} : ring'[r].trb[j] = ring[r].trb[j]
  BY <1>1
<1>. QED
  BY <1>2, Zenon DEF NewTrb, E, R, I

(* What WriteTrb does to the threads and to the ring. *)
LEMMA Written ==
  ASSUME XInv, NEW t \in Thread, WriteTrb(t)
  PROVE  /\ ThreadType' /\ Drops(t) /\ thread'[t].last = thread[t].ptr
         /\ \A u \in Thread \ {t} : thread'[u] = thread[u]
         /\ thread[t].ptr \in Index /\ Stmt(t).ring \in Ring
         /\ \E x \in Trbs : x.type = Stmt(t).type /\ NewTrb(Stmt(t).ring, thread[t].ptr, x)
<1>0. ThreadType /\ RingType /\ PtrInv /\ DeviceType
  BY Zenon DEF XInv, Types
<1>1. /\ thread[t].plan # <<>> /\ Stmt(t).op = "enqueue" /\ thread[t].ptr # NoPtr
      /\ thread[t].ptr < ring[Stmt(t).ring].enqueue
  BY <1>0, Zenon DEF PtrInv, WriteTrb
<1>2. Stmt(t).ring \in Ring
  BY <1>1, Holder, Zenon DEF Held
<1>3. /\ thread[t] \in Threads /\ thread[t].ptr \in Nat /\ Tail(thread[t].plan) \in Seq(Stmts)
      /\ Stmt(t) \in Stmts
  BY <1>0, <1>1 DEF ThreadType, Threads, Stmt
<1>4. thread[t].ptr \in Index
  <2>1. ring[Stmt(t).ring].enqueue \in 0..RingSlots
    BY <1>0, <1>2 DEF RingType
  <2>. DEFINE k == ring[Stmt(t).ring].enqueue
  <2>. HIDE DEF k
  <2>2. k \in 0..RingSlots /\ thread[t].ptr < k
    BY <1>1, <2>1, Zenon DEF k
  <2>. QED
    BY <1>3, <2>2, RingAssumption DEF Index
<1>5. NewPlan(thread, Advance(t), t, Tail(thread[t].plan))
  BY <1>0, <1>3, PlanReplaced, Zenon DEF Advance, ThreadType
<1>6. /\ ThreadType' /\ Drops(t) /\ thread'[t].last = thread[t].ptr
      /\ \A u \in Thread \ {t} : thread'[u] = thread[u]
  <2>. DEFINE g == Advance(t)
              k == thread[t].ptr
  <2>1. thread' = [g EXCEPT ![t].last = k, ![t].ptr = NoPtr]
    BY Zenon DEF WriteTrb
  <2>. HIDE DEF g
  <2>2. g \in [Thread -> Threads] /\ g[t].plan = Tail(thread[t].plan)
        /\ g[t].dequeue = thread[t].dequeue /\ \A u \in Thread \ {t} : g[u] = thread[u]
    BY <1>5, Zenon DEF NewPlan, g
  <2>. DEFINE Q == Seq(Stmts)
              T == Thread
              L == {"poll", "drain", "clear"}
  <2>3. Threads = [plan : Q, ptr : Nat \cup {NoPtr}, last : Nat \cup {NoPtr}, loop : L, dequeue : Nat]
    BY DEF Threads
  <2>4. g \in [T -> Threads] /\ t \in T /\ k \in Nat
    BY <1>3, <2>2
  <2>. HIDE DEF Q, T, L, k
  <2>5. /\ thread' \in [T -> Threads] /\ thread'[t].last = k /\ thread'[t].ptr = NoPtr
        /\ thread'[t].plan = g[t].plan /\ thread'[t].dequeue = g[t].dequeue
        /\ \A u \in T \ {t} : thread'[u] = g[u]
    BY <2>1, <2>3, <2>4, ZenonT(40)
  <2>. QED
    BY <1>1, <2>2, <2>5, Zenon DEF ThreadType, Drops, Keeps, T, k
<1>7. \E x \in Trbs : x.type = Stmt(t).type /\ NewTrb(Stmt(t).ring, thread[t].ptr, x)
  <2>. DEFINE normal == Stmt(t).type = "Normal"
              x == [type |-> Stmt(t).type, buffer |-> IF normal THEN device.offset ELSE 0]
  <2>1. ring' = [ring EXCEPT ![Stmt(t).ring].trb[thread[t].ptr] = x]
    BY Zenon DEF WriteTrb
  <2>2. x \in Trbs /\ x.type = Stmt(t).type
    BY <1>0, <1>3 DEF Trbs, Stmts, DeviceType
  <2>. HIDE DEF x
  <2>3. NewTrb(Stmt(t).ring, thread[t].ptr, x)
    BY <1>0, <1>2, <1>4, <2>1, <2>2, TrbWritten, Zenon
  <2>. QED
    BY <2>2, <2>3
<1>. QED
  BY <1>2, <1>4, <1>6, <1>7, Zenon

(* Writing the TRB. *)
LEMMA WriteStep ==
  ASSUME XInv, NEW t \in Thread, WriteTrb(t)
  PROVE  XInv'
<1>. DEFINE r == Stmt(t).ring
            i == thread[t].ptr
<1>0. RingType /\ PtrInv /\ ControllerInv /\ EventInv /\ OnceInv /\ EventType /\ HcType /\ DeviceType
  BY Zenon DEF XInv, Types
<1>1. ThreadType' /\ Drops(t) /\ i \in Index /\ r \in Ring
  BY Written, Zenon
<1>2. PICK x \in Trbs : x.type = Stmt(t).type /\ NewTrb(r, i, x)
  BY Written, Zenon
<1>3. /\ hc' = hc /\ events' = events /\ crashed' = crashed
      /\ i # NoPtr /\ thread[t].plan # <<>> /\ Stmt(t).op = "enqueue"
  BY <1>0, Zenon DEF WriteTrb, PtrInv
<1>4. Issued' = Issued
  BY <1>2 DEF Issued, NewTrb, Ring
<1>5. MainInv' /\ IrqInv' /\ ConfigureInv'
  BY <1>1, <1>3, <1>4, DropMain, DropIrq, DropConfigure, Zenon
<1>6. /\ thread["configure"].plan = <<>> => thread'["configure"].plan = <<>>
      /\ thread["main"].plan = <<>> => thread'["main"].plan = <<>>
      /\ thread'["irq"].dequeue = thread["irq"].dequeue
  BY <1>1 DEF Drops, Keeps, Thread
<1>7. EventInv' /\ OnceInv'
  BY <1>0, <1>3, <1>4, <1>6, SameEvents, SameOnce, Zenon
<1>8. RingType' /\ EventType' /\ HcType'
  <2>1. RingType'
    BY <1>0, <1>2, <1>3, Zenon DEF RingType, NewTrb, Index, Trbs
  <2>. QED
    BY <1>0, <1>3, <2>1, Zenon DEF EventType, HcType
<1>9. DeviceType'
  <2>1. device' = device \/ device' = [device EXCEPT !.offset = @ + 1]
    BY Zenon DEF WriteTrb
  <2>. QED
    BY <1>0, <2>1 DEF DeviceType, DeviceFields
<1>10. PtrInv'
  <2>. SUFFICES ASSUME NEW u \in Thread, thread'[u].ptr # NoPtr
                PROVE  /\ thread'[u].plan # <<>> /\ Stmt(u)'.op = "enqueue"
                       /\ thread'[u].ptr < ring'[Stmt(u)'.ring].enqueue
                       /\ Stmt(u)'.ring = "command" => ring'["command"].trb[thread'[u].ptr] = Blank
    BY Zenon DEF PtrInv, CommandTrb, Blank
  <2>1. u # t /\ Keeps(u)
    BY <1>1, Zenon DEF Drops
  <2>2. Stmt(u)' = Stmt(u) /\ thread'[u].ptr = thread[u].ptr /\ thread'[u].plan = thread[u].plan
    BY <2>1, Zenon DEF Keeps, Stmt
  <2>3. /\ thread[u].plan # <<>> /\ Stmt(u).op = "enqueue"
        /\ thread[u].ptr < ring[Stmt(u).ring].enqueue
        /\ Stmt(u).ring = "command" => CommandTrb(thread[u].ptr) = Blank
    BY <1>0, <2>2, Zenon DEF PtrInv
  <2>4. Stmt(u).ring \in Ring /\ Stmt(u).ring # r
    BY <1>3, <2>1, <2>2, <2>3, Holder, Exclusive, Zenon DEF Held
  <2>5. ring'[Stmt(u).ring] = ring[Stmt(u).ring]
    BY <1>2, <2>4 DEF NewTrb
  <2>. QED
    BY <2>2, <2>3, <2>5, Zenon DEF CommandTrb
<1>11. ControllerInv'
  <2>1. CASE r = "keyboard"
    <3>1. ring'["command"] = ring["command"] /\ ring'["control"] = ring["control"]
      BY <1>2, <2>1 DEF NewTrb, Ring
    <3>2. hc'.reset => Issued = 1
      BY <1>0, <1>3, Zenon DEF ControllerInv
    <3>. QED
      BY <1>0, <1>3, <1>6, <3>1, <3>2, SameController, Zenon
  <2>2. CASE r = "control"
    <3>1. ring'["command"] = ring["command"]
      BY <1>2, <2>2 DEF NewTrb, Ring
    <3>2. x.type # "ConfigureEndpoint"
      <4>1. Stmt(t).type \in {"Setup", "Data", "Status"}
        BY <1>3, <2>2, Holder, Zenon DEF Held
      <4>. QED
        BY <1>2, <4>1
    <3>3. \A j \in Index : ControlTrb(j)'.type # "ConfigureEndpoint"
      BY <1>0, <1>2, <2>2, <3>2 DEF NewTrb, ControllerInv, ControlTrb
    <3>. QED
      BY <1>0, <1>3, <1>6, <3>1, <3>3, Zenon DEF ControllerInv, Issued, CommandTrb, Index, CommandLog, Blank
  <2>3. CASE r = "command"
    <3>1. ring'["control"] = ring["control"]
      BY <1>2, <2>3 DEF NewTrb, Ring
    <3>2. x.type = CommandLog[i + 1] /\ x # Blank
      <4>1. \/ Stmt(t).type = "NoOp" /\ Claims(t, 0)
            \/ Stmt(t).type = "EnableSlot" /\ Claims(t, 1)
            \/ Stmt(t).type = "AddressDevice" /\ Claims(t, 2)
            \/ Stmt(t).type = "ConfigureEndpoint" /\ Claims(t, 3)
        BY <1>3, <2>3, Holder, Zenon DEF Held
      <4>2. \/ Stmt(t).type = "NoOp" /\ i = 0
            \/ Stmt(t).type = "EnableSlot" /\ i = 1
            \/ Stmt(t).type = "AddressDevice" /\ i = 2
            \/ Stmt(t).type = "ConfigureEndpoint" /\ i = 3
        BY <1>3, <4>1, Zenon DEF Claims
      <4>. HIDE DEF i
      <4>. QED
        BY <1>2, <4>2 DEF CommandLog, Blank
    <3>3. i < Issued
      BY <1>0, <1>3, <2>3, Zenon DEF PtrInv, Issued
    <3>4. \A j \in Index : CommandTrb(j)' = IF j = i THEN x ELSE CommandTrb(j)
      BY <1>2, <2>3 DEF NewTrb, CommandTrb
    <3>. HIDE DEF i, r
    <3>5. \A j \in Index : CommandTrb(j)' # Blank => j < Issued /\ CommandTrb(j)'.type = CommandLog[j + 1]
      BY <1>0, <3>2, <3>3, <3>4, Zenon DEF ControllerInv
    <3>6. \A j \in Index : j < hc.at["command"] => CommandTrb(j)' # Blank
      BY <1>0, <3>2, <3>4, Zenon DEF ControllerInv
    <3>. QED
      BY <1>0, <1>3, <1>4, <1>6, <3>1, <3>5, <3>6, Zenon
      DEF ControllerInv, ControlTrb, Index, CommandLog, Blank
  <2>. QED
    BY <1>1, <2>1, <2>2, <2>3 DEF Ring
<1>. QED
  BY <1>1, <1>5, <1>7, <1>8, <1>9, <1>10, <1>11, Zenon DEF XInv, Types
(* What TakeIndex does to the threads and to the ring. *)
Takes(t) ==
  LET r == Stmt(t).ring IN
  /\ ~crashed /\ thread[t].plan # <<>> /\ Stmt(t).op = "enqueue" /\ thread[t].ptr = NoPtr
  /\ r \in Ring
  /\ \A u \in Thread : thread'[u].plan = thread[u].plan /\ thread'[u].dequeue = thread[u].dequeue
  /\ thread'[t].ptr = ring[r].enqueue /\ thread'[t].last = thread[t].last
  /\ \A u \in Thread \ {t} : thread'[u] = thread[u]
  /\ ring'[r].enqueue = ring[r].enqueue + 1
  /\ \A q \in Ring : ring'[q].trb = ring[q].trb
  /\ \A q \in Ring \ {r} : ring'[q] = ring[q]
  /\ hc' = hc /\ events' = events /\ device' = device

(* EnqueueTrb takes the next index of one ring.                            *)
LEMMA Taken ==
  ASSUME XInv, NEW t \in Thread, TakeIndex(t)
  PROVE  ThreadType' /\ RingType' /\ Takes(t)
<1>. DEFINE r == Stmt(t).ring
            k == ring[r].enqueue
<1>0. ThreadType /\ RingType
  BY Zenon DEF XInv, Types
<1>1. /\ ~crashed /\ thread[t].plan # <<>> /\ Stmt(t).op = "enqueue" /\ thread[t].ptr = NoPtr
      /\ thread' = [thread EXCEPT ![t].ptr = k] /\ ring' = [ring EXCEPT ![r].enqueue = @ + 1]
      /\ crashed' = (k + 1 = RingSlots)
      /\ hc' = hc /\ events' = events /\ device' = device
  BY Zenon DEF TakeIndex, At, Stmt
<1>2. r \in Ring
  BY <1>1, Holder, Zenon DEF Held
<1>3. k \in 0..RingSlots /\ k # RingSlots
  BY <1>0, <1>1, <1>2 DEF RingType
<1>4. k \in Nat /\ k + 1 \in 0..RingSlots
  BY <1>3, RingAssumption
<1>5. /\ ThreadType'
      /\ \A u \in Thread : thread'[u].plan = thread[u].plan /\ thread'[u].dequeue = thread[u].dequeue
      /\ thread'[t].ptr = k /\ thread'[t].last = thread[t].last
      /\ \A u \in Thread \ {t} : thread'[u] = thread[u]
  <2>. DEFINE Q == Seq(Stmts)
              T == Thread
              L == {"poll", "drain", "clear"}
  <2>1. Threads = [plan : Q, ptr : Nat \cup {NoPtr}, last : Nat \cup {NoPtr}, loop : L, dequeue : Nat]
    BY DEF Threads
  <2>2. thread \in [T -> Threads] /\ t \in T
    BY <1>0 DEF ThreadType
  <2>. HIDE DEF Q, T, L, k
  <2>3. /\ thread' \in [T -> Threads]
        /\ \A u \in T : thread'[u].plan = thread[u].plan /\ thread'[u].dequeue = thread[u].dequeue
        /\ thread'[t].ptr = k /\ thread'[t].last = thread[t].last
        /\ \A u \in T \ {t} : thread'[u] = thread[u]
    BY <1>1, <1>4, <2>1, <2>2, ZenonT(40)
  <2>. QED
    BY <2>3, Zenon DEF ThreadType, T
<1>6. /\ ring' \in [Ring -> [enqueue : 0..RingSlots, trb : [Index -> Trbs]]]
      /\ ring'[r].enqueue = k + 1
      /\ \A q \in Ring : ring'[q].trb = ring[q].trb
      /\ \A q \in Ring \ {r} : ring'[q] = ring[q]
  <2>. DEFINE E == 0..RingSlots
              R == Ring
              B == [Index -> Trbs]
              K == k + 1
  <2>1. ring \in [R -> [enqueue : E, trb : B]] /\ r \in R /\ K \in E
    BY <1>0, <1>2, <1>4 DEF RingType
  <2>2. ring' = [ring EXCEPT ![r].enqueue = K]
    BY <1>1
  <2>. HIDE DEF E, R, B, r, K
  <2>3. /\ ring' \in [R -> [enqueue : E, trb : B]]
        /\ ring'[r].enqueue = K
        /\ \A q \in R : ring'[q].trb = ring[q].trb
        /\ \A q \in R \ {r} : ring'[q] = ring[q]
    BY <2>1, <2>2
  <2>. QED
    BY <2>3, Zenon DEF E, R, B, K
<1>7. RingType'
  <2>1. ASSUME NEW q \in Ring, ring'[q].enqueue = RingSlots PROVE crashed'
    <3>1. CASE q = r
      BY <1>1, <1>6, <2>1, <3>1, Zenon
    <3>2. CASE q # r
      BY <1>0, <1>1, <1>6, <2>1, <3>2, Zenon DEF RingType
    <3>. QED
      BY <3>1, <3>2
  <2>. QED
    BY <1>6, <2>1, Zenon DEF RingType, Index, Trbs
<1>. QED
  BY <1>1, <1>2, <1>5, <1>6, <1>7, Zenon DEF Takes

(* The index is in nobody's use. *)
LEMMA TakePtr ==
  ASSUME XInv, NEW t \in Thread, Takes(t), RingType'
  PROVE  PtrInv'
<1>0. RingType /\ PtrInv /\ ControllerInv
  BY Zenon DEF XInv, Types
<1>. SUFFICES ASSUME NEW u \in Thread, thread'[u].ptr # NoPtr
              PROVE  /\ thread'[u].plan # <<>> /\ Stmt(u)'.op = "enqueue"
                     /\ thread'[u].ptr < ring'[Stmt(u)'.ring].enqueue
                     /\ Stmt(u)'.ring = "command" => ring'["command"].trb[thread'[u].ptr] = Blank
  BY Zenon DEF PtrInv, CommandTrb, Blank
<1>1. Stmt(u)' = Stmt(u) /\ thread'[u].plan = thread[u].plan
  BY Zenon DEF Takes, Stmt
<1>2. ring'["command"].trb = ring["command"].trb
  BY DEF Takes, Ring
<1>3. CASE u = t
  <2>. DEFINE r == Stmt(t).ring
              k == ring[r].enqueue
  <2>1. /\ thread[t].plan # <<>> /\ Stmt(t).op = "enqueue" /\ r \in Ring
        /\ thread'[t].ptr = k /\ ring'[r].enqueue = k + 1 /\ ~crashed
    BY Zenon DEF Takes
  <2>2. k \in 0..RingSlots /\ k # RingSlots
    BY <1>0, <2>1 DEF RingType
  <2>3. k \in Index /\ k < k + 1 /\ ~(k < k)
    BY <2>2, RingAssumption DEF Index
  <2>4. r = "command" => CommandTrb(k) = Blank
    <3>1. r = "command" => k = Issued
      BY Zenon DEF Issued
    <3>. QED
      BY <1>0, <2>3, <3>1, Zenon DEF ControllerInv
  <2>. QED
    BY <1>1, <1>2, <1>3, <2>1, <2>3, <2>4, Zenon DEF CommandTrb
<1>4. CASE u # t
  <2>1. thread'[u] = thread[u]
    BY <1>4, Zenon DEF Takes
  <2>2. /\ thread[u].plan # <<>> /\ Stmt(u).op = "enqueue"
        /\ thread[u].ptr < ring[Stmt(u).ring].enqueue
        /\ Stmt(u).ring = "command" => CommandTrb(thread[u].ptr) = Blank
    BY <1>0, <2>1, Zenon DEF PtrInv
  <2>3. Stmt(u).ring \in Ring
    BY <2>2, Holder, Zenon DEF Held
  <2>4. thread[u].ptr \in Int
    BY <2>1 DEF XInv, Types, ThreadType, Threads, NoPtr
  <2>5. thread[u].ptr < ring'[Stmt(u).ring].enqueue
    <3>1. CASE Stmt(u).ring = Stmt(t).ring
      <4>. DEFINE k == ring[Stmt(u).ring].enqueue
      <4>1. k \in 0..RingSlots /\ ring'[Stmt(u).ring].enqueue = k + 1
        BY <1>0, <2>3, <3>1 DEF RingType, Takes
      <4>. HIDE DEF k
      <4>2. k \in 0..RingSlots /\ ring'[Stmt(u).ring].enqueue = k + 1 /\ thread[u].ptr < k
        BY <2>2, <4>1, Zenon DEF k
      <4>. QED
        BY <2>4, <4>2
    <3>2. CASE Stmt(u).ring # Stmt(t).ring
      <4>1. ring'[Stmt(u).ring] = ring[Stmt(u).ring]
        BY <2>3, <3>2 DEF Takes
      <4>. QED
        BY <2>2, <4>1, Zenon
    <3>. QED
      BY <3>1, <3>2
  <2>. QED
    BY <1>1, <1>2, <2>1, <2>2, <2>5, Zenon DEF CommandTrb
<1>. QED
  BY <1>3, <1>4
(* Taking an index of another ring than the command ring. *)
LEMMA TakeOther ==
  ASSUME XInv, NEW t \in Thread, Takes(t), Stmt(t).ring # "command"
  PROVE  MainInv' /\ IrqInv' /\ ConfigureInv' /\ ControllerInv' /\ EventInv' /\ OnceInv'
<1>0. /\ MainInv /\ IrqInv /\ ConfigureInv /\ ControllerInv /\ EventInv /\ OnceInv
  BY Zenon DEF XInv
<1>1. ring'["command"] = ring["command"] /\ ring'["control"].trb = ring["control"].trb
  BY DEF Takes, Ring
<1>2. Issued' = Issued /\ hc' = hc /\ events' = events
  BY <1>1, Zenon DEF Issued, Takes
<1>3. /\ thread'["main"].plan = thread["main"].plan /\ thread'["irq"].plan = thread["irq"].plan
      /\ thread'["configure"].plan = thread["configure"].plan
      /\ thread'["irq"].dequeue = thread["irq"].dequeue
  BY DEF Takes, Thread
<1>4. /\ Stmt(t).ring = "control" => t = "configure" /\ Done \in {0, 1, 2, 6, 7, 8}
      /\ Stmt(t).ring = "keyboard" =>
           \/ t = "irq" /\ Len(thread[t].plan) = 1
           \/ t = "configure" /\ Done \in 13..(12 + Prefill)
      /\ Stmt(t).ring \in Ring
  BY Holder, Zenon DEF Takes, Held
<1>5. \/ t = "irq" /\ Len(thread["irq"].plan) = 1
      \/ t = "configure" /\ Done < 13 + Prefill
  <2>1. Prefill \in Nat
    BY RingAssumption
  <2>2. \A d : d \in {0, 1, 2, 6, 7, 8} \/ d \in 13..(12 + Prefill) => d < 13 + Prefill
    BY <2>1
  <2>. QED
    BY <1>4, <2>2 DEF Ring
<1>6. MainInv'
  <2>1. thread'["main"] = thread["main"]
    BY <1>5 DEF Takes, Thread
  <2>. QED
    BY <1>0, <1>2, <2>1, Zenon DEF MainInv, Claims
<1>7. IrqInv'
  <2>1. CASE t = "irq" /\ Len(thread["irq"].plan) = 1
    <3>1. Len(thread["irq"].plan) # 2
      BY <2>1
    <3>. QED
      BY <1>0, <1>2, <1>3, <3>1, Zenon DEF IrqInv
  <2>2. CASE t = "configure"
    <3>1. thread'["irq"] = thread["irq"]
      BY <2>2, Zenon DEF Takes, Thread
    <3>. QED
      BY <1>0, <1>2, <1>3, <3>1, Zenon DEF IrqInv, Claims
  <2>. QED
    BY <1>5, <2>1, <2>2, Zenon
<1>8. ConfigureInv'
  <2>0. Done' = Done
    BY <1>3, Zenon DEF Done, Total
  <2>1. CASE t = "irq"
    <3>1. thread'["configure"] = thread["configure"]
      BY <2>1, Zenon DEF Takes, Thread
    <3>. QED
      BY <1>0, <1>2, <2>0, <3>1, Zenon DEF ConfigureInv, Claims
  <2>2. CASE Done < 13 + Prefill
    <3>1. Prefill \in Nat /\ Done \in Int
      <4>1. Len(thread["configure"].plan) \in Nat
        BY DEF XInv, Types, ThreadType, Threads, Thread
      <4>. QED
        BY <4>1, RingAssumption DEF Done, Total
    <3>2. Done # 13 + Prefill /\ ~(Done > 13 + Prefill)
      BY <2>2, <3>1
    <3>. QED
      BY <1>0, <1>2, <1>3, <2>0, <3>2, Zenon DEF ConfigureInv
  <2>. QED
    BY <1>5, <2>1, <2>2, Zenon
<1>9. EventInv' /\ OnceInv'
  BY <1>0, <1>2, <1>3, SameEvents, SameOnce, Zenon
<1>10. ControllerInv'
  <2>1. hc'.reset => Issued = 1
    BY <1>0, <1>2, Zenon DEF ControllerInv
  <2>. QED
    BY <1>0, <1>1, <1>2, <1>3, <2>1, SameController, Zenon
<1>. QED
  BY <1>6, <1>7, <1>8, <1>9, <1>10, Zenon

(* Taking an index of the command ring: the number of commands tells which *)
(* thread it is, and that no other has a cause to do so.                   *)
LEMMA TakeCommand ==
  ASSUME XInv, NEW t \in Thread, Takes(t), Stmt(t).ring = "command"
  PROVE  MainInv' /\ IrqInv' /\ ConfigureInv' /\ ControllerInv' /\ EventInv' /\ OnceInv'
<1>0. /\ MainInv /\ IrqInv /\ ConfigureInv /\ ControllerInv /\ EventInv /\ OnceInv
      /\ ThreadType /\ RingType /\ EventType /\ PtrInv /\ HcType
  BY Zenon DEF XInv, Types
<1>. DEFINE i == Issued
            n0 == thread["irq"].dequeue
            e0 == events[n0]
            at == hc.at["command"]
<1>1. i \in Nat /\ at \in Nat /\ i <= 4
  BY <1>0, RingAssumption DEF RingType, Ring, Issued, HcType, ControllerInv
<1>2. /\ Issued' = i + 1 /\ thread'[t].ptr = i /\ hc' = hc /\ events' = events
      /\ thread[t].ptr = NoPtr
      /\ \A q \in {"command", "control"} : ring'[q].trb = ring[q].trb
  BY DEF Takes, Issued, Ring
<1>3. /\ thread'["main"].plan = thread["main"].plan /\ thread'["irq"].plan = thread["irq"].plan
      /\ thread'["configure"].plan = thread["configure"].plan
      /\ thread'["irq"].dequeue = n0
      /\ \A u \in Thread \ {t} : thread'[u] = thread[u]
  BY DEF Takes, Thread
<1>4. thread[t].plan # <<>>
  BY Zenon DEF Takes
<1>5. \/ t = "main" /\ i = 0
      \/ t = "irq" /\ i = 1 /\ e0.type = "PortStatusChange"
      \/ t = "irq" /\ i = 2 /\ e0.type = "CommandCompletion" /\ e0.at = 1
      \/ t = "configure" /\ i = 3 /\ Done = 13 + Prefill
  <2>1. \A j \in 0..3 : Claims(t, j) => i = j
    BY <1>2 DEF Claims, NoPtr
  <2>2. \/ t = "main" /\ Claims(t, 0)
        \/ t = "irq" /\ Claims(t, 1) /\ e0.type = "PortStatusChange"
        \/ t = "irq" /\ Claims(t, 2) /\ e0.type = "CommandCompletion" /\ e0.at = 1
        \/ t = "configure" /\ Claims(t, 3) /\ Done = 13 + Prefill
    <3>1. thread[t].plan # <<>> /\ Stmt(t).op = "enqueue" /\ Stmt(t).ring = "command"
      BY Zenon DEF Takes
    <3>. QED
      BY <3>1, Holder, Zenon DEF Held
  <2>. HIDE DEF i, e0
  <2>. QED
    BY <2>1, <2>2
<1>6. t = "irq" => n0 \in 1..Len(events) /\ ~(n0 > n0)
  <2>1. t = "irq" => n0 \in 1..Len(events)
    BY <1>0, <1>4, NextStatements, Zenon DEF IrqNext
  <2>2. n0 \in Nat
    BY <1>0 DEF ThreadType, Threads, Thread
  <2>. QED
    BY <2>1, <2>2
<1>7. /\ e0.type = "PortStatusChange" /\ t = "irq" => thread["main"].plan = <<>> /\ ~hc.reset
      /\ e0.type = "CommandCompletion" /\ t = "irq" => e0.at < at
  BY <1>0, <1>6, Zenon DEF OnceInv, EventInv
<1>8. t = "configure" => at > 2
  <2>1. at <= 2 => thread["configure"].plan = <<>>
    BY <1>0, Zenon DEF ControllerInv
  <2>2. at <= 2 \/ at > 2
    BY <1>1
  <2>. QED
    BY <1>4, <2>1, <2>2, Zenon
<1>9. OnceInv'
  BY <1>0, <1>2, <1>3, SameOnce, Zenon
<1>10. MainInv'
  <2>1. CASE t = "main"
    <3>1. Len(thread["main"].plan) = 3
      <4>. DEFINE m == Len(thread["main"].plan)
      <4>1. /\ m \in 1..3 /\ (m = 2 => Stmt("main").op = "doorbell")
            /\ m = 1 => Stmt("main").op = "reset"
        BY <1>0, <1>4, <2>1, NextStatements, Zenon DEF MainNext
      <4>2. Stmt("main").op = "enqueue"
        BY <2>1, Zenon DEF Takes
      <4>. HIDE DEF m
      <4>3. m = 3
        BY <4>1, <4>2
      <4>. QED
        BY <4>3, Zenon DEF m
    <3>2. 3 \notin {1, 2} /\ 0 + 1 = 1
      OBVIOUS
    <3>3. thread'["main"].ptr = 0 /\ Issued' = 0 + 1
      BY <1>2, <1>5, <2>1
    <3>. QED
      BY <1>0, <1>3, <3>1, <3>2, <3>3, Zenon DEF MainInv, Claims
  <2>2. CASE t # "main"
    <3>. DEFINE m == Len(thread["main"].plan)
    <3>1. thread["main"].plan = <<>> => m = 0
      BY SeqEmpty
    <3>2. i > 1 => m # 3 /\ m \notin {1, 2}
      BY <1>0, <1>1 DEF MainInv, Claims
    <3>3. thread["main"].plan = <<>> \/ i > 1
      <4>. HIDE DEF i, e0
      <4>. QED
        BY <1>5, <1>7, <2>2
    <3>4. m # 3 /\ m \notin {1, 2}
      <4>. HIDE DEF m, i
      <4>. QED
        BY <3>1, <3>2, <3>3
    <3>. QED
      BY <1>0, <1>3, <3>4, Zenon DEF MainInv
  <2>. QED
    BY <2>1, <2>2
<1>11. IrqInv'
  <2>1. CASE t = "irq" /\ i = 1 /\ e0.type = "PortStatusChange"
    <3>1. thread'["irq"].ptr = 1 /\ Issued' = 1 + 1 /\ e0.type # "CommandCompletion"
      BY <1>2, <2>1
    <3>. QED
      BY <1>0, <1>2, <1>3, <3>1, Zenon DEF IrqInv, Claims
  <2>2. CASE t = "irq" /\ i = 2 /\ e0.type = "CommandCompletion" /\ e0.at = 1
    <3>1. thread'["irq"].ptr = 2 /\ Issued' = 2 + 1 /\ e0.type # "PortStatusChange" /\ e0.at # 2
      BY <1>2, <2>2
    <3>. QED
      BY <1>0, <1>2, <1>3, <3>1, Zenon DEF IrqInv, Claims
  <2>3. CASE t # "irq"
    <3>. DEFINE p == thread["irq"].plan
    <3>0. thread'["irq"] = thread["irq"]
      BY <1>3, <2>3, Zenon DEF Thread
    <3>1. p # <<>> => /\ ~(Len(p) = 2 /\ e0.type = "PortStatusChange")
                      /\ ~(Len(p) = 2 /\ e0.type = "CommandCompletion")
                      /\ ~(e0.type = "CommandCompletion" /\ e0.at = 2)
      <4>. SUFFICES ASSUME p # <<>>
                    PROVE  /\ ~(Len(p) = 2 /\ e0.type = "PortStatusChange")
                           /\ ~(Len(p) = 2 /\ e0.type = "CommandCompletion")
                           /\ ~(e0.type = "CommandCompletion" /\ e0.at = 2)
        BY Zenon
      <4>1. /\ Len(p) = 2 /\ e0.type = "PortStatusChange" => Claims("irq", 1)
            /\ Len(p) = 2 /\ e0.type = "CommandCompletion" => Claims("irq", 2)
            /\ e0.type = "CommandCompletion" /\ e0.at = 2 =>
                 i = 3 /\ thread["configure"].plan = <<>>
        BY <1>0, Zenon DEF IrqInv
      <4>2. (t = "main" /\ i = 0) \/ (t = "configure" /\ i = 3)
        <5>. HIDE DEF i, e0
        <5>. QED
          BY <1>5, <2>3
      <4>3. Claims("irq", 1) => i \in {1, 2}
        BY DEF Claims
      <4>4. Claims("irq", 2) => i = 2 \/ (i = 3 /\ thread["irq"].ptr = 2)
        BY DEF Claims
      <4>5. ~(Len(p) = 2 /\ e0.type = "CommandCompletion" /\ thread["irq"].ptr = 2 /\ t = "configure")
        <5>. SUFFICES ASSUME Len(p) = 2, e0.type = "CommandCompletion", thread["irq"].ptr = 2,
                             t = "configure"
                      PROVE  FALSE
          BY Zenon
        <5>1. thread["irq"].ptr # NoPtr
          BY DEF NoPtr
        <5>2. Stmt("irq").op = "enqueue" /\ CommandTrb(2) = Blank
          <6>1. /\ e0.at \in {1, 2, 3} /\ (e0.at = 1 => Stmt("irq").ring = "command")
                /\ e0.at = 2 => Len(p) = 1
                /\ e0.at = 3 => Len(p) = 1
            BY <1>0, NextStatements, Zenon DEF IrqNext
          <6>2. Stmt("irq").ring = "command"
            <7>. HIDE DEF e0, p
            <7>. QED
              BY <6>1
          <6>. QED
            BY <1>0, <5>1, <6>2, Zenon DEF PtrInv, Thread
        <5>3. at <= RingSlots
          BY <1>0, Zenon DEF ControllerInv
        <5>4. 2 \in Index /\ 2 < at
          BY <1>1, <1>8, <5>3, RingAssumption DEF Index
        <5>. QED
          BY <1>0, <5>2, <5>4, Zenon DEF ControllerInv
      <4>. HIDE DEF i, e0, p
      <4>6. t = "configure" => thread["configure"].plan # <<>>
        BY <1>4
      <4>. QED
        BY <4>1, <4>2, <4>3, <4>4, <4>5, <4>6
    <3>. QED
      BY <1>0, <1>2, <3>0, <3>1, Zenon DEF IrqInv
  <2>. QED
    BY <1>5, <2>1, <2>2, <2>3, Zenon
<1>12. ConfigureInv'
  <2>0. Done' = Done
    BY <1>3, Zenon DEF Done, Total
  <2>1. CASE t = "configure" /\ i = 3 /\ Done = 13 + Prefill
    <3>1. Prefill \in Nat
      BY RingAssumption
    <3>2. /\ thread'["configure"].ptr = 3 /\ Issued' = 3 + 1
          /\ ~(Done < 13 + Prefill) /\ ~(Done > 13 + Prefill)
      BY <1>2, <2>1, <3>1
    <3>. QED
      BY <1>0, <1>3, <2>0, <3>2, Zenon DEF ConfigureInv, Claims
  <2>2. CASE t # "configure"
    <3>1. thread["configure"].plan # <<>> => i \in {3, 4}
      <4>1. Prefill \in Nat /\ Done \in Int
        <5>1. Len(thread["configure"].plan) \in Nat
          BY <1>0 DEF ThreadType, Threads, Thread
        <5>. QED
          BY <5>1, RingAssumption DEF Done, Total
      <4>2. Done < 13 + Prefill \/ Done = 13 + Prefill \/ Done > 13 + Prefill
        BY <4>1
      <4>3. Claims("configure", 3) => i \in {3, 4}
        BY DEF Claims
      <4>4. thread["configure"].plan # <<>> => i = 3 \/ i = 4 \/ Claims("configure", 3)
        BY <1>0, <4>2, Zenon DEF ConfigureInv
      <4>. QED
        BY <4>3, <4>4
    <3>2. i \in {0, 1, 2}
      <4>. HIDE DEF i, e0
      <4>. QED
        BY <1>5, <2>2
    <3>3. thread["configure"].plan = <<>>
      <4>. HIDE DEF i
      <4>. QED
        BY <3>1, <3>2
    <3>. QED
      BY <1>3, <3>3, Zenon DEF ConfigureInv
  <2>. QED
    BY <1>5, <2>1, <2>2, Zenon
<1>13. EventInv'
  <2>. SUFFICES ASSUME NEW n \in 1..Len(events)
                PROVE  LET e == events[n]
                           new == n > n0
                       IN /\ e.type = "PortStatusChange" /\ new => Issued' = 1
                          /\ e.type = "CommandCompletion" =>
                               /\ e.at < hc.at["command"]
                               /\ new /\ e.at = 1 => Issued' = 2
                               /\ new /\ e.at = 2 => Issued' = 3 /\ thread["configure"].plan = <<>>
                          /\ e.type = "Transfer" => e.endpoint \in {1, 3}
                          /\ e.type = "Transfer" /\ e.endpoint = 1 => e.at < hc.at["control"]
                          /\ e.type = "Transfer" /\ e.endpoint = 3 => hc.enabled
    BY <1>2, <1>3, Zenon DEF EventInv
  <2>. DEFINE e == events[n]
              new == n > n0
  <2>1. /\ e.type = "PortStatusChange" /\ new => i = 1
        /\ e.type = "CommandCompletion" =>
             /\ e.at < hc.at["command"]
             /\ new /\ e.at = 1 => i = 2
             /\ new /\ e.at = 2 => i = 3 /\ thread["configure"].plan = <<>>
        /\ e.type = "Transfer" => e.endpoint \in {1, 3}
        /\ e.type = "Transfer" /\ e.endpoint = 1 => e.at < hc.at["control"]
        /\ e.type = "Transfer" /\ e.endpoint = 3 => hc.enabled
    BY <1>0, Zenon DEF EventInv
  <2>2. t = "irq" /\ new => n # n0
    BY <1>6, Zenon
  <2>3. t = "irq" /\ e.type = e0.type /\ e0.type \notin {"Transfer", "Failed"} /\ e.at = e0.at => n = n0
    BY <1>0, <1>6, Zenon DEF OnceInv
  <2>4. t = "irq" /\ e.type = "PortStatusChange" => e.at = 0
    BY <1>0, Zenon DEF OnceInv
  <2>5. t = "irq" /\ e0.type = "PortStatusChange" => e0.at = 0
    BY <1>0, <1>6, Zenon DEF OnceInv
  <2>6. t = "configure" => thread["configure"].plan # <<>>
    BY <1>4
  <2>. HIDE DEF e, e0, i, new, n0
  <2>7. /\ ~(e.type = "PortStatusChange" /\ new)
        /\ ~(e.type = "CommandCompletion" /\ new /\ e.at = 1)
        /\ ~(e.type = "CommandCompletion" /\ new /\ e.at = 2)
    BY <1>5, <2>1, <2>2, <2>3, <2>4, <2>5, <2>6
  <2>. QED
    BY <2>1, <2>7, Zenon DEF e, new
<1>14. ControllerInv'
  <2>1. /\ \A j \in Index : CommandTrb(j) # Blank => j < i /\ CommandTrb(j).type = CommandLog[j + 1]
        /\ at <= 1 => i <= 2
        /\ hc.reset => i = 1
    BY <1>0, Zenon DEF ControllerInv
  <2>2. i + 1 <= 4
    <3>. HIDE DEF i, e0
    <3>. QED
      BY <1>5
  <2>3. \A j \in Index : CommandTrb(j) # Blank => j < i + 1 /\ CommandTrb(j).type = CommandLog[j + 1]
    <3>. HIDE DEF i
    <3>1. \A j \in Index : j < i => j < i + 1
      BY <1>1, RingAssumption DEF Index
    <3>. QED
      BY <2>1, <3>1, Zenon
  <2>4. (at <= 1 => i + 1 <= 2) /\ (at <= 2 => i + 1 <= 3)
    <3>. HIDE DEF i, e0, at
    <3>. QED
      BY <1>1, <1>5, <1>7, <1>8
  <2>5. ~hc.reset
    <3>. HIDE DEF i, e0
    <3>. QED
      BY <1>5, <1>7, <2>1
  <2>6. \A j : CommandTrb(j)' = CommandTrb(j) /\ ControlTrb(j)' = ControlTrb(j)
    BY <1>2 DEF CommandTrb, ControlTrb
  <2>. HIDE DEF i
  <2>. QED
    BY <1>0, <1>2, <1>3, <2>2, <2>3, <2>4, <2>5, <2>6, Zenon
    DEF ControllerInv, Index, CommandLog, Blank
<1>. QED
  BY <1>9, <1>10, <1>11, <1>12, <1>13, <1>14, Zenon

(* Taking an index. *)
LEMMA TakeStep ==
  ASSUME XInv, NEW t \in Thread, TakeIndex(t)
  PROVE  XInv'
<1>1. ThreadType' /\ RingType' /\ Takes(t)
  BY Taken, Zenon
<1>2. PtrInv'
  BY <1>1, TakePtr, Zenon
<1>3. MainInv' /\ IrqInv' /\ ConfigureInv' /\ ControllerInv' /\ EventInv' /\ OnceInv'
  <2>1. CASE Stmt(t).ring = "command"
    BY <1>1, <2>1, TakeCommand, Zenon
  <2>2. CASE Stmt(t).ring # "command"
    BY <1>1, <2>2, TakeOther, Zenon
  <2>. QED
    BY <2>1, <2>2
<1>4. hc' = hc /\ events' = events /\ device' = device
  BY <1>1, Zenon DEF Takes
<1>5. EventType' /\ HcType' /\ DeviceType'
  BY <1>4, Zenon DEF XInv, Types, EventType, HcType, DeviceType, DeviceFields
<1>. QED
  BY <1>1, <1>2, <1>3, <1>5, Zenon DEF XInv, Types
-----------------------------------------------------------------------------
(* The other steps of the driver. *)

(* What SpawnConfigure does to the threads.  It is called once, because    *)
(* the address of the device is only given once.                           *)
Spawns ==
  LET n == thread["irq"].dequeue IN
  /\ Issued = 3 /\ thread["configure"].plan = <<>> /\ thread["configure"].ptr = NoPtr
  /\ n \in 1..Len(events) /\ events[n].type = "CommandCompletion" /\ events[n].at = 2
  /\ thread'["main"] = thread["main"]
  /\ thread'["irq"].plan = <<>> /\ thread'["irq"].ptr = NoPtr /\ thread'["irq"].dequeue = n
  /\ thread'["configure"].plan = ConfigureDevice /\ thread'["configure"].ptr = NoPtr
  /\ ring' = ring /\ hc' = hc /\ events' = events /\ device' = device /\ crashed' = crashed
  /\ ConfigureDevice \in Seq(Stmts) /\ Len(ConfigureDevice) = Total /\ ConfigureDevice # <<>>

(* HandleCommandCompletion starts the thread that configures the device.   *)
LEMMA Spawned ==
  ASSUME XInv, NEW t \in Thread, SpawnConfigure(t)
  PROVE  ThreadType' /\ Spawns
<1>0. /\ MainInv /\ IrqInv /\ ConfigureInv /\ ControllerInv /\ EventInv /\ OnceInv
      /\ ThreadType /\ RingType /\ EventType /\ PtrInv /\ HcType /\ DeviceType
  BY Zenon DEF XInv, Types
<1>1. /\ thread[t].plan # <<>> /\ Stmt(t).op = "spawn" /\ ring' = ring /\ hc' = hc /\ events' = events
      /\ device' = device /\ crashed' = crashed
      /\ thread' = [Advance(t) EXCEPT !["configure"].plan = ConfigureDevice]
  BY Zenon DEF SpawnConfigure, At, Stmt, usb
<1>2. t = "irq"
  <2>1. t = "main" => Stmt(t).op \in {"enqueue", "doorbell", "reset"}
    BY <1>0, <1>1, MainOps, Zenon
  <2>2. t = "configure" => Stmt(t).op \in {"enqueue", "doorbell", "insert_last", "await", "enable",
                                           "await_configured"}
    BY <1>0, <1>1, ConfigureOps, Zenon
  <2>. QED
    BY <1>1, <2>1, <2>2 DEF Thread
<1>. DEFINE n0 == thread["irq"].dequeue
            e0 == events[n0]
<1>3. e0.type = "CommandCompletion" /\ e0.at = 2 /\ Len(thread["irq"].plan) = 1
  BY <1>0, <1>1, <1>2, IrqOps, Zenon
<1>4. n0 \in 1..Len(events) /\ Tail(thread["irq"].plan) = <<>> /\ Tail(thread["irq"].plan) \in Seq(Stmts)
  BY <1>0, <1>1, <1>2, <1>3, NextStatements, Zenon DEF IrqNext
<1>5. Issued = 3 /\ thread["configure"].plan = <<>>
  BY <1>0, <1>1, <1>2, <1>3, Zenon DEF IrqInv
<1>6. thread["configure"].ptr = NoPtr /\ thread["irq"].ptr = NoPtr
  <2>1. Stmt("irq").op # "enqueue"
    BY <1>1, <1>2
  <2>. QED
    BY <1>0, <1>5, <2>1, Zenon DEF PtrInv, Thread
<1>7. ConfigureDevice \in Seq(Stmts) /\ Len(ConfigureDevice) = Total /\ ConfigureDevice # <<>>
  <2>1. ConfigureDevice \in Seq(Stmts) /\ Len(ConfigureDevice) = Total
    BY NextStatements, Zenon DEF StartPlans
  <2>2. Total # 0
    BY RingAssumption DEF Total
  <2>. QED
    BY <2>1, <2>2, SeqEmpty
<1>8. /\ ThreadType' /\ thread'["main"] = thread["main"]
      /\ thread'["irq"].plan = <<>> /\ thread'["irq"].ptr = NoPtr /\ thread'["irq"].dequeue = n0
      /\ thread'["configure"].plan = ConfigureDevice /\ thread'["configure"].ptr = NoPtr
  <2>. DEFINE g == Advance(t)
  <2>1. "irq" \in Thread /\ "configure" \in Thread \ {"irq"} /\ "irq" \in Thread \ {"configure"}
        /\ "main" \in Thread \ {"irq"} /\ "main" \in Thread \ {"configure"}
    BY DEF Thread
  <2>2. NewPlan(thread, g, "irq", Tail(thread["irq"].plan))
    BY <1>0, <1>2, <1>4, <2>1, PlanReplaced, Zenon DEF ThreadType, Advance
  <2>. HIDE DEF g
  <2>3. NewPlan(g, thread', "configure", ConfigureDevice)
    <3>1. thread' = [g EXCEPT !["configure"].plan = ConfigureDevice]
      BY <1>1, Zenon DEF g
    <3>2. g \in [Thread -> Threads] /\ "configure" \in Thread
      BY <2>1, <2>2, Zenon DEF NewPlan
    <3>. QED
      BY <1>7, <3>1, <3>2, PlanReplaced, Zenon
  <2>4. /\ g["irq"].plan = <<>> /\ g["irq"].ptr = NoPtr /\ g["irq"].dequeue = n0
        /\ g["configure"] = thread["configure"] /\ g["main"] = thread["main"]
    BY <1>4, <1>6, <2>1, <2>2, Zenon DEF NewPlan
  <2>5. /\ thread' \in [Thread -> Threads]
        /\ thread'["configure"].plan = ConfigureDevice
        /\ thread'["configure"].ptr = g["configure"].ptr
        /\ thread'["irq"] = g["irq"] /\ thread'["main"] = g["main"]
    BY <2>1, <2>3, Zenon DEF NewPlan
  <2>. QED
    BY <1>6, <2>4, <2>5, Zenon DEF ThreadType
<1>. QED
  BY <1>1, <1>3, <1>4, <1>5, <1>6, <1>7, <1>8, Zenon DEF Spawns

(* The thread that configures the device is started. *)
LEMMA SpawnStep ==
  ASSUME XInv, NEW t \in Thread, SpawnConfigure(t)
  PROVE  XInv'
<1>0. /\ MainInv /\ IrqInv /\ ConfigureInv /\ ControllerInv /\ EventInv /\ OnceInv
      /\ ThreadType /\ RingType /\ EventType /\ PtrInv /\ HcType /\ DeviceType
  BY Zenon DEF XInv, Types
<1>. DEFINE n0 == thread["irq"].dequeue
            e0 == events[n0]
<1>1. ThreadType' /\ Spawns
  BY Spawned, Zenon
<1>2. ring' = ring /\ hc' = hc /\ events' = events /\ device' = device /\ crashed' = crashed
  BY <1>1, Zenon DEF Spawns
<1>3. /\ Issued = 3 /\ thread["configure"].plan = <<>>
      /\ n0 \in 1..Len(events) /\ e0.type = "CommandCompletion" /\ e0.at = 2
      /\ ConfigureDevice \in Seq(Stmts) /\ Len(ConfigureDevice) = Total /\ ConfigureDevice # <<>>
  BY <1>1, Zenon DEF Spawns
<1>8. /\ ThreadType' /\ thread'["main"] = thread["main"]
      /\ thread'["irq"].plan = <<>> /\ thread'["irq"].ptr = NoPtr /\ thread'["irq"].dequeue = n0
      /\ thread'["configure"].plan = ConfigureDevice /\ thread'["configure"].ptr = NoPtr
  BY <1>1, Zenon DEF Spawns
<1>9. Issued' = Issued
  BY <1>2, Zenon DEF Issued
<1>10. RingType' /\ EventType' /\ HcType' /\ DeviceType'
  BY <1>0, <1>2, Zenon DEF RingType, EventType, HcType, DeviceType, DeviceFields, Index, Trbs
<1>11. PtrInv'
  <2>. SUFFICES ASSUME NEW u \in Thread, thread'[u].ptr # NoPtr
                PROVE  /\ thread'[u].plan # <<>> /\ Stmt(u)'.op = "enqueue"
                       /\ thread'[u].ptr < ring[Stmt(u)'.ring].enqueue
                       /\ Stmt(u)'.ring = "command" => CommandTrb(thread'[u].ptr) = Blank
    BY <1>2, Zenon DEF PtrInv, CommandTrb, Blank
  <2>1. u = "main"
    BY <1>8 DEF Thread
  <2>. QED
    BY <1>0, <1>8, <2>1, Zenon DEF PtrInv, Stmt
<1>12. MainInv'
  BY <1>0, <1>8, <1>9, Zenon DEF MainInv, Claims
<1>13. IrqInv'
  <2>1. n0 <= Len(events)
    BY <1>0, Zenon DEF IrqInv
  <2>. QED
    BY <1>2, <1>8, <2>1, Zenon DEF IrqInv
<1>14. ConfigureInv'
  <2>1. Done' = Total - Total
    BY <1>3, <1>8, Zenon DEF Done, Total
  <2>2. Done' = 0 /\ ~(0 = 13 + Prefill) /\ ~(0 > 13 + Prefill)
    BY <2>1, RingAssumption DEF Total
  <2>3. Suffix(ConfigureDevice, ConfigureDevice)
    BY <1>3, SuffixSelf, Zenon
  <2>. QED
    BY <1>3, <1>8, <1>9, <2>2, <2>3, Zenon DEF ConfigureInv
<1>15. 2 < hc.at["command"] /\ ~(hc.at["command"] <= 2) /\ ~(n0 > n0)
  <2>1. 2 < hc.at["command"]
    BY <1>0, <1>3, Zenon DEF EventInv
  <2>2. hc.at["command"] \in Nat /\ n0 \in Nat
    BY <1>0 DEF HcType, Ring, ThreadType, Threads, Thread
  <2>. QED
    BY <2>1, <2>2
<1>16. ControllerInv'
  BY <1>0, <1>2, <1>15, Zenon DEF ControllerInv, Issued, CommandTrb, ControlTrb, Index, CommandLog, Blank
<1>17. EventInv'
  <2>1. \A n \in 1..Len(events) :
          ~(events[n].type = "CommandCompletion" /\ events[n].at = 2 /\ n > n0)
    BY <1>0, <1>3, <1>15, Zenon DEF OnceInv
  <2>. QED
    BY <1>0, <1>2, <1>8, <1>9, <2>1, Zenon DEF EventInv
<1>18. OnceInv'
  BY <1>0, <1>2, <1>8, SameOnce, Zenon
<1>. QED
  BY <1>8, <1>10, <1>11, <1>12, <1>13, <1>14, <1>16, <1>17, <1>18, Zenon DEF XInv, Types

(* Steps that leave all plans alone. *)
LEMMA KeepStep ==
  ASSUME XInv, \A u \in Thread : Keeps(u), ThreadType', ring' = ring, crashed' = crashed, Grows
  PROVE  RingType' /\ PtrInv' /\ MainInv' /\ IrqInv' /\ ConfigureInv'
<1>0. MainInv /\ IrqInv /\ ConfigureInv /\ RingType /\ PtrInv /\ ThreadType /\ EventType
  BY Zenon DEF XInv, Types
<1>1. Keeps("main") /\ Keeps("irq") /\ Keeps("configure")
  BY DEF Thread
<1>2. Issued' = Issued
  BY Zenon DEF Issued
<1>3. RingType'
  BY <1>0, Zenon DEF RingType, Index, Trbs
<1>4. PtrInv'
  BY <1>0, Zenon DEF PtrInv, CommandTrb, Blank, Keeps, Stmt
<1>5. MainInv'
  BY <1>0, <1>1, <1>2, Zenon DEF MainInv, Keeps, Claims
<1>6. ConfigureInv'
  <2>1. Done' = Done
    BY <1>1, Zenon DEF Done, Total, Keeps
  <2>. QED
    BY <1>0, <1>1, <1>2, <2>1, Zenon DEF ConfigureInv, Keeps, Claims
<1>7. IrqInv'
  <2>. DEFINE n == thread["irq"].dequeue
  <2>1. n \in Nat /\ Len(events) \in Nat /\ Len(events') \in Int
    <3>1. Len(events') >= Len(events) /\ Len(events) \in Nat
      BY <1>0 DEF EventType, Grows
    <3>. QED
      BY <1>0, <3>1 DEF ThreadType, Threads, Thread
  <2>2. n <= Len(events) /\ Len(events') >= Len(events)
    BY <1>0, Zenon DEF IrqInv, Grows
  <2>3. n <= Len(events') /\ (n > 0 => n \in 1..Len(events))
    <3>. HIDE DEF n
    <3>. QED
      BY <2>1, <2>2
  <2>4. n > 0 => events'[n] = events[n]
    BY <2>3, Zenon DEF Grows
  <2>. QED
    BY <1>0, <1>1, <1>2, <2>3, <2>4, Zenon DEF IrqInv, Keeps, Claims
<1>. QED
  BY <1>3, <1>4, <1>5, <1>6, <1>7, Zenon
(* The interrupt loop goes from one place to the next. *)
LEMMA LoopStep ==
  ASSUME XInv, NEW pc \in {"poll", "drain", "clear"}, thread' = IrqGoto(pc), ring' = ring,
         events' = events, device' = device, crashed' = crashed,
         hc' = hc \/ hc' = [hc EXCEPT !.pending = FALSE]
  PROVE  XInv'
<1>0. /\ ControllerInv /\ EventInv /\ OnceInv /\ ThreadType /\ EventType /\ HcType /\ DeviceType
  BY Zenon DEF XInv, Types
<1>1. ThreadType' /\ \A u \in Thread : Keeps(u)
  <2>. DEFINE Q == Seq(Stmts)
              T == Thread
              L == {"poll", "drain", "clear"}
  <2>1. Threads = [plan : Q, ptr : Nat \cup {NoPtr}, last : Nat \cup {NoPtr}, loop : L, dequeue : Nat]
    BY DEF Threads
  <2>2. thread \in [T -> Threads] /\ "irq" \in T /\ pc \in L
    BY <1>0 DEF ThreadType, Thread
  <2>3. thread' = [thread EXCEPT !["irq"].loop = pc]
    BY DEF IrqGoto
  <2>. HIDE DEF Q, T, L
  <2>4. /\ thread' \in [T -> Threads]
        /\ \A u \in T : /\ thread'[u].plan = thread[u].plan /\ thread'[u].ptr = thread[u].ptr
                        /\ thread'[u].dequeue = thread[u].dequeue
    BY <2>1, <2>2, <2>3
  <2>. QED
    BY <2>4, Zenon DEF ThreadType, Keeps, T
<1>2. Grows
  BY <1>0 DEF Grows, EventType
<1>3. RingType' /\ PtrInv' /\ MainInv' /\ IrqInv' /\ ConfigureInv'
  BY <1>1, <1>2, KeepStep, Zenon
<1>4. HcType' /\ hc'.at = hc.at /\ hc'.enabled = hc.enabled /\ hc'.reset = hc.reset
  BY <1>0, Zenon DEF HcType
<1>5. /\ thread'["configure"].plan = thread["configure"].plan
      /\ thread'["main"].plan = thread["main"].plan
      /\ thread'["irq"].dequeue = thread["irq"].dequeue /\ Issued' = Issued
  BY <1>1 DEF Keeps, Thread, Issued
<1>6. hc'.reset => Issued = 1
  BY <1>0, <1>4, Zenon DEF ControllerInv
<1>7. ControllerInv' /\ EventInv' /\ OnceInv'
  BY <1>0, <1>4, <1>5, <1>6, SameController, SameEvents, SameOnce, Zenon
<1>8. EventType' /\ DeviceType'
  BY <1>0, Zenon DEF EventType, DeviceType, DeviceFields
<1>. QED
  BY <1>1, <1>3, <1>4, <1>7, <1>8, Zenon DEF XInv, Types

(* Reading an event. *)
LEMMA ReadStep ==
  ASSUME XInv, ReadEvent, thread["irq"].dequeue < Len(events)
  PROVE  XInv'
<1>0. /\ MainInv /\ IrqInv /\ ConfigureInv /\ ControllerInv /\ EventInv /\ OnceInv
      /\ ThreadType /\ RingType /\ EventType /\ PtrInv /\ HcType /\ DeviceType
  BY Zenon DEF XInv, Types
<1>. DEFINE n == thread["irq"].dequeue
            e == events[n + 1]
            v == EventPlan(e)
<1>1. /\ thread["irq"].plan = <<>> /\ ring' = ring /\ hc' = hc /\ events' = events
      /\ device' = device /\ ~crashed
      /\ thread' = [thread EXCEPT !["irq"].plan = v, !["irq"].dequeue = n + 1]
  BY Zenon DEF ReadEvent, IrqAt
<1>2. n \in Nat /\ Len(events) \in Nat
  BY <1>0 DEF ThreadType, Threads, Thread, EventType
<1>3. /\ n + 1 \in 1..Len(events) /\ n + 1 \in Nat /\ n + 1 > 0 /\ n + 1 > n /\ n + 1 <= Len(events)
      /\ \A m \in 1..Len(events) : m > n + 1 => m > n
  <2>. HIDE DEF n
  <2>1. n < Len(events)
    BY DEF n
  <2>. QED
    BY <1>2, <2>1
<1>4. /\ v = Handling(e) \/ v = <<>>
      /\ v \in Seq(Stmts)
      /\ e.type = "CommandCompletion" /\ Len(v) = 2 => e.at = 1
  BY <1>3, NextStatements, Zenon DEF EventNext
<1>5. thread["irq"].ptr = NoPtr
  BY <1>0, <1>1 DEF PtrInv, Thread
<1>6. /\ ThreadType' /\ thread'["main"] = thread["main"] /\ thread'["configure"] = thread["configure"]
      /\ thread'["irq"].plan = v /\ thread'["irq"].ptr = NoPtr /\ thread'["irq"].dequeue = n + 1
  <2>. DEFINE Q == Seq(Stmts)
              T == Thread
              L == {"poll", "drain", "clear"}
  <2>1. Threads = [plan : Q, ptr : Nat \cup {NoPtr}, last : Nat \cup {NoPtr}, loop : L, dequeue : Nat]
    BY DEF Threads
  <2>2. thread \in [T -> Threads] /\ "irq" \in T /\ v \in Q
    BY <1>0, <1>4 DEF ThreadType, Thread
  <2>. DEFINE k == n + 1
  <2>3. thread' = [thread EXCEPT !["irq"].plan = v, !["irq"].dequeue = k] /\ k \in Nat
    BY <1>1, <1>3, Zenon
  <2>. HIDE DEF Q, T, L, v, k
  <2>4. /\ thread' \in [T -> Threads]
        /\ thread'["irq"].plan = v /\ thread'["irq"].ptr = thread["irq"].ptr
        /\ thread'["irq"].dequeue = k
        /\ \A u \in T \ {"irq"} : thread'[u] = thread[u]
    BY <2>1, <2>2, <2>3, ZenonT(40)
  <2>5. "main" \in T \ {"irq"} /\ "configure" \in T \ {"irq"}
    BY DEF T, Thread
  <2>. QED
    BY <1>5, <2>4, <2>5, Zenon DEF ThreadType, T, k
<1>7. Issued' = Issued
  BY <1>1, Zenon DEF Issued
<1>8. RingType' /\ EventType' /\ HcType' /\ DeviceType'
  BY <1>0, <1>1, Zenon DEF RingType, EventType, HcType, DeviceType, DeviceFields, Index, Trbs
<1>9. PtrInv'
  <2>. SUFFICES ASSUME NEW u \in Thread, thread'[u].ptr # NoPtr
                PROVE  /\ thread'[u].plan # <<>> /\ Stmt(u)'.op = "enqueue"
                       /\ thread'[u].ptr < ring[Stmt(u)'.ring].enqueue
                       /\ Stmt(u)'.ring = "command" => CommandTrb(thread'[u].ptr) = Blank
    BY <1>1, Zenon DEF PtrInv, CommandTrb, Blank
  <2>1. thread'[u] = thread[u]
    BY <1>6 DEF Thread
  <2>. QED
    BY <1>0, <2>1, Zenon DEF PtrInv, Stmt
<1>10. MainInv' /\ ConfigureInv'
  <2>1. Done' = Done
    BY <1>6, Zenon DEF Done, Total
  <2>. QED
    BY <1>0, <1>6, <1>7, <2>1, Zenon DEF MainInv, ConfigureInv, Claims
<1>11. IrqInv'
  <2>1. /\ e.type = "PortStatusChange" => Issued = 1
        /\ e.type = "CommandCompletion" /\ e.at = 1 => Issued = 2
        /\ e.type = "CommandCompletion" /\ e.at = 2 =>
             Issued = 3 /\ thread["configure"].plan = <<>>
    BY <1>0, <1>3, Zenon DEF EventInv
  <2>2. v # <<>> => Suffix(v, Handling(e))
    BY <1>4, SuffixSelf, Zenon
  <2>3. /\ v # <<>> =>
             /\ n + 1 > 0 /\ Suffix(v, Handling(e))
             /\ Len(v) = 2 /\ e.type = "PortStatusChange" => Claims("irq", 1)'
             /\ Len(v) = 2 /\ e.type = "CommandCompletion" => Claims("irq", 2)'
             /\ e.type = "CommandCompletion" /\ e.at = 2 =>
                  Issued' = 3 /\ thread'["configure"].plan = <<>>
    <3>. HIDE DEF v, e
    <3>. QED
      BY <1>3, <1>4, <1>6, <1>7, <2>1, <2>2, Zenon DEF Claims
  <2>. QED
    BY <1>1, <1>3, <1>6, <2>3, Zenon DEF IrqInv
<1>12. ControllerInv' /\ OnceInv'
  <2>1. hc'.reset => Issued = 1
    BY <1>0, <1>1, Zenon DEF ControllerInv
  <2>. QED
    BY <1>0, <1>1, <1>6, <2>1, SameController, SameOnce, Zenon
<1>13. EventInv'
  BY <1>0, <1>1, <1>3, <1>6, <1>7, ZenonT(40) DEF EventInv
<1>. QED
  BY <1>6, <1>8, <1>9, <1>10, <1>11, <1>12, <1>13, Zenon DEF XInv, Types
-----------------------------------------------------------------------------
(* The controller. *)

(* It writes an event. *)
Appends(e) ==
  /\ EventType' /\ Grows
  /\ Len(events) \in Nat /\ Len(events') = Len(events) + 1
  /\ events'[Len(events) + 1] = e

(* The controller writes one event after the others.                       *)
LEMMA Appended ==
  ASSUME EventType, NEW type \in EventKinds,
         NEW endpoint \in {0, 1, 3}, NEW at \in Nat,
         events' = Append(events, Event(type, endpoint, at))
  PROVE  Appends(Event(type, endpoint, at))
<1>. DEFINE e == Event(type, endpoint, at)
            E == [type : EventKinds,
                  endpoint : {0, 1, 3}, at : Nat]
<1>1. e \in E
  BY DEF Event
<1>2. events \in Seq(E) /\ events' = Append(events, e)
  BY DEF EventType
<1>. HIDE DEF e, E
<1>3. /\ events' \in Seq(E) /\ Len(events) \in Nat /\ Len(events') = Len(events) + 1
      /\ events'[Len(events) + 1] = e
      /\ \A n \in 1..Len(events) : events'[n] = events[n]
  BY <1>1, <1>2, SMT
<1>4. Len(events') >= Len(events)
  BY <1>3
<1>. QED
  BY <1>3, <1>4, Zenon DEF Appends, EventType, Grows, e, E

(* A place in the events is an old one or the new one. *)
LEMMA OldOrNew ==
  ASSUME NEW e, Appends(e), NEW n \in 1..Len(events')
  PROVE  \/ n \in 1..Len(events) /\ events'[n] = events[n]
         \/ n = Len(events) + 1 /\ events'[n] = e
<1>1. n \in 1..Len(events) \/ n = Len(events) + 1
  BY DEF Appends
<1>. QED
  BY <1>1, Zenon DEF Appends, Grows

(* A step in which no thread takes part, and which writes nothing to the   *)
(* event ring.                                                             *)
LEMMA QuietStep ==
  ASSUME XInv, thread' = thread, ring' = ring, crashed' = crashed, events' = events,
         HcType', DeviceType', hc'.at = hc.at, hc'.enabled = hc.enabled, hc'.reset = hc.reset
  PROVE  XInv'
<1>0. ControllerInv /\ EventInv /\ OnceInv /\ ThreadType /\ EventType
  BY Zenon DEF XInv, Types
<1>1. ThreadType' /\ EventType' /\ (\A u \in Thread : Keeps(u)) /\ Issued' = Issued
  BY <1>0, Zenon DEF ThreadType, Threads, Stmts, TrbTypes, Ops, EventType, Keeps, Issued
<1>2. Grows
  BY <1>0 DEF Grows, EventType
<1>3. RingType' /\ PtrInv' /\ MainInv' /\ IrqInv' /\ ConfigureInv'
  BY <1>1, <1>2, KeepStep, Zenon
<1>4. hc'.reset => Issued = 1
  BY <1>0, Zenon DEF ControllerInv
<1>5. ControllerInv' /\ EventInv' /\ OnceInv'
  BY <1>0, <1>1, <1>4, SameController, SameEvents, SameOnce, Zenon
<1>. QED
  BY <1>1, <1>3, <1>5, Zenon DEF XInv, Types

(* The port's change is reported once: a port is reset once. *)
LEMMA PortStep ==
  ASSUME XInv, PortChanges
  PROVE  XInv'
<1>0. /\ ControllerInv /\ EventInv /\ OnceInv /\ ThreadType /\ EventType /\ HcType /\ DeviceType
      /\ IrqInv
  BY Zenon DEF XInv, Types
<1>. DEFINE e == Event("PortStatusChange", 0, 0)
            L == Len(events)
            n0 == thread["irq"].dequeue
<1>1. /\ hc.reset /\ thread' = thread /\ ring' = ring /\ crashed' = crashed /\ device' = device
      /\ events' = Append(events, e)
      /\ hc' = [[hc EXCEPT !.reset = FALSE] EXCEPT !.pending = TRUE]
  BY Zenon DEF PortChanges, Post, Unserved
<1>2. Appends(e)
  BY <1>0, <1>1, Appended DEF EventKinds
<1>3. HcType' /\ hc'.at = hc.at /\ hc'.enabled = hc.enabled /\ hc'.reset = FALSE
  BY <1>0, <1>1, Zenon DEF HcType
<1>4. ThreadType' /\ DeviceType' /\ (\A u \in Thread : Keeps(u)) /\ Issued' = Issued
  BY <1>0, <1>1, Zenon DEF ThreadType, Threads, Stmts, TrbTypes, Ops, DeviceType, DeviceFields, Keeps, Issued
<1>5. RingType' /\ PtrInv' /\ MainInv' /\ IrqInv' /\ ConfigureInv'
  BY <1>1, <1>2, <1>4, KeepStep, Zenon DEF Appends
<1>6. ControllerInv'
  BY <1>0, <1>1, <1>3, SameController, Zenon
<1>7. e.type = "PortStatusChange" /\ e.at = 0 /\ e.type # "CommandCompletion" /\ e.type # "Transfer"
  BY DEF Event
<1>8. Issued = 1 /\ thread["main"].plan = <<>>
  BY <1>0, <1>1, Zenon DEF ControllerInv, OnceInv
<1>9. \A n \in 1..L : events[n].type # "PortStatusChange"
  BY <1>0, <1>1, Zenon DEF OnceInv
<1>. HIDE DEF e
<1>10. EventInv'
  <2>. SUFFICES ASSUME NEW n \in 1..Len(events')
                PROVE  LET f == events'[n]
                           new == n > n0
                       IN /\ f.type = "PortStatusChange" /\ new => Issued = 1
                          /\ f.type = "CommandCompletion" =>
                               /\ f.at < hc.at["command"]
                               /\ new /\ f.at = 1 => Issued = 2
                               /\ new /\ f.at = 2 => Issued = 3 /\ thread["configure"].plan = <<>>
                          /\ f.type = "Transfer" => f.endpoint \in {1, 3}
                          /\ f.type = "Transfer" /\ f.endpoint = 1 => f.at < hc.at["control"]
                          /\ f.type = "Transfer" /\ f.endpoint = 3 => hc.enabled
    BY <1>1, <1>3, <1>4, Zenon DEF EventInv
  <2>1. CASE n \in 1..L /\ events'[n] = events[n]
    BY <1>0, <2>1, Zenon DEF EventInv
  <2>2. CASE events'[n] = e
    BY <1>7, <1>8, <2>2, Zenon
  <2>. QED
    BY <1>2, <2>1, <2>2, OldOrNew, Zenon
<1>11. OnceInv'
  <2>1. ASSUME NEW m \in 1..Len(events'), NEW n \in 1..Len(events'),
               events'[m].type = events'[n].type, events'[m].type \notin {"Transfer", "Failed"},
               events'[m].at = events'[n].at
        PROVE  m = n
    <3>1. \/ m \in 1..L /\ events'[m] = events[m]
          \/ m = L + 1 /\ events'[m] = e
      BY <1>2, OldOrNew, Zenon
    <3>2. \/ n \in 1..L /\ events'[n] = events[n]
          \/ n = L + 1 /\ events'[n] = e
      BY <1>2, OldOrNew, Zenon
    <3>. QED
      BY <1>0, <1>7, <1>9, <2>1, <3>1, <3>2, Zenon DEF OnceInv
  <2>2. ASSUME NEW n \in 1..Len(events'), events'[n].type = "PortStatusChange"
        PROVE  events'[n].at = 0
    BY <1>2, <1>7, <1>9, <2>2, OldOrNew, Zenon
  <2>. QED
    BY <1>1, <1>3, <1>8, <2>1, <2>2, Zenon DEF OnceInv
<1>. QED
  BY <1>2, <1>3, <1>4, <1>5, <1>6, <1>10, <1>11, Zenon DEF XInv, Types, Appends

(* The controller takes a TRB from a ring. *)
LEMMA HcRun ==
  ASSUME HcType, NEW r \in Ring, NEW b \in BOOLEAN,
         hc' = [[hc EXCEPT !.at[r] = @ + 1, !.enabled = b] EXCEPT !.pending = TRUE]
  PROVE  /\ HcType' /\ hc'.at[r] = hc.at[r] + 1 /\ hc.at[r] \in Nat
         /\ \A q \in Ring \ {r} : hc'.at[q] = hc.at[q]
         /\ hc'.enabled = b /\ hc'.reset = hc.reset
<1>. DEFINE R == Ring
            k == hc.at[r] + 1
            P == SUBSET Ring
<1>1. hc \in [pending : BOOLEAN, bell : P, reset : BOOLEAN, enabled : BOOLEAN, at : [R -> Nat]]
  BY DEF HcType
<1>2. hc.at[r] \in Nat /\ k \in Nat /\ r \in R
  BY <1>1
<1>3. hc' = [[hc EXCEPT !.at[r] = k, !.enabled = b] EXCEPT !.pending = TRUE]
  OBVIOUS
<1>. HIDE DEF R, k, P
<1>4. hc' \in [pending : BOOLEAN, bell : P, reset : BOOLEAN, enabled : BOOLEAN, at : [R -> Nat]]
  <2>. DEFINE a == [hc.at EXCEPT ![r] = k]
              B == BOOLEAN
              A == [R -> Nat]
  <2>1. hc.at \in [R -> Nat]
    BY <1>1, Zenon
  <2>2. a \in A
    BY <1>2, <2>1
  <2>3. hc' = [[hc EXCEPT !.at = a, !.enabled = b] EXCEPT !.pending = TRUE]
    BY <1>3, Zenon
  <2>4. /\ hc \in [pending : B, bell : P, reset : B, enabled : B, at : A] /\ b \in B /\ TRUE \in B
    BY <1>1
  <2>. HIDE DEF a, B, A
  <2>5. hc' \in [pending : B, bell : P, reset : B, enabled : B, at : A]
    BY <2>2, <2>3, <2>4, Zenon
  <2>. QED
    BY <2>5, Zenon DEF B, A
<1>5. /\ hc'.at[r] = k /\ (\A q \in R \ {r} : hc'.at[q] = hc.at[q])
      /\ hc'.enabled = b /\ hc'.reset = hc.reset
  BY <1>1, <1>2, <1>3, ZenonT(40)
<1>. QED
  BY <1>2, <1>4, <1>5, Zenon DEF HcType, R, k, P
(* A completion is written. *)
LEMMA CompletionStep ==
  ASSUME XInv, thread' = thread, ring' = ring, crashed' = crashed, HcType', DeviceType',
         ControllerInv', hc'.reset = hc.reset, hc.enabled => hc'.enabled,
         \A q \in Ring : hc'.at[q] \in Nat /\ hc.at[q] \in Nat /\ hc'.at[q] >= hc.at[q],
         NEW e, Appends(e), e.type # "PortStatusChange",
         e.type = "CommandCompletion" =>
           /\ e.at < hc'.at["command"]
           /\ e.at = 1 => Issued = 2
           /\ e.at = 2 => Issued = 3 /\ thread["configure"].plan = <<>>
           /\ \A n \in 1..Len(events) :
                events[n].type = "CommandCompletion" => events[n].at # e.at,
         e.type = "Transfer" =>
           /\ e.endpoint \in {1, 3}
           /\ e.endpoint = 1 => e.at < hc'.at["control"]
           /\ e.endpoint = 3 => hc'.enabled,
         e.type \in {"CommandCompletion", "Transfer", "Failed"}
  PROVE  XInv'
<1>0. EventInv /\ OnceInv /\ ThreadType /\ EventType
  BY Zenon DEF XInv, Types
<1>. DEFINE L == Len(events)
            n0 == thread["irq"].dequeue
<1>1. ThreadType' /\ (\A u \in Thread : Keeps(u)) /\ Issued' = Issued
  BY <1>0, Zenon DEF ThreadType, Threads, Stmts, TrbTypes, Ops, Keeps, Issued
<1>2. RingType' /\ PtrInv' /\ MainInv' /\ IrqInv' /\ ConfigureInv'
  BY <1>1, KeepStep, Zenon DEF Appends
<1>3. EventInv'
  <2>. SUFFICES ASSUME NEW n \in 1..Len(events')
                PROVE  LET f == events'[n]
                           new == n > n0
                       IN /\ f.type = "PortStatusChange" /\ new => Issued = 1
                          /\ f.type = "CommandCompletion" =>
                               /\ f.at < hc'.at["command"]
                               /\ new /\ f.at = 1 => Issued = 2
                               /\ new /\ f.at = 2 => Issued = 3 /\ thread["configure"].plan = <<>>
                          /\ f.type = "Transfer" => f.endpoint \in {1, 3}
                          /\ f.type = "Transfer" /\ f.endpoint = 1 => f.at < hc'.at["control"]
                          /\ f.type = "Transfer" /\ f.endpoint = 3 => hc'.enabled
    BY <1>1, Zenon DEF EventInv
  <2>1. CASE n \in 1..L /\ events'[n] = events[n]
    <3>. DEFINE f == events[n]
                E == [type : EventKinds,
                      endpoint : {0, 1, 3}, at : Nat]
    <3>1. f \in E
      BY <1>0, <2>1, SeqElement, Zenon DEF EventType
    <3>. HIDE DEF f
    <3>2. f.at \in Nat
      BY <3>1
    <3>3. /\ f.at < hc.at["command"] => f.at < hc'.at["command"]
          /\ f.at < hc.at["control"] => f.at < hc'.at["control"]
      <4>1. ASSUME NEW x \in Nat, NEW y \in Nat, NEW z \in Nat, x < y, z >= y PROVE x < z
        BY <4>1
      <4>2. "command" \in Ring /\ "control" \in Ring
        BY DEF Ring
      <4>. QED
        BY <3>2, <4>1, <4>2, Zenon
    <3>. QED
      BY <1>0, <2>1, <3>3, ZenonT(40) DEF EventInv, f
  <2>2. CASE events'[n] = e
    BY <2>2, Zenon
  <2>. QED
    BY <2>1, <2>2, OldOrNew, Zenon
<1>4. OnceInv'
  <2>1. ASSUME NEW m \in 1..Len(events'), NEW n \in 1..Len(events'),
               events'[m].type = events'[n].type, events'[m].type \notin {"Transfer", "Failed"},
               events'[m].at = events'[n].at
        PROVE  m = n
    <3>1. \/ m \in 1..L /\ events'[m] = events[m]
          \/ m = L + 1 /\ events'[m] = e
      BY OldOrNew, Zenon
    <3>2. \/ n \in 1..L /\ events'[n] = events[n]
          \/ n = L + 1 /\ events'[n] = e
      BY OldOrNew, Zenon
    <3>3. CASE events'[m] = events[m] /\ events'[n] = events[n] /\ m \in 1..L /\ n \in 1..L
      BY <1>0, <2>1, <3>3, ZenonT(40) DEF OnceInv
    <3>4. CASE events'[m] = e \/ events'[n] = e
      <4>1. e.type = "CommandCompletion"
        BY <2>1, <3>4, Zenon
      <4>2. ~(m \in 1..L /\ events'[m] = events[m]) \/ events'[n] # e
        BY <2>1, <4>1, Zenon
      <4>3. ~(n \in 1..L /\ events'[n] = events[n]) \/ events'[m] # e
        BY <2>1, <4>1, Zenon
      <4>. QED
        BY <3>1, <3>2, <3>4, <4>2, <4>3, Zenon
    <3>. QED
      BY <3>1, <3>2, <3>3, <3>4, Zenon
  <2>2. ASSUME NEW n \in 1..Len(events'), events'[n].type = "PortStatusChange"
        PROVE  events'[n].at = 0 /\ ~hc'.reset /\ thread'["main"].plan = <<>>
    <3>1. n \in 1..L /\ events'[n] = events[n]
      BY <2>2, OldOrNew, Zenon
    <3>. QED
      BY <1>0, <2>2, <3>1, Zenon DEF OnceInv
  <2>3. hc'.reset => thread'["main"].plan = <<>>
    BY <1>0, Zenon DEF OnceInv
  <2>. QED
    BY <2>1, <2>2, <2>3, Zenon DEF OnceInv
<1>5. EventType'
  BY Zenon DEF Appends
<1>. QED
  BY <1>1, <1>2, <1>3, <1>4, <1>5, Zenon DEF XInv, Types

(* What RunRing does with a TRB that is there. *)
Runs(r) ==
  LET trb == ring[r].trb[hc.at[r]] IN
  /\ Present(r) /\ thread' = thread /\ ring' = ring /\ crashed' = crashed
  /\ HcType' /\ hc'.at[r] = hc.at[r] + 1
  /\ \A q \in Ring \ {r} : hc'.at[q] = hc.at[q]
  /\ hc'.enabled = (hc.enabled \/ trb.type = "ConfigureEndpoint") /\ hc'.reset = hc.reset
  /\ device' = IF trb.type # "Data" THEN device
               ELSE [device EXCEPT !.written = @ \cup {1 + hc.at[r] \div 3}]
  /\ Appends(IF r = "command" THEN Event("CommandCompletion", 0, hc.at[r])
             ELSE Event("Transfer", 1, hc.at[r]))

(* The controller executes one block of a ring and writes one event.       *)
LEMMA Ran ==
  ASSUME XInv, NEW r \in {"command", "control"}, RunRing(r), Present(r)
  PROVE  Runs(r)
<1>0. EventType /\ HcType
  BY Zenon DEF XInv, Types
<1>. DEFINE trb == ring[r].trb[hc.at[r]]
            e == IF r = "command" THEN Event("CommandCompletion", 0, hc.at[r])
                 ELSE Event("Transfer", 1, hc.at[r])
            b == hc.enabled \/ trb.type = "ConfigureEndpoint"
<1>1. /\ thread' = thread /\ ring' = ring /\ crashed' = crashed
      /\ hc' = [[hc EXCEPT !.at[r] = @ + 1, !.enabled = b] EXCEPT !.pending = TRUE]
      /\ device' = IF trb.type # "Data" THEN device
                   ELSE [device EXCEPT !.written = @ \cup {1 + hc.at[r] \div 3}]
      /\ events' = Append(events, e)
  BY Zenon DEF RunRing, Post, Unserved
<1>2. r \in Ring /\ b \in BOOLEAN
  BY DEF Ring
<1>. HIDE DEF b
<1>3. /\ HcType' /\ hc'.at[r] = hc.at[r] + 1 /\ hc.at[r] \in Nat
      /\ \A q \in Ring \ {r} : hc'.at[q] = hc.at[q]
      /\ hc'.enabled = b /\ hc'.reset = hc.reset
  BY <1>0, <1>1, <1>2, HcRun, Zenon
<1>4. Appends(e)
  <2>1. CASE r = "command"
    <3>1. e = Event("CommandCompletion", 0, hc.at[r])
      BY <2>1
    <3>. HIDE DEF e
    <3>. QED
      BY <1>0, <1>1, <1>3, <3>1, Appended DEF EventKinds
  <2>2. CASE r # "command"
    <3>1. e = Event("Transfer", 1, hc.at[r])
      BY <2>2
    <3>. HIDE DEF e
    <3>. QED
      BY <1>0, <1>1, <1>3, <3>1, Appended DEF EventKinds
  <2>. QED
    BY <2>1, <2>2
<1>. QED
  BY <1>1, <1>3, <1>4, Zenon DEF Runs, b

(* The device after it. *)
LEMMA RunDevice ==
  ASSUME DeviceType, NEW r, Runs(r)
  PROVE  DeviceType'
<1>1. device' = device \/ device' = [device EXCEPT !.written = @ \cup {1 + hc.at[r] \div 3}]
  BY Zenon DEF Runs
<1>. QED
  BY <1>1 DEF DeviceType, DeviceFields
(* A command is executed.  The next cause follows from the ring: what the  *)
(* controller has not passed has not caused a command.                     *)
LEMMA RunCommand ==
  ASSUME XInv, Runs("command")
  PROVE  XInv'
<1>0. /\ ControllerInv /\ EventInv /\ HcType /\ DeviceType /\ RingType /\ EventType
  BY Zenon DEF XInv, Types
<1>. DEFINE a == hc.at["command"]
            i == Issued
            e == Event("CommandCompletion", 0, a)
            trb == CommandTrb(a)
            b == hc'.enabled
<1>1. /\ thread' = thread /\ ring' = ring /\ crashed' = crashed /\ HcType'
      /\ hc'.at["command"] = a + 1 /\ hc'.reset = hc.reset
      /\ b = (hc.enabled \/ trb.type = "ConfigureEndpoint")
  BY Zenon DEF Runs, CommandTrb
<1>2. hc'.at["control"] = hc.at["control"] /\ hc'.at["keyboard"] = hc.at["keyboard"]
  BY DEF Runs, Ring
<1>3. Appends(e)
  BY DEF Runs
<1>4. DeviceType'
  BY <1>0, RunDevice, Zenon
<1>5. /\ a \in Nat /\ i \in Nat /\ i <= 4 /\ a < RingSlots /\ trb # Blank
      /\ hc.at["control"] \in Nat /\ hc.at["keyboard"] \in Nat
  <2>1. a < RingSlots /\ trb # Blank /\ i <= 4
    BY <1>0, Zenon DEF Runs, Present, CommandTrb, ControllerInv
  <2>2. a \in Nat /\ hc.at["control"] \in Nat /\ hc.at["keyboard"] \in Nat
    BY <1>0 DEF HcType, Ring
  <2>3. i \in Nat
    BY <1>0, RingAssumption DEF RingType, Ring, Issued
  <2>. QED
    BY <2>1, <2>2, <2>3, Zenon
<1>6. a \in Index
  BY <1>5, RingAssumption DEF Index
<1>7. a < i /\ trb.type = CommandLog[a + 1]
  BY <1>0, <1>5, <1>6, Zenon DEF ControllerInv
<1>8. /\ \A j \in Index : CommandTrb(j) # Blank => j < i /\ CommandTrb(j).type = CommandLog[j + 1]
      /\ \A j \in Index : ControlTrb(j).type # "ConfigureEndpoint"
      /\ \A j \in Index : j < a => CommandTrb(j) # Blank
      /\ a <= 1 => i <= 2
      /\ a <= 2 => i <= 3 /\ thread["configure"].plan = <<>>
      /\ hc.enabled => a > 3
      /\ hc.reset => i = 1
  BY <1>0, Zenon DEF ControllerInv
<1>9. ControllerInv'
  <2>1. Issued' = i /\ \A j : CommandTrb(j)' = CommandTrb(j) /\ ControlTrb(j)' = ControlTrb(j)
    BY <1>1, Zenon DEF Issued, CommandTrb, ControlTrb
  <2>2. a + 1 <= RingSlots
    BY <1>5, RingAssumption
  <2>3. \A j \in Index : j < a + 1 => CommandTrb(j) # Blank
    <3>. HIDE DEF a
    <3>1. \A j \in Index : j < a + 1 => j < a \/ j = a
      BY <1>5, RingAssumption DEF Index
    <3>2. CommandTrb(a) # Blank
      BY <1>5
    <3>. QED
      BY <1>8, <3>1, <3>2, Zenon
  <2>4. (a + 1 <= 1 => i <= 2) /\ (a + 1 <= 2 => i <= 3 /\ thread["configure"].plan = <<>>)
    <3>. HIDE DEF a, i
    <3>. QED
      BY <1>5, <1>8
  <2>5. b => a + 1 > 3
    <3>. HIDE DEF a, i, trb, b
    <3>1. a \in 0..3
      BY <1>5, <1>7
    <3>2. trb.type = "ConfigureEndpoint" => a = 3
      BY <1>7, <3>1 DEF CommandLog
    <3>3. hc.enabled => a > 3
      BY <1>8, Zenon
    <3>4. ~(a > 3)
      BY <3>1
    <3>5. b => a = 3
      BY <1>1, <3>2, <3>3, <3>4, Zenon
    <3>. QED
      BY <3>5
  <2>. HIDE DEF a, i
  <2>6. a = hc.at["command"]
    BY DEF a
  <2>. QED
    BY <1>1, <1>5, <1>8, <2>1, <2>2, <2>3, <2>4, <2>5, Zenon
    DEF ControllerInv, Index, CommandLog, Blank
<1>10. e.type = "CommandCompletion" /\ e.at = a /\ e.type # "PortStatusChange" /\ e.type # "Transfer"
  BY DEF Event
<1>11. /\ a = 1 => i = 2
       /\ a = 2 => i = 3 /\ thread["configure"].plan = <<>>
       /\ a < a + 1
  <2>. HIDE DEF a, i
  <2>. QED
    BY <1>5, <1>7, <1>8
<1>12. \A n \in 1..Len(events) : events[n].type = "CommandCompletion" => events[n].at # a
  <2>1. \A n \in 1..Len(events) : events[n].type = "CommandCompletion" => events[n].at < a
    BY <1>0, Zenon DEF EventInv
  <2>2. ~(a < a)
    BY <1>5
  <2>. QED
    BY <2>1, <2>2, Zenon
<1>13. \A q \in Ring : hc'.at[q] \in Nat /\ hc.at[q] \in Nat /\ hc'.at[q] >= hc.at[q]
  <2>1. a + 1 \in Nat /\ a + 1 >= a /\ hc.at["control"] >= hc.at["control"]
        /\ hc.at["keyboard"] >= hc.at["keyboard"]
    BY <1>5
  <2>. QED
    BY <1>1, <1>2, <1>5, <2>1 DEF Ring
<1>14. hc.enabled => hc'.enabled
  BY <1>1, Zenon
<1>. HIDE DEF e, a, i, b
<1>15. e.type = "CommandCompletion" =>
         /\ e.at < hc'.at["command"]
         /\ e.at = 1 => Issued = 2
         /\ e.at = 2 => Issued = 3 /\ thread["configure"].plan = <<>>
         /\ \A n \in 1..Len(events) :
               events[n].type = "CommandCompletion" => events[n].at # e.at
  BY <1>1, <1>10, <1>11, <1>12, Zenon DEF i
<1>16. e.type \in {"CommandCompletion", "Transfer", "Failed"}
  BY <1>10
<1>. QED
  BY <1>1, <1>3, <1>4, <1>9, <1>10, <1>13, <1>14, <1>15, <1>16, CompletionStep, Zenon

(* A stage of a control transfer. *)
LEMMA RunControl ==
  ASSUME XInv, Runs("control")
  PROVE  XInv'
<1>0. /\ ControllerInv /\ EventInv /\ HcType /\ DeviceType /\ RingType /\ EventType
  BY Zenon DEF XInv, Types
<1>. DEFINE a == hc.at["control"]
            e == Event("Transfer", 1, a)
            trb == ControlTrb(a)
<1>1. /\ thread' = thread /\ ring' = ring /\ crashed' = crashed /\ HcType'
      /\ hc'.at["control"] = a + 1 /\ hc'.reset = hc.reset
      /\ hc'.enabled = (hc.enabled \/ trb.type = "ConfigureEndpoint")
  BY Zenon DEF Runs, ControlTrb
<1>2. hc'.at["command"] = hc.at["command"] /\ hc'.at["keyboard"] = hc.at["keyboard"]
  BY DEF Runs, Ring
<1>3. Appends(e)
  BY DEF Runs
<1>4. DeviceType'
  BY <1>0, RunDevice, Zenon
<1>5. /\ a \in Nat /\ a < RingSlots /\ hc.at["command"] \in Nat /\ hc.at["keyboard"] \in Nat
  BY <1>0 DEF HcType, Ring, Runs, Present
<1>6. a \in Index
  BY <1>5, RingAssumption DEF Index
<1>7. trb.type # "ConfigureEndpoint"
  BY <1>0, <1>6, Zenon DEF ControllerInv
<1>8. hc'.enabled <=> hc.enabled
  BY <1>1, <1>7, Zenon
<1>9. ControllerInv'
  BY <1>0, <1>1, <1>2, <1>8, Zenon
  DEF ControllerInv, Issued, CommandTrb, ControlTrb, Index, CommandLog, Blank
<1>10. e.type = "Transfer" /\ e.at = a /\ e.endpoint = 1
  BY DEF Event
<1>11. a < a + 1 /\ a + 1 \in Nat /\ a + 1 >= a /\ hc.at["command"] >= hc.at["command"]
       /\ hc.at["keyboard"] >= hc.at["keyboard"]
  BY <1>5
<1>12. \A q \in Ring : hc'.at[q] \in Nat /\ hc.at[q] \in Nat /\ hc'.at[q] >= hc.at[q]
  BY <1>1, <1>2, <1>5, <1>11 DEF Ring
<1>. HIDE DEF e
<1>13. /\ e.type # "PortStatusChange" /\ e.type # "CommandCompletion"
       /\ e.type \in {"CommandCompletion", "Transfer", "Failed"}
       /\ e.endpoint \in {1, 3} /\ e.endpoint # 3
  BY <1>10
<1>14. e.type = "Transfer" =>
         /\ e.endpoint \in {1, 3}
         /\ e.endpoint = 1 => e.at < hc'.at["control"]
         /\ e.endpoint = 3 => hc'.enabled
  BY <1>1, <1>10, <1>11, <1>13, Zenon
<1>. QED
  BY <1>1, <1>3, <1>4, <1>8, <1>9, <1>12, <1>13, <1>14, CompletionStep, Zenon
(* A report of the keyboard. *)
LEMMA TypeStep ==
  ASSUME XInv, Type
  PROVE  XInv'
<1>0. /\ ControllerInv /\ EventInv /\ HcType /\ DeviceType /\ RingType /\ EventType
  BY Zenon DEF XInv, Types
<1>. DEFINE a == hc.at["keyboard"]
            e == Event("Transfer", 3, a)
<1>1. /\ thread' = thread /\ ring' = ring /\ crashed' = crashed /\ hc.enabled
      /\ hc' = [[hc EXCEPT !.at["keyboard"] = @ + 1] EXCEPT !.pending = TRUE]
      /\ events' = Append(events, e)
      /\ device' = [device EXCEPT !.buffer[ring["keyboard"].trb[a].buffer] = Head(typing)]
  BY Zenon DEF Type, Post, Unserved
<1>2. hc' = [[hc EXCEPT !.at["keyboard"] = @ + 1, !.enabled = hc.enabled] EXCEPT !.pending = TRUE]
  <2>. DEFINE c == [hc.at EXCEPT !["keyboard"] = @ + 1]
              h == [hc EXCEPT !.at = c]
  <2>1. hc' = [h EXCEPT !.pending = TRUE]
    BY <1>1, Zenon
  <2>. HIDE DEF c
  <2>2. h = [hc EXCEPT !.at = c, !.enabled = hc.enabled]
    BY <1>0, Zenon DEF HcType
  <2>. QED
    BY <2>1, <2>2, Zenon DEF c
<1>3. "keyboard" \in Ring /\ hc.enabled \in BOOLEAN
  BY <1>0 DEF Ring, HcType
<1>4. /\ HcType' /\ hc'.at["keyboard"] = a + 1 /\ a \in Nat
      /\ (\A q \in Ring \ {"keyboard"} : hc'.at[q] = hc.at[q])
      /\ hc'.enabled = hc.enabled /\ hc'.reset = hc.reset
  BY <1>0, <1>2, <1>3, HcRun, Zenon
<1>5. hc'.at["command"] = hc.at["command"] /\ hc'.at["control"] = hc.at["control"]
  BY <1>4 DEF Ring
<1>6. Appends(e)
  BY <1>0, <1>1, <1>4, Appended DEF EventKinds
<1>7. DeviceType'
  BY <1>0, <1>1, Zenon DEF DeviceType, DeviceFields
<1>8. ControllerInv'
  BY <1>0, <1>1, <1>4, <1>5, Zenon
  DEF ControllerInv, Issued, CommandTrb, ControlTrb, Index, CommandLog, Blank
<1>9. e.type = "Transfer" /\ e.endpoint = 3
  BY DEF Event
<1>10. \A q \in Ring : hc'.at[q] \in Nat /\ hc.at[q] \in Nat /\ hc'.at[q] >= hc.at[q]
  <2>1. hc.at["command"] \in Nat /\ hc.at["control"] \in Nat
    BY <1>0 DEF HcType, Ring
  <2>2. a + 1 \in Nat /\ a + 1 >= a /\ hc.at["command"] >= hc.at["command"]
        /\ hc.at["control"] >= hc.at["control"]
    BY <1>4, <2>1
  <2>. QED
    BY <1>4, <1>5, <2>1, <2>2 DEF Ring
<1>. HIDE DEF e
<1>11. /\ e.type # "PortStatusChange" /\ e.type # "CommandCompletion"
       /\ e.type \in {"CommandCompletion", "Transfer", "Failed"}
       /\ e.endpoint \in {1, 3} /\ e.endpoint # 1
  BY <1>9
<1>12. e.type = "Transfer" =>
         /\ e.endpoint \in {1, 3}
         /\ e.endpoint = 1 => e.at < hc'.at["control"]
         /\ e.endpoint = 3 => hc'.enabled
  BY <1>1, <1>4, <1>11, Zenon
<1>. QED
  BY <1>1, <1>4, <1>6, <1>7, <1>8, <1>10, <1>11, <1>12, CompletionStep, Zenon

(* A command or a transfer fails. *)
LEMMA FailStep ==
  ASSUME XInv, thread' = thread, ring' = ring, crashed' = crashed, device' = device,
         HcType', hc'.at = hc.at, hc'.enabled = hc.enabled, hc'.reset = hc.reset,
         NEW endpoint \in {0, 1, 3}, NEW at \in Nat,
         events' = Append(events, Failed(endpoint, at))
  PROVE  XInv'
<1>0. ControllerInv /\ HcType /\ DeviceType /\ EventType
  BY Zenon DEF XInv, Types
<1>. DEFINE e == Event("Failed", endpoint, at)
<1>1. Appends(e)
  <2>1. "Failed" \in EventKinds /\ events' = Append(events, e)
    BY DEF EventKinds, Failed
  <2>. QED
    BY <1>0, <2>1, Appended, Zenon
<1>2. e.type = "Failed"
  BY DEF Event
<1>. HIDE DEF e
<1>3. /\ e.type # "PortStatusChange" /\ e.type # "CommandCompletion" /\ e.type # "Transfer"
      /\ e.type \in {"CommandCompletion", "Transfer", "Failed"}
  BY <1>2
<1>4. DeviceType'
  BY <1>0, Zenon DEF DeviceType, DeviceFields
<1>5. \A q \in Ring : hc'.at[q] \in Nat /\ hc.at[q] \in Nat /\ hc'.at[q] >= hc.at[q]
  BY <1>0 DEF HcType
<1>6. ControllerInv'
  <2>1. hc'.reset => Issued = 1
    BY <1>0, Zenon DEF ControllerInv
  <2>. QED
    BY <1>0, <2>1, SameController, Zenon
<1>. QED
  BY <1>1, <1>3, <1>4, <1>5, <1>6, CompletionStep, Zenon

-----------------------------------------------------------------------------
(* All of it. *)

(* One step of a thread. *)
LEMMA ThreadKeepsX ==
  ASSUME XInv, NEW t \in Thread, ThreadStep(t)
  PROVE  XInv'
<1>0. HcType /\ DeviceType
  BY Zenon DEF XInv, Types
<1>1. CASE TakeIndex(t)
  BY <1>1, TakeStep, Zenon
<1>2. CASE WriteTrb(t)
  BY <1>2, WriteStep, Zenon
<1>3. CASE RingBell(t)
  <2>1. /\ thread[t].plan # <<>> /\ Stmt(t).op = "doorbell" /\ thread' = Advance(t) /\ ring' = ring
        /\ events' = events /\ crashed' = crashed /\ device' = device
        /\ hc' = [hc EXCEPT !.bell = @ \cup {Stmt(t).ring}]
    BY <1>3, Zenon DEF RingBell, At, Stmt
  <2>2. Stmt(t) \in Stmts
    <3>1. thread[t].plan \in Seq(Stmts)
      BY DEF XInv, Types, ThreadType, Threads
    <3>. QED
      BY <2>1, <3>1 DEF Stmt
  <2>3. Stmt(t).ring \in Ring
    BY <2>2 DEF Stmts
  <2>4. HcType' /\ hc'.at = hc.at /\ hc'.enabled = hc.enabled /\ hc'.reset = hc.reset
    <3>1. hc.bell \cup {Stmt(t).ring} \in SUBSET Ring
      BY <1>0, <2>3 DEF HcType
    <3>. QED
      BY <1>0, <2>1, <3>1, Zenon DEF HcType
  <2>5. DeviceType' /\ Stmt(t).op # "enqueue"
    BY <1>0, <2>1, Zenon DEF DeviceType, DeviceFields
  <2>. QED
    BY <2>1, <2>4, <2>5, DropStep, Zenon
<1>4. CASE ResetPorts(t)
  <2>1. /\ thread[t].plan # <<>> /\ Stmt(t).op = "reset" /\ thread' = Advance(t) /\ ring' = ring
        /\ events' = events /\ crashed' = crashed /\ device' = device
        /\ hc' = [hc EXCEPT !.reset = TRUE]
    BY <1>4, Zenon DEF ResetPorts, At, Stmt
  <2>2. HcType' /\ hc'.at = hc.at /\ hc'.enabled = hc.enabled
    BY <1>0, <2>1, Zenon DEF HcType
  <2>3. DeviceType' /\ Stmt(t).op # "enqueue"
    BY <1>0, <2>1, Zenon DEF DeviceType, DeviceFields
  <2>. QED
    BY <2>1, <2>2, <2>3, DropStep, Zenon
<1>5. CASE InsertSemaphore(t)
  <2>1. /\ thread[t].plan # <<>> /\ Stmt(t).op = "insert_last" /\ thread' = Advance(t) /\ ring' = ring
        /\ events' = events /\ crashed' = crashed /\ hc' = hc
        /\ device' = [device EXCEPT !.waiting = @ \cup {<<thread[t].last, Stmt(t).arg>>}]
    BY <1>5, Zenon DEF InsertSemaphore, At, Stmt
  <2>2. DeviceType'
    BY <1>0, <2>1 DEF DeviceType, DeviceFields
  <2>3. HcType' /\ Stmt(t).op # "enqueue"
    BY <1>0, <2>1, Zenon DEF HcType
  <2>. QED
    BY <2>1, <2>2, <2>3, DropStep, Zenon
<1>6. CASE Await(t)
  <2>1. /\ thread[t].plan # <<>> /\ Stmt(t).op = "await" /\ thread' = Advance(t) /\ ring' = ring
        /\ events' = events /\ crashed' = crashed /\ hc' = hc
        /\ device' = [device EXCEPT !.signal[Stmt(t).arg] = @ - 1, !.read = @ \cup {Stmt(t).arg}]
    BY <1>6, Zenon DEF Await, At, Stmt
  <2>2. DeviceType'
    BY <1>0, <2>1 DEF DeviceType, DeviceFields
  <2>3. HcType' /\ Stmt(t).op # "enqueue"
    BY <1>0, <2>1, Zenon DEF HcType
  <2>. QED
    BY <2>1, <2>2, <2>3, DropStep, Zenon
<1>7. CASE CompleteControl(t)
  <2>. DEFINE found == {w \in device.waiting : w[1] = Stmt(t).arg}
              f == [c \in DOMAIN device.signal |->
                     device.signal[c] + Cardinality({w \in found : w[2] = c})]
  <2>1. /\ thread[t].plan # <<>> /\ Stmt(t).op = "complete" /\ ring' = ring
        /\ events' = events /\ crashed' = crashed /\ hc' = hc
        /\ \/ thread' = Advance(t) /\ device' = device
           \/ thread' = thread /\ device' = [device EXCEPT !.signal = f, !.ended = found]
    BY <1>7, Zenon DEF CompleteControl, At, Stmt
  <2>. HIDE DEF found, f
  <2>2. DeviceType'
    BY <1>0, <2>1, Zenon DEF DeviceType, DeviceFields
  <2>3. HcType' /\ Stmt(t).op # "enqueue"
    BY <1>0, <2>1, Zenon DEF HcType
  <2>. QED
    BY <2>1, <2>2, <2>3, DropStep, QuietStep, Zenon
<1>11. CASE DeleteSemaphore(t)
  <2>1. /\ thread[t].plan # <<>> /\ Stmt(t).op = "complete" /\ thread' = Advance(t) /\ ring' = ring
        /\ events' = events /\ crashed' = crashed /\ hc' = hc
        /\ device' = [device EXCEPT !.waiting = @ \ device.ended, !.ended = {}]
    BY <1>11, Zenon DEF DeleteSemaphore, At, Stmt
  <2>2. DeviceType'
    BY <1>0, <2>1, Zenon DEF DeviceType, DeviceFields
  <2>3. HcType' /\ Stmt(t).op # "enqueue"
    BY <1>0, <2>1, Zenon DEF HcType
  <2>. QED
    BY <2>1, <2>2, <2>3, DropStep, Zenon
<1>8. CASE SpawnConfigure(t)
  BY <1>8, SpawnStep, Zenon
<1>9. CASE ConfigureStep(t)
  <2>1. /\ thread[t].plan # <<>> /\ Stmt(t).op \in {"enable", "signal_configured", "await_configured"}
        /\ thread' = Advance(t) /\ ring' = ring /\ events' = events /\ crashed' = crashed /\ hc' = hc
        /\ \/ device' = [device EXCEPT !.enabled = TRUE]
           \/ device' = [device EXCEPT !.configure = @ + 1]
           \/ device' = [device EXCEPT !.configure = @ - 1, !.configured = TRUE]
    BY <1>9, Zenon DEF ConfigureStep, At, Stmt
  <2>2. DeviceType'
    BY <1>0, <2>1, Zenon DEF DeviceType, DeviceFields
  <2>3. HcType' /\ Stmt(t).op # "enqueue"
    BY <1>0, <2>1, Zenon DEF HcType
  <2>. QED
    BY <2>1, <2>2, <2>3, DropStep, Zenon
<1>10. CASE Deliver(t)
  <2>1. /\ thread[t].plan # <<>> /\ Stmt(t).op = "deliver" /\ thread' = Advance(t) /\ ring' = ring
        /\ events' = events /\ crashed' = crashed /\ hc' = hc /\ device' = device
    BY <1>10, Zenon DEF Deliver, At, Stmt, usb
  <2>2. HcType' /\ DeviceType' /\ Stmt(t).op # "enqueue"
    BY <1>0, <2>1, Zenon DEF HcType, DeviceType, DeviceFields
  <2>. QED
    BY <2>1, <2>2, DropStep, Zenon
<1>. QED
  BY <1>1, <1>2, <1>3, <1>4, <1>5, <1>6, <1>7, <1>8, <1>9, <1>10, <1>11, Zenon
  DEF ThreadStep
(* A round of the interrupt thread's loop. *)
LEMMA LoopKeepsX ==
  ASSUME XInv, PollPending \/ ReadEvent \/ ClearPending
  PROVE  XInv'
<1>1. CASE PollPending
  BY <1>1, LoopStep, Zenon DEF PollPending, IrqAt, usb
<1>2. CASE ReadEvent
  <2>1. CASE thread["irq"].dequeue < Len(events)
    BY <1>2, <2>1, ReadStep, Zenon
  <2>2. CASE ~(thread["irq"].dequeue < Len(events))
    BY <1>2, <2>2, LoopStep, Zenon DEF ReadEvent, IrqAt
  <2>. QED
    BY <2>1, <2>2, Zenon
<1>3. CASE ClearPending
  BY <1>3, LoopStep, Zenon DEF ClearPending, IrqAt
<1>. QED
  BY <1>1, <1>2, <1>3, Zenon

(* A step of the controller on a ring. *)
LEMMA RunKeepsX ==
  ASSUME XInv, NEW r \in {"command", "control"}, RunRing(r)
  PROVE  XInv'
<1>0. HcType /\ DeviceType
  BY Zenon DEF XInv, Types
<1>1. CASE Present(r)
  <2>1. r \in Ring
    BY DEF Ring
  <2>2. Runs(r)
    BY <1>1, <2>1, Ran, Zenon
  <2>. QED
    BY <2>2, RunCommand, RunControl, Zenon
<1>2. CASE ~Present(r)
  <2>1. /\ thread' = thread /\ ring' = ring /\ crashed' = crashed /\ events' = events
        /\ device' = device /\ hc' = [hc EXCEPT !.bell = @ \ {r}]
    BY <1>2, Zenon DEF RunRing, Unserved
  <2>2. hc.bell \ {r} \in SUBSET Ring
    BY <1>0 DEF HcType
  <2>3. HcType' /\ hc'.at = hc.at /\ hc'.enabled = hc.enabled /\ hc'.reset = hc.reset
    BY <1>0, <2>1, <2>2, Zenon DEF HcType
  <2>4. DeviceType'
    BY <1>0, <2>1, Zenon DEF DeviceType, DeviceFields
  <2>. QED
    BY <2>1, <2>3, <2>4, QuietStep, Zenon
<1>. QED
  BY <1>1, <1>2, Zenon

(* A failure. *)
LEMMA FailKeepsX ==
  ASSUME XInv, FailTyping \/ \E r \in {"command", "control"} : FailRing(r)
  PROVE  XInv'
<1>0. HcType
  BY Zenon DEF XInv, Types
<1>1. CASE FailTyping
  <2>1. /\ thread' = thread /\ ring' = ring /\ crashed' = crashed /\ device' = device
        /\ hc' = [hc EXCEPT !.pending = TRUE]
        /\ events' = Append(events, Failed(3, hc.at["keyboard"]))
    BY <1>1, Zenon DEF FailTyping, Post, Unserved
  <2>2. HcType' /\ hc'.at = hc.at /\ hc'.enabled = hc.enabled /\ hc'.reset = hc.reset
    BY <1>0, <2>1, Zenon DEF HcType
  <2>3. 3 \in {0, 1, 3} /\ hc.at["keyboard"] \in Nat
    BY <1>0 DEF HcType, Ring
  <2>. QED
    BY <2>1, <2>2, <2>3, FailStep, Zenon
<1>2. ASSUME NEW r \in {"command", "control"}, FailRing(r) PROVE XInv'
  <2>. DEFINE endpoint == IF r = "command" THEN 0 ELSE 1
  <2>1. /\ thread' = thread /\ ring' = ring /\ crashed' = crashed /\ device' = device
        /\ hc' = [[hc EXCEPT !.bell = @ \ {r}] EXCEPT !.pending = TRUE]
        /\ events' = Append(events, Failed(endpoint, hc.at[r]))
    BY <1>2, Zenon DEF FailRing, Post, Unserved
  <2>2. hc.bell \ {r} \in SUBSET Ring
    BY <1>0 DEF HcType
  <2>3. HcType' /\ hc'.at = hc.at /\ hc'.enabled = hc.enabled /\ hc'.reset = hc.reset
    BY <1>0, <2>1, <2>2, Zenon DEF HcType
  <2>4. endpoint \in {0, 1, 3} /\ hc.at[r] \in Nat
    BY <1>0 DEF HcType, Ring
  <2>. HIDE DEF endpoint
  <2>. QED
    BY <2>1, <2>3, <2>4, FailStep, Zenon
<1>. QED
  BY <1>1, <1>2, Zenon

(* Every step preserves the invariant. *)
LEMMA XInvStep ==
  ASSUME XInv, [Next]_vars
  PROVE  XInv'
<1>0. /\ HcType /\ DeviceType
      /\ "main" \in Thread /\ "irq" \in Thread /\ "configure" \in Thread
  BY Zenon DEF XInv, Types, Thread
<1>1. CASE ThreadStep("main") \/ ThreadStep("configure") \/ ThreadStep("irq")
  BY <1>0, <1>1, ThreadKeepsX, Zenon
<1>2. CASE PollPending \/ ReadEvent \/ ClearPending
  BY <1>2, LoopKeepsX, Zenon
<1>3. CASE PortChanges
  BY <1>3, PortStep, Zenon
<1>4. CASE \E r \in {"command", "control"} : RunRing(r)
  BY <1>4, RunKeepsX, Zenon
<1>5. CASE Type
  BY <1>5, TypeStep, Zenon
<1>7. CASE FailTyping \/ \E r \in {"command", "control"} : FailRing(r)
  BY <1>7, FailKeepsX, Zenon
<1>6. CASE Keyboard \/ (\E l \in Listener : RegisterListener(l)) \/ UNCHANGED vars
  <2>1. /\ thread' = thread /\ ring' = ring /\ crashed' = crashed /\ events' = events
        /\ device' = device /\ hc' = hc
    BY <1>6, Zenon DEF Keyboard, ReceiveReport, ProcessInput, RegisterListener, vars, usb
  <2>2. HcType' /\ DeviceType'
    BY <1>0, <2>1, Zenon DEF HcType, DeviceType, DeviceFields
  <2>. QED
    BY <2>1, <2>2, QuietStep, Zenon
<1>. QED
  BY <1>1, <1>2, <1>3, <1>4, <1>5, <1>6, <1>7, Zenon DEF Next, InterruptLoop, Controller

(* The boot thread starts with its plan, and nothing has happened yet. *)
LEMMA InitXInv ==
  ASSUME Init
  PROVE  XInv
<1>1. /\ thread["main"] = [plan |-> InitiateDriver, ptr |-> NoPtr, last |-> NoPtr,
                           loop |-> "poll", dequeue |-> 0]
      /\ \A t \in {"irq", "configure"} :
           thread[t] = [plan |-> <<>>, ptr |-> NoPtr, last |-> NoPtr, loop |-> "poll", dequeue |-> 0]
      /\ thread = [t \in Thread |-> thread[t]]
  BY Zenon DEF Init, Thread
<1>2. /\ ring = [r \in Ring |-> [enqueue |-> 0, trb |-> [i \in Index |-> Blank]]]
      /\ events = <<>> /\ crashed = FALSE
      /\ hc = [pending |-> FALSE, bell |-> {}, reset |-> FALSE, enabled |-> FALSE,
               at |-> [r \in Ring |-> 0]]
      /\ device = DeviceSlot
  BY Zenon DEF Init, Index
<1>3. ThreadType
  <2>1. <<>> \in Seq(Stmts) /\ InitiateDriver \in Seq(Stmts)
    BY NextStatements DEF StartPlans
  <2>2. \A p \in Seq(Stmts) :
          [plan |-> p, ptr |-> NoPtr, last |-> NoPtr, loop |-> "poll", dequeue |-> 0] \in Threads
    BY DEF Threads, NoPtr
  <2>3. thread["main"] \in Threads /\ thread["irq"] \in Threads /\ thread["configure"] \in Threads
    BY <1>1, <2>1, <2>2, Zenon
  <2>. QED
    BY <1>1, <2>3 DEF ThreadType, Thread
<1>4. Blank \in Trbs /\ 0 \in 0..RingSlots /\ 0 # RingSlots /\ RingSlots \in Nat
  BY RingAssumption DEF Blank, Trbs, TrbTypes
<1>5. RingType
  BY <1>2, <1>4 DEF RingType
<1>6. EventType /\ HcType
  BY <1>2 DEF EventType, HcType, Ring
<1>7. DeviceType
  BY <1>2 DEF DeviceType, DeviceFields, DeviceSlot
<1>8. PtrInv
  BY <1>1 DEF PtrInv, Thread
<1>9. Issued = 0 /\ hc.at["command"] = 0 /\ ~hc.enabled /\ ~hc.reset /\ Len(events) = 0
  BY <1>2 DEF Issued, Ring
<1>10. \A i \in Index : CommandTrb(i) = Blank /\ ControlTrb(i) = Blank
  BY <1>2 DEF CommandTrb, ControlTrb, Ring
<1>11. MainInv
  <2>1. thread["main"].plan = InitiateDriver /\ thread["main"].ptr = NoPtr
    BY <1>1
  <2>2. Suffix(InitiateDriver, InitiateDriver) /\ Len(InitiateDriver) = 3
    BY NextStatements, SuffixSelf, Zenon DEF StartPlans
  <2>. QED
    BY <1>9, <2>1, <2>2 DEF MainInv, Claims
<1>12. IrqInv /\ ConfigureInv
  BY <1>1, <1>9 DEF IrqInv, ConfigureInv
<1>13. ControllerInv
  <2>1. Blank.type # "ConfigureEndpoint"
    BY DEF Blank
  <2>2. thread["configure"].plan = <<>>
    BY <1>1
  <2>3. \A i \in Index : ~(i < 0)
    BY <1>4 DEF Index
  <2>. QED
    BY <1>4, <1>9, <1>10, <2>1, <2>2, <2>3 DEF ControllerInv
<1>14. EventInv /\ OnceInv
  BY <1>9 DEF EventInv, OnceInv
<1>. QED
  BY <1>3, <1>5, <1>6, <1>7, <1>8, <1>11, <1>12, <1>13, <1>14, Zenon DEF XInv, Types

(* The first invariant holds in every state.                               *)
LEMMA XInvAlways == Spec => []XInv
BY InitXInv, XInvStep, PTL DEF Spec

-----------------------------------------------------------------------------
(* The control endpoint: one write at a time. *)

(* Where the configuring thread is stays the same. *)
LEMMA StagesKeep ==
  ASSUME StagesInv, ring'["control"] = ring["control"], Issued' <= 3 => Issued <= 3,
         thread'["configure"].plan = thread["configure"].plan,
         thread'["configure"].ptr = thread["configure"].ptr,
         thread'["configure"].last = thread["configure"].last,
         device'.waiting \subseteq {<<2, 1>>, <<5, 2>>}
  PROVE  StagesInv'
<1>1. Done' = Done /\ Stmt("configure")' = Stmt("configure")
  BY Zenon DEF Done, Total, Stmt
<1>2. Staged(Done)' = Staged(Done)
  BY <1>1, Zenon DEF Staged
<1>. QED
  BY <1>1, <1>2, Zenon DEF StagesInv, ControlTrb, Blank, Index

(* The stages written so far. *)
LEMMA StagedNext ==
  ASSUME NEW d \in Nat
  PROVE  /\ Staged(d) \in 0..6
         /\ d \in {0, 1, 2, 6, 7, 8} => Staged(d + 1) = Staged(d) + 1
         /\ d \notin {0, 1, 2, 6, 7, 8} => Staged(d + 1) = Staged(d)
         /\ Staged(d) = 1 /\ d \in {0, 1, 2, 6, 7, 8} => d = 1
         /\ Staged(d) = 4 /\ d \in {0, 1, 2, 6, 7, 8} => d = 7
         /\ d = 2 => Staged(d) = 2
         /\ d = 8 => Staged(d) = 5
BY DEF Staged

(* Its next statement, as far as the control ring is concerned. *)
LEMMA ConfigureAt ==
  ASSUME XInv, thread["configure"].plan # <<>>
  PROVE  LET c == Stmt("configure") IN
         /\ Done \in Nat
         /\ c.op = "enqueue" /\ c.ring = "control" <=> Done \in {0, 1, 2, 6, 7, 8}
         /\ Len(Tail(thread["configure"].plan)) = Total - (Done + 1) /\ Total \in Nat
         /\ Tail(thread["configure"].plan) = <<>> => Issued = 4
<1>0. ThreadType /\ ConfigureInv
  BY Zenon DEF XInv, Types
<1>. DEFINE c == Stmt("configure")
            d == Done
            q == Tail(thread["configure"].plan)
<1>1. /\ d \in 0..(Total - 1) /\ Len(q) = Total - (d + 1)
      /\ d \in {0, 1, 2, 6, 7, 8} => c.op = "enqueue" /\ c.ring = "control"
      /\ q = <<>> <=> d = Total - 1
  BY <1>0, NextStatements, Zenon DEF ConfigureNext
<1>2. Prefill \in Nat /\ Total = 16 + Prefill
  BY RingAssumption DEF Total
<1>3. c.op = "enqueue" /\ c.ring = "control" => d \in {0, 1, 2, 6, 7, 8}
  BY Holder, Zenon DEF Thread, Held
<1>4. d > 13 + Prefill => Issued = 4
  BY <1>0, Zenon DEF ConfigureInv
<1>. HIDE DEF c, d, q
<1>5. d \in Nat /\ Total \in Nat /\ (q = <<>> => Issued = 4)
  BY <1>1, <1>2, <1>4
<1>. QED
  BY <1>1, <1>3, <1>5, Zenon DEF c, d, q

(* A thread is done with a statement that does not touch a ring. *)
LEMMA StagesAdvance ==
  ASSUME XInv, StagesInv, NEW t \in Thread, thread[t].plan # <<>>, Stmt(t).op # "enqueue",
         thread' = Advance(t), ring' = ring, device'.waiting \subseteq {<<2, 1>>, <<5, 2>>}
  PROVE  StagesInv'
<1>0. ThreadType /\ PtrInv
  BY Zenon DEF XInv, Types
<1>1. NewPlan(thread, thread', t, Tail(thread[t].plan))
  <2>1. Tail(thread[t].plan) \in Seq(Stmts)
    BY <1>0 DEF ThreadType, Threads
  <2>. QED
    BY <1>0, <2>1, PlanReplaced, Zenon DEF Advance, ThreadType
<1>2. Issued' = Issued
  BY Zenon DEF Issued
<1>3. CASE t # "configure"
  <2>1. thread'["configure"] = thread["configure"]
    BY <1>1, <1>3 DEF NewPlan, Thread
  <2>. QED
    BY <1>2, <2>1, StagesKeep, Zenon
<1>4. CASE t = "configure"
  <2>. DEFINE p == thread["configure"].plan
              d == Done
              q == Tail(p)
              taken == ring["control"].enqueue
              last == thread["configure"].last
  <2>1. p # <<>> /\ Stmt("configure").op # "enqueue" /\ thread["configure"].ptr = NoPtr
    BY <1>0, <1>4, Zenon DEF PtrInv
  <2>2. /\ d \in Nat /\ d \notin {0, 1, 2, 6, 7, 8} /\ Len(q) = Total - (d + 1) /\ Total \in Nat
        /\ q = <<>> => Issued = 4
    BY <2>1, ConfigureAt, Zenon
  <2>3. /\ thread'["configure"].plan = q /\ thread'["configure"].ptr = NoPtr
        /\ thread'["configure"].last = last
    BY <1>1, <1>4, <2>1, Zenon DEF NewPlan
  <2>4. Done' = d + 1
    <3>1. Done' = Total - Len(q)
      BY <2>3, Zenon DEF Done, Total
    <3>. HIDE DEF d, q
    <3>. QED
      BY <2>2, <3>1
  <2>5. Staged(d) \in 0..6 /\ Staged(d + 1) = Staged(d)
    BY <2>2, StagedNext, Zenon
  <2>6. NoPtr \notin 0..6
    BY DEF NoPtr
  <2>7. taken = Staged(d)
    BY <2>1, <2>5, <2>6, Zenon DEF StagesInv
  <2>8. (d + 1 \in {3, 4} => last = 2) /\ (d + 1 \in {9, 10} => last = 5)
    <3>1. (d \in {3, 4} => last = 2) /\ (d \in {9, 10} => last = 5)
      BY <2>1, Zenon DEF StagesInv
    <3>. HIDE DEF d, last
    <3>. QED
      BY <2>2, <3>1
  <2>9. q = <<>> => ~(Issued <= 3)
    BY <2>2
  <2>. QED
    BY <1>2, <2>3, <2>4, <2>5, <2>7, <2>8, <2>9, Zenon
    DEF StagesInv, ControlTrb, Blank, Index
<1>. QED
  BY <1>3, <1>4, Zenon
(* A thread takes an index. *)
LEMMA StagesTake ==
  ASSUME XInv, StagesInv, NEW t \in Thread, TakeIndex(t)
  PROVE  StagesInv'
<1>1. Takes(t)
  BY Taken, Zenon
<1>. DEFINE r == Stmt(t).ring
<1>2. /\ r \in Ring /\ thread[t].plan # <<>> /\ Stmt(t).op = "enqueue" /\ thread[t].ptr = NoPtr
      /\ device' = device
  BY <1>1, Zenon DEF Takes
<1>3. Issued' <= 3 => Issued <= 3
  <2>1. Issued \in Nat /\ (Issued' = Issued \/ Issued' = Issued + 1)
    <3>1. ring["command"].enqueue \in Nat
      BY RingAssumption DEF XInv, Types, RingType, Ring
    <3>. QED
      BY <1>1, <3>1 DEF Takes, Issued, Ring
  <2>. QED
    BY <2>1
<1>4. device'.waiting \subseteq {<<2, 1>>, <<5, 2>>}
  BY <1>2, Zenon DEF StagesInv
<1>5. CASE t # "configure"
  <2>1. r # "control"
    BY <1>2, <1>5, Holder, Zenon DEF Held
  <2>2. ring'["control"] = ring["control"] /\ thread'["configure"] = thread["configure"]
    BY <1>1, <1>5, <2>1, Zenon DEF Takes, Ring, Thread
  <2>. QED
    BY <1>3, <1>4, <2>2, StagesKeep, Zenon
<1>6. CASE t = "configure"
  <2>. DEFINE p == thread["configure"].plan
              d == Done
              taken == ring["control"].enqueue
  <2>1. p # <<>> /\ Stmt("configure").op = "enqueue" /\ thread["configure"].ptr = NoPtr
        /\ thread'["configure"].plan = p /\ thread'["configure"].last = thread["configure"].last
        /\ thread'["configure"].ptr = ring[r].enqueue
        /\ r = Stmt("configure").ring
    BY <1>1, <1>6, Zenon DEF Takes
  <2>2. d \in Nat
    BY <2>1, ConfigureAt, Zenon
  <2>3. Done' = d /\ Stmt("configure")' = Stmt("configure")
    BY <2>1, Zenon DEF Done, Total, Stmt
  <2>4. Staged(d) \in 0..6 /\ NoPtr \notin 0..6
    <3>1. NoPtr \notin 0..6
      BY DEF NoPtr
    <3>. QED
      BY <2>2, <3>1, StagedNext, Zenon
  <2>5. taken = Staged(d)
    BY <2>1, <2>4, Zenon DEF StagesInv
  <2>6. CASE r = "control"
    <3>1. /\ ring'["control"].enqueue = Staged(d) + 1 /\ ring'["control"].trb = ring["control"].trb
          /\ thread'["configure"].ptr = Staged(d)
      BY <1>1, <2>1, <2>5, <2>6, Zenon DEF Takes
    <3>. QED
      BY <1>4, <2>1, <2>3, <2>6, <3>1, Zenon DEF StagesInv, ControlTrb, Blank, Index
  <2>7. CASE r # "control"
    <3>1. ring'["control"] = ring["control"]
      BY <1>1, <2>7, Zenon DEF Takes, Ring
    <3>. QED
      BY <1>4, <2>1, <2>3, <2>5, <2>7, <3>1, Zenon DEF StagesInv, ControlTrb, Blank, Index
  <2>. QED
    BY <2>6, <2>7, Zenon
<1>. QED
  BY <1>5, <1>6, Zenon

(* A thread writes a TRB. *)
LEMMA StagesWrite ==
  ASSUME XInv, StagesInv, NEW t \in Thread, WriteTrb(t),
         device'.waiting \subseteq {<<2, 1>>, <<5, 2>>}
  PROVE  StagesInv'
<1>0. PtrInv
  BY Zenon DEF XInv
<1>. DEFINE r == Stmt(t).ring
            i == thread[t].ptr
<1>1. Drops(t) /\ thread'[t].last = i /\ i \in Index /\ r \in Ring
  BY Written, Zenon
<1>2. PICK x \in Trbs : x.type = Stmt(t).type /\ NewTrb(r, i, x)
  BY Written, Zenon
<1>3. /\ thread[t].plan # <<>> /\ Stmt(t).op = "enqueue" /\ i # NoPtr /\ i < ring[r].enqueue
  BY <1>0, Zenon DEF WriteTrb, PtrInv
<1>4. Issued' = Issued
  BY <1>2, Zenon DEF Issued, NewTrb, Ring
<1>5. CASE t # "configure"
  <2>1. r # "control"
    BY <1>3, <1>5, Holder, Zenon DEF Held
  <2>2. ring'["control"] = ring["control"]
    BY <1>2, <2>1, Zenon DEF NewTrb, Ring
  <2>3. thread'["configure"] = thread["configure"]
    <3>1. "configure" \in Thread \ {t}
      BY <1>5 DEF Thread
    <3>. QED
      BY <3>1, Written, Zenon
  <2>. QED
    BY <1>4, <2>2, <2>3, StagesKeep, Zenon
<1>6. CASE t = "configure"
  <2>. DEFINE p == thread["configure"].plan
              d == Done
              q == Tail(p)
              taken == ring["control"].enqueue
  <2>1. /\ p # <<>> /\ Stmt("configure").op = "enqueue" /\ r = Stmt("configure").ring
        /\ thread'["configure"].plan = q /\ thread'["configure"].ptr = NoPtr
        /\ thread'["configure"].last = i /\ i = thread["configure"].ptr
    BY <1>1, <1>3, <1>6, Zenon DEF Drops
  <2>2. /\ d \in Nat /\ Len(q) = Total - (d + 1) /\ Total \in Nat /\ (q = <<>> => Issued = 4)
        /\ r = "control" <=> d \in {0, 1, 2, 6, 7, 8}
    BY <2>1, ConfigureAt, Zenon
  <2>3. Done' = d + 1
    <3>1. Done' = Total - Len(q)
      BY <2>1, Zenon DEF Done, Total
    <3>. HIDE DEF d, q
    <3>. QED
      BY <2>2, <3>1
  <2>4. q = <<>> => ~(Issued <= 3)
    BY <2>2
  <2>5. CASE r = "control"
    <3>1. Staged(d) \in 0..6 /\ Staged(d + 1) = Staged(d) + 1
      BY <2>2, <2>5, StagedNext, Zenon
    <3>2. i = Staged(d) /\ i < taken
      BY <1>3, <2>1, <2>5, Zenon DEF StagesInv
    <3>3. ~(Staged(d) < Staged(d))
      BY <3>1
    <3>4. taken = Staged(d + 1)
      BY <2>1, <3>1, <3>2, <3>3, Zenon DEF StagesInv
    <3>5. ring'["control"].enqueue = taken
      BY <1>2, Zenon DEF NewTrb, Ring
    <3>6. (d + 1 \in {3, 4} => i = 2) /\ (d + 1 \in {9, 10} => i = 5)
      <4>1. (d = 2 => i = 2) /\ (d = 8 => i = 5)
        BY <2>2, <3>2, StagedNext, Zenon
      <4>2. \A n \in {0, 1, 2, 6, 7, 8} : (n + 1 \in {3, 4} => n = 2) /\ (n + 1 \in {9, 10} => n = 8)
        OBVIOUS
      <4>. QED
        BY <2>2, <2>5, <4>1, <4>2, Zenon
    <3>7. ASSUME NEW j \in Index \cap {1, 4}, ring'["control"].trb[j] # Blank
          PROVE  ring'["control"].trb[j].type = "Data"
      <4>1. CASE j = i
        <5>1. ring'["control"].trb[j] = x
          BY <1>2, <2>5, <4>1, Zenon DEF NewTrb
        <5>2. Staged(d) = 1 \/ Staged(d) = 4
          BY <3>2, <3>7, <4>1, Zenon
        <5>3. d = 1 \/ d = 7
          BY <2>2, <2>5, <5>2, StagedNext, Zenon
        <5>4. d \in {1, 7} => Stmt(t).type = "Data"
          BY <1>3, <2>5, Holder, Zenon DEF Held
        <5>. QED
          BY <1>2, <5>1, <5>3, <5>4, Zenon
      <4>2. CASE j # i
        <5>1. ring'["control"].trb[j] = ring["control"].trb[j]
          BY <1>2, <2>5, <4>2, Zenon DEF NewTrb
        <5>. QED
          BY <3>7, <5>1, Zenon DEF StagesInv, ControlTrb
      <4>. QED
        BY <4>1, <4>2
    <3>. QED
      BY <1>4, <2>1, <2>3, <2>4, <3>4, <3>5, <3>6, <3>7, Zenon
      DEF StagesInv, ControlTrb, Blank, Index
  <2>6. CASE r # "control"
    <3>1. Staged(d) \in 0..6 /\ Staged(d + 1) = Staged(d)
      BY <2>2, <2>6, StagedNext, Zenon
    <3>2. taken = Staged(d) /\ ring'["control"] = ring["control"]
      BY <1>2, <2>1, <2>6, Zenon DEF StagesInv, NewTrb, Ring
    <3>3. d + 1 \notin {3, 4} /\ d + 1 \notin {9, 10}
      <4>. HIDE DEF d
      <4>1. d \notin {2, 3, 8, 9}
        <5>1. d \in {3, 9} => Stmt("configure").op = "doorbell"
          BY <2>1, NextStatements, Zenon DEF XInv, Types, d, ConfigureNext
        <5>. QED
          BY <2>1, <2>2, <2>6, <5>1, Zenon
      <4>. QED
        BY <2>2, <4>1
    <3>. QED
      BY <1>4, <2>1, <2>3, <2>4, <3>1, <3>2, <3>3, Zenon
      DEF StagesInv, ControlTrb, Blank, Index
  <2>. QED
    BY <2>5, <2>6, Zenon
<1>. QED
  BY <1>5, <1>6, Zenon
(* The configuring thread is started, and starts with the first stage. *)
LEMMA StagesSpawn ==
  ASSUME XInv, StagesInv, NEW t \in Thread, SpawnConfigure(t)
  PROVE  StagesInv'
<1>1. Spawns
  BY Spawned, Zenon
<1>2. Done' = 0
  <2>1. Done' = Total - Total
    BY <1>1, Zenon DEF Done, Total, Spawns
  <2>. QED
    BY <2>1, RingAssumption DEF Total
<1>3. Staged(0) = 0 /\ 0 \notin {3, 4} /\ 0 \notin {9, 10} /\ 3 <= 3
  BY DEF Staged
<1>. QED
  BY <1>1, <1>2, <1>3, Zenon DEF StagesInv, Spawns, ControlTrb, Blank, Index

-----------------------------------------------------------------------------
(* The control endpoint: what has been read. *)

(* Steps that neither complete nor signal a transfer. *)
LEMMA DescriptorKeep ==
  ASSUME DescriptorInv, hc'.at["control"] = hc.at["control"], device'.signal = device.signal,
         device'.read = device.read, device.written \subseteq device'.written
  PROVE  DescriptorInv'
BY Zenon DEF DescriptorInv, DescriptorIsThere

(* The wait is over: the descriptor is there. *)
LEMMA AwaitKeeps ==
  ASSUME XInv, DInv, NEW t \in Thread, Await(t)
  PROVE  DInv'
<1>0. ThreadType /\ EventType /\ MainInv /\ IrqInv /\ ConfigureInv /\ DeviceType
  BY Zenon DEF XInv, Types
<1>. DEFINE c == Stmt(t).arg
<1>1. /\ thread[t].plan # <<>> /\ Stmt(t).op = "await" /\ thread' = Advance(t) /\ ring' = ring /\ hc' = hc
      /\ device.signal[c] > 0
      /\ device' = [device EXCEPT !.signal[c] = @ - 1, !.read = @ \cup {c}]
  BY Zenon DEF Await, At, Stmt
<1>2. t = "configure"
  <2>1. t = "main" => Stmt(t).op \in {"enqueue", "doorbell", "reset"}
    BY <1>0, <1>1, MainOps, Zenon
  <2>2. t = "irq" => Stmt(t).op \in {"enqueue", "doorbell", "spawn", "signal_configured", "complete",
                                     "deliver"}
    BY <1>0, <1>1, IrqOps, Zenon
  <2>. QED
    BY <1>1, <2>1, <2>2 DEF Thread
<1>3. c \in {1, 2}
  <2>1. c = 1 \/ c = 2
    BY <1>0, <1>1, <1>2, ConfigureOps, Zenon
  <2>. QED
    BY <2>1
<1>. HIDE DEF c
<1>4. /\ device'.written = device.written /\ device'.waiting = device.waiting
      /\ device'.read = device.read \cup {c} /\ device'.signal = [device.signal EXCEPT ![c] = @ - 1]
  BY <1>0, <1>1 DEF DeviceType, DeviceFields
<1>5. StagesInv'
  <2>1. StagesInv /\ device'.waiting \subseteq {<<2, 1>>, <<5, 2>>} /\ Stmt(t).op # "enqueue"
    BY <1>1, <1>4, Zenon DEF DInv, StagesInv
  <2>. QED
    BY <1>1, <2>1, StagesAdvance, Zenon
<1>6. DescriptorInv'
  <2>1. /\ device.signal \in [{1, 2} -> Nat]
        /\ \A b \in {1, 2} : device.signal[b] > 0 => b \in device.written
        /\ device.read \subseteq device.written
    BY Zenon DEF DInv, DescriptorInv, DescriptorIsThere
  <2>2. c \in device.written
    BY <1>1, <1>3, <2>1, Zenon
  <2>3. device'.read \subseteq device.written
    BY <1>4, <2>1, <2>2, Zenon
  <2>4. /\ device'.signal \in [{1, 2} -> Nat]
        /\ \A b \in {1, 2} : device'.signal[b] > 0 => device.signal[b] > 0
    BY <1>1, <1>3, <1>4, <2>1
  <2>. QED
    BY <1>1, <1>4, <2>1, <2>3, <2>4, Zenon DEF DInv, DescriptorInv, DescriptorIsThere
<1>. QED
  BY <1>5, <1>6, Zenon DEF DInv
(* A semaphore is entered under the address of the status stage. *)
LEMMA InsertKeeps ==
  ASSUME XInv, DInv, NEW t \in Thread, InsertSemaphore(t)
  PROVE  DInv'
<1>0. ThreadType /\ EventType /\ MainInv /\ IrqInv /\ ConfigureInv /\ DeviceType
  BY Zenon DEF XInv, Types
<1>. DEFINE c == Stmt(t).arg
            l == thread[t].last
<1>1. /\ thread[t].plan # <<>> /\ Stmt(t).op = "insert_last" /\ thread' = Advance(t) /\ ring' = ring
      /\ hc' = hc
      /\ device' = [device EXCEPT !.waiting = @ \cup {<<l, c>>}]
  BY Zenon DEF InsertSemaphore, At, Stmt
<1>2. t = "configure"
  <2>1. t = "main" => Stmt(t).op \in {"enqueue", "doorbell", "reset"}
    BY <1>0, <1>1, MainOps, Zenon
  <2>2. t = "irq" => Stmt(t).op \in {"enqueue", "doorbell", "spawn", "signal_configured", "complete",
                                     "deliver"}
    BY <1>0, <1>1, IrqOps, Zenon
  <2>. QED
    BY <1>1, <2>1, <2>2 DEF Thread
<1>3. (l = 2 /\ c = 1) \/ (l = 5 /\ c = 2)
  <2>1. (Done = 4 /\ c = 1) \/ (Done = 10 /\ c = 2)
    BY <1>0, <1>1, <1>2, ConfigureOps, Zenon
  <2>2. (Done = 4 => l = 2) /\ (Done = 10 => l = 5)
    BY <1>1, <1>2, Zenon DEF DInv, StagesInv
  <2>. QED
    BY <2>1, <2>2, Zenon
<1>. HIDE DEF c, l
<1>4. /\ device'.written = device.written /\ device'.waiting = device.waiting \cup {<<l, c>>}
      /\ device'.read = device.read /\ device'.signal = device.signal
  BY <1>0, <1>1, Zenon DEF DeviceType, DeviceFields
<1>5. StagesInv'
  <2>1. StagesInv /\ device.waiting \subseteq {<<2, 1>>, <<5, 2>>}
    BY Zenon DEF DInv, StagesInv
  <2>2. device'.waiting \subseteq {<<2, 1>>, <<5, 2>>} /\ Stmt(t).op # "enqueue"
    BY <1>1, <1>3, <1>4, <2>1
  <2>. QED
    BY <1>1, <2>1, <2>2, StagesAdvance, Zenon
<1>6. DescriptorInv'
  BY <1>1, <1>4, DescriptorKeep, Zenon DEF DInv
<1>. QED
  BY <1>5, <1>6, Zenon DEF DInv

(* Cardinality counts, as far as it is needed here.  This is a hypothesis  *)
(* of the lemmas, and shown at the end from the theorems of the library.   *)
Counts ==
  \A S \in SUBSET {<<2, 1>>, <<5, 2>>} : Cardinality(S) \in Nat /\ (Cardinality(S) > 0 => S # {})

(* A completion ends the wait that is entered under its address: the       *)
(* controller has passed that address, and so the data stage before it.    *)
LEMMA CompleteKeeps ==
  ASSUME Counts, XInv, DInv, NEW t \in Thread, CompleteControl(t)
  PROVE  DInv'
<1>0. /\ ThreadType /\ EventType /\ MainInv /\ IrqInv /\ ConfigureInv /\ DeviceType /\ EventInv
      /\ HcType
  BY Zenon DEF XInv, Types
<1>. DEFINE a == Stmt(t).arg
            found == {w \in device.waiting : w[1] = a}
            f == [c \in DOMAIN device.signal |->
                    device.signal[c] + Cardinality({w \in found : w[2] = c})]
<1>1. /\ thread[t].plan # <<>> /\ Stmt(t).op = "complete" /\ ring' = ring /\ hc' = hc
      /\ \/ thread' = Advance(t) /\ device' = device
         \/ thread' = thread /\ device' = [device EXCEPT !.signal = f, !.ended = found]
  BY Zenon DEF CompleteControl, At, Stmt
<1>2. t = "irq"
  <2>1. t = "main" => Stmt(t).op \in {"enqueue", "doorbell", "reset"}
    BY <1>0, <1>1, MainOps, Zenon
  <2>2. t = "configure" => Stmt(t).op \in {"enqueue", "doorbell", "insert_last", "await", "enable",
                                           "await_configured"}
    BY <1>0, <1>1, ConfigureOps, Zenon
  <2>. QED
    BY <1>1, <2>1, <2>2 DEF Thread
<1>3. a < hc.at["control"]
  <2>. DEFINE n == thread["irq"].dequeue
  <2>1. events[n].type = "Transfer" /\ events[n].endpoint = 1 /\ a = events[n].at
    BY <1>0, <1>1, <1>2, IrqOps, Zenon
  <2>2. n \in 1..Len(events)
    BY <1>0, <1>1, <1>2, NextStatements, Zenon DEF IrqNext
  <2>. QED
    BY <1>0, <2>1, <2>2, Zenon DEF EventInv
<1>. HIDE DEF a
<1>4. /\ device.waiting \subseteq {<<2, 1>>, <<5, 2>>}
      /\ device.signal \in [{1, 2} -> Nat]
      /\ \A b \in {1, 2} : device.signal[b] > 0 => b \in device.written
      /\ hc.at["control"] > 1 => 1 \in device.written
      /\ hc.at["control"] > 4 => 2 \in device.written
  BY Zenon DEF DInv, StagesInv, DescriptorInv
<1>5. ASSUME NEW c \in {1, 2}
      PROVE  LET S == {w \in found : w[2] = c} IN
             Cardinality(S) \in Nat /\ (Cardinality(S) > 0 => c \in device.written)
  <2>. DEFINE S == {w \in found : w[2] = c}
  <2>1. S \subseteq {<<2, 1>>, <<5, 2>>} /\ \A w \in S : w[1] = a /\ w[2] = c
    BY <1>4
  <2>2. Cardinality(S) \in Nat /\ (Cardinality(S) > 0 => S # {})
    <3>. HIDE DEF S
    <3>. QED
      BY <2>1, Zenon DEF Counts
  <2>3. CASE S = {}
    BY <2>2, <2>3, Zenon
  <2>4. CASE S # {}
    <3>. HIDE DEF S
    <3>1. PICK w \in S : w = <<2, 1>> \/ w = <<5, 2>>
      BY <2>1, <2>4
    <3>2. (c = 1 /\ a = 2) \/ (c = 2 /\ a = 5)
      BY <2>1, <3>1
    <3>3. hc.at["control"] \in Nat
      BY <1>0 DEF HcType, Ring
    <3>4. (a = 2 => hc.at["control"] > 1) /\ (a = 5 => hc.at["control"] > 4)
      BY <1>3, <3>3
    <3>5. c \in device.written
      BY <1>4, <3>2, <3>4, Zenon
    <3>. QED
      BY <2>2, <3>5, Zenon DEF S
  <2>. QED
    BY <2>3, <2>4
<1>6. /\ f \in [{1, 2} -> Nat]
      /\ \A c \in {1, 2} : f[c] > 0 => c \in device.written
  <2>1. DOMAIN device.signal = {1, 2} /\ \A c \in {1, 2} : device.signal[c] \in Nat
    BY <1>4, Zenon
  <2>. DEFINE N(c) == Cardinality({w \in found : w[2] = c})
  <2>2. \A c \in {1, 2} : N(c) \in Nat /\ (N(c) > 0 => c \in device.written)
    BY <1>5, Zenon
  <2>3. f = [c \in {1, 2} |-> device.signal[c] + N(c)]
    BY <2>1, Zenon
  <2>. HIDE DEF N, f
  <2>. QED
    BY <1>4, <2>1, <2>2, <2>3, SMTT(30)
<1>. HIDE DEF f
<1>7. /\ device'.written = device.written /\ device'.read = device.read
      /\ device'.signal = f \/ device'.signal = device.signal
      /\ device'.waiting = device.waiting
  <2>. HIDE DEF found
  <2>. QED
    BY <1>0, <1>1, Zenon DEF DeviceType, DeviceFields
<1>8. StagesInv'
  <2>1. StagesInv /\ device'.waiting \subseteq {<<2, 1>>, <<5, 2>>} /\ Stmt(t).op # "enqueue"
    BY <1>1, <1>4, <1>7, Zenon DEF DInv
  <2>2. Issued' = Issued
    BY <1>1, Zenon DEF Issued
  <2>. QED
    BY <1>1, <2>1, <2>2, StagesAdvance, StagesKeep, Zenon
<1>9. DescriptorInv'
  BY <1>1, <1>4, <1>6, <1>7, Zenon DEF DInv, DescriptorInv, DescriptorIsThere
<1>. QED
  BY <1>8, <1>9, Zenon DEF DInv
(* The controller executes the stages in order: when it has passed a data  *)
(* stage, the descriptor is there.                                         *)
LEMMA RunKeepsD ==
  ASSUME XInv, DInv, NEW r \in {"command", "control"}, Runs(r)
  PROVE  DInv'
<1>0. HcType /\ DeviceType /\ RingType
  BY Zenon DEF XInv, Types
<1>. DEFINE a == hc.at["control"]
            trb == ring[r].trb[hc.at[r]]
<1>1. /\ thread' = thread /\ ring' = ring /\ hc'.at[r] = hc.at[r] + 1
      /\ \A q \in Ring \ {r} : hc'.at[q] = hc.at[q]
      /\ device' = IF trb.type # "Data" THEN device
                   ELSE [device EXCEPT !.written = @ \cup {1 + hc.at[r] \div 3}]
      /\ hc.at[r] < RingSlots /\ trb # Blank
  BY Zenon DEF Runs, Present
<1>2. /\ device'.signal = device.signal /\ device'.read = device.read
      /\ device'.waiting = device.waiting /\ device.written \subseteq device'.written
      /\ trb.type = "Data" => 1 + hc.at[r] \div 3 \in device'.written
  <2>1. CASE trb.type # "Data"
    BY <1>1, <2>1, Zenon
  <2>2. CASE trb.type = "Data"
    <3>. DEFINE b == 1 + hc.at[r] \div 3
    <3>1. device' = [device EXCEPT !.written = @ \cup {b}]
      BY <1>1, <2>2, Zenon
    <3>. HIDE DEF b
    <3>2. /\ device'.signal = device.signal /\ device'.read = device.read
          /\ device'.waiting = device.waiting /\ device'.written = device.written \cup {b}
      BY <1>0, <3>1, Zenon DEF DeviceType, DeviceFields
    <3>. QED
      BY <3>2, Zenon DEF b
  <2>. QED
    BY <2>1, <2>2, Zenon
<1>. HIDE DEF trb
<1>3. StagesInv'
  <2>1. StagesInv /\ device'.waiting \subseteq {<<2, 1>>, <<5, 2>>}
    BY <1>2, Zenon DEF DInv, StagesInv
  <2>2. Issued' = Issued
    BY <1>1, Zenon DEF Issued
  <2>. QED
    BY <1>1, <2>1, <2>2, StagesKeep, Zenon
<1>4. CASE r = "command"
  <2>1. hc'.at["control"] = hc.at["control"]
    BY <1>1, <1>4 DEF Ring
  <2>. QED
    BY <1>2, <1>3, <2>1, DescriptorKeep, Zenon DEF DInv
<1>5. CASE r = "control"
  <2>1. a \in Nat /\ a < RingSlots /\ hc'.at["control"] = a + 1
    BY <1>0, <1>1, <1>5 DEF HcType, Ring
  <2>2. a \in {1, 4} => trb.type = "Data"
    <3>1. a \in Index
      BY <2>1, RingAssumption DEF Index
    <3>. QED
      BY <1>1, <1>5, <3>1, Zenon DEF DInv, StagesInv, ControlTrb, trb
  <2>3. (a = 1 => 1 \in device'.written) /\ (a = 4 => 2 \in device'.written)
    <3>1. 1 + 1 \div 3 = 1 /\ 1 + 4 \div 3 = 2
      OBVIOUS
    <3>. QED
      BY <1>2, <1>5, <2>2, <3>1, Zenon
  <2>4. /\ a > 1 => 1 \in device.written
        /\ a > 4 => 2 \in device.written
        /\ device.signal \in [{1, 2} -> Nat]
        /\ \A c \in {1, 2} : device.signal[c] > 0 => c \in device.written
        /\ device.read \subseteq device.written
    BY Zenon DEF DInv, DescriptorInv, DescriptorIsThere
  <2>5. (a + 1 > 1 => a = 0 \/ a = 1 \/ a > 1) /\ (a + 1 > 4 => a = 4 \/ a > 4) /\ (a = 0 => ~(a + 1 > 1))
    <3>. HIDE DEF a
    <3>. QED
      BY <2>1
  <2>6. (a + 1 > 1 => 1 \in device'.written) /\ (a + 1 > 4 => 2 \in device'.written)
    BY <1>2, <2>3, <2>4, <2>5, Zenon
  <2>. QED
    BY <1>2, <1>3, <2>1, <2>4, <2>6, Zenon DEF DInv, DescriptorInv, DescriptorIsThere
<1>. QED
  BY <1>4, <1>5

-----------------------------------------------------------------------------
(* All of it. *)

(* A step of a thread. *)
LEMMA ThreadKeepsD ==
  ASSUME Counts, XInv, DInv, NEW t \in Thread, ThreadStep(t)
  PROVE  DInv'
<1>0. /\ HcType /\ DeviceType /\ StagesInv /\ DescriptorInv
      /\ device.waiting \subseteq {<<2, 1>>, <<5, 2>>}
  BY Zenon DEF XInv, Types, DInv, StagesInv
<1>1. CASE TakeIndex(t)
  <2>1. hc' = hc /\ device' = device
    BY <1>1, Zenon DEF TakeIndex
  <2>2. DescriptorInv'
    BY <1>0, <2>1, DescriptorKeep, Zenon
  <2>. QED
    BY <1>0, <1>1, <2>2, StagesTake, Zenon DEF DInv
<1>2. CASE WriteTrb(t)
  <2>1. hc' = hc /\ (device' = device \/ device' = [device EXCEPT !.offset = @ + 1])
    BY <1>2, Zenon DEF WriteTrb
  <2>2. /\ device'.waiting = device.waiting /\ device'.signal = device.signal
        /\ device'.read = device.read /\ device'.written = device.written
    BY <1>0, <2>1, Zenon DEF DeviceType, DeviceFields
  <2>3. DescriptorInv'
    BY <1>0, <2>1, <2>2, DescriptorKeep, Zenon
  <2>4. device'.waiting \subseteq {<<2, 1>>, <<5, 2>>}
    BY <1>0, <2>2, Zenon
  <2>. QED
    BY <1>0, <1>2, <2>3, <2>4, StagesWrite, Zenon DEF DInv
<1>3. CASE RingBell(t) \/ ResetPorts(t) \/ ConfigureStep(t) \/ Deliver(t)
  <2>1. /\ thread[t].plan # <<>> /\ thread' = Advance(t) /\ ring' = ring
        /\ Stmt(t).op \in {"doorbell", "reset", "enable", "signal_configured", "await_configured",
                           "deliver"}
    BY <1>3, Zenon DEF RingBell, ResetPorts, ConfigureStep, Deliver, At, Stmt, usb
  <2>2. \/ hc' = hc \/ hc' = [hc EXCEPT !.bell = @ \cup {Stmt(t).ring}]
        \/ hc' = [hc EXCEPT !.reset = TRUE]
    BY <1>3, Zenon DEF RingBell, ResetPorts, ConfigureStep, Deliver, usb
  <2>3. hc'.at = hc.at
    BY <1>0, <2>2, Zenon DEF HcType
  <2>4. \/ device' = device \/ device' = [device EXCEPT !.enabled = TRUE]
        \/ device' = [device EXCEPT !.configure = @ + 1]
        \/ device' = [device EXCEPT !.configure = @ - 1, !.configured = TRUE]
    BY <1>3, Zenon DEF RingBell, ResetPorts, ConfigureStep, Deliver, usb
  <2>5. /\ device'.waiting = device.waiting /\ device'.signal = device.signal
        /\ device'.read = device.read /\ device'.written = device.written
    BY <1>0, <2>4, Zenon DEF DeviceType, DeviceFields
  <2>6. DescriptorInv'
    BY <1>0, <2>3, <2>5, DescriptorKeep, Zenon
  <2>7. device'.waiting \subseteq {<<2, 1>>, <<5, 2>>} /\ Stmt(t).op # "enqueue"
    BY <1>0, <2>1, <2>5, Zenon
  <2>. QED
    BY <1>0, <2>1, <2>6, <2>7, StagesAdvance, Zenon DEF DInv
<1>4. CASE SpawnConfigure(t)
  <2>1. hc' = hc /\ device' = device
    BY <1>4, Zenon DEF SpawnConfigure, usb
  <2>2. DescriptorInv'
    BY <1>0, <2>1, DescriptorKeep, Zenon
  <2>. QED
    BY <1>0, <1>4, <2>2, StagesSpawn, Zenon DEF DInv
<1>5. CASE InsertSemaphore(t) \/ Await(t) \/ CompleteControl(t)
  BY <1>5, InsertKeeps, AwaitKeeps, CompleteKeeps, Zenon
<1>6. CASE DeleteSemaphore(t)
  <2>1. /\ thread[t].plan # <<>> /\ Stmt(t).op = "complete" /\ thread' = Advance(t) /\ ring' = ring
        /\ hc' = hc
        /\ device' = [device EXCEPT !.waiting = @ \ device.ended, !.ended = {}]
    BY <1>6, Zenon DEF DeleteSemaphore, At, Stmt
  <2>2. /\ device'.waiting = device.waiting \ device.ended /\ device'.signal = device.signal
        /\ device'.read = device.read /\ device'.written = device.written
    BY <1>0, <2>1, Zenon DEF DeviceType, DeviceFields
  <2>3. DescriptorInv'
    BY <1>0, <2>1, <2>2, DescriptorKeep, Zenon
  <2>4. device'.waiting \subseteq {<<2, 1>>, <<5, 2>>} /\ Stmt(t).op # "enqueue"
    BY <1>0, <2>1, <2>2, Zenon
  <2>. QED
    BY <1>0, <2>1, <2>3, <2>4, StagesAdvance, Zenon DEF DInv
<1>. QED
  BY <1>1, <1>2, <1>3, <1>4, <1>5, <1>6, Zenon DEF ThreadStep

(* Every step preserves it. *)
LEMMA DInvStep ==
  ASSUME Counts, XInv, DInv, [Next]_vars
  PROVE  DInv'
<1>0. /\ HcType /\ DeviceType /\ ThreadType /\ StagesInv /\ DescriptorInv
      /\ device.waiting \subseteq {<<2, 1>>, <<5, 2>>}
      /\ "main" \in Thread /\ "irq" \in Thread /\ "configure" \in Thread
  BY Zenon DEF XInv, Types, DInv, StagesInv, Thread
<1>1. CASE ThreadStep("main") \/ ThreadStep("configure") \/ ThreadStep("irq")
  BY <1>0, <1>1, ThreadKeepsD, Zenon
<1>2. ASSUME ring' = ring, thread'["configure"] = thread["configure"],
             hc'.at["control"] = hc.at["control"],
             device'.waiting = device.waiting, device'.signal = device.signal,
             device'.read = device.read, device'.written = device.written
      PROVE  DInv'
  <2>1. DescriptorInv'
    BY <1>0, <1>2, DescriptorKeep, Zenon
  <2>2. Issued' = Issued /\ device'.waiting \subseteq {<<2, 1>>, <<5, 2>>}
    BY <1>0, <1>2, Zenon DEF Issued
  <2>. QED
    BY <1>0, <1>2, <2>1, <2>2, StagesKeep, Zenon DEF DInv
<1>3. CASE PollPending \/ ReadEvent \/ ClearPending
  <2>1. ring' = ring /\ device' = device /\ (hc' = hc \/ hc' = [hc EXCEPT !.pending = FALSE])
    BY <1>3, Zenon DEF PollPending, ReadEvent, ClearPending, usb
  <2>2. hc'.at = hc.at
    BY <1>0, <2>1, Zenon DEF HcType
  <2>3. \/ \E pc \in {"poll", "drain", "clear"} : thread' = [thread EXCEPT !["irq"].loop = pc]
        \/ \E p, n : thread' = [thread EXCEPT !["irq"].plan = p, !["irq"].dequeue = n]
    <3>1. CASE PollPending \/ ClearPending
      BY <3>1, Zenon DEF PollPending, ClearPending, IrqGoto
    <3>2. CASE ReadEvent
      <4>. DEFINE n == thread["irq"].dequeue
      <4>1. \/ thread' = [thread EXCEPT !["irq"].plan = EventPlan(events[n + 1]),
                                        !["irq"].dequeue = n + 1]
            \/ thread' = IrqGoto("clear")
        BY <3>2, Zenon DEF ReadEvent
      <4>. QED
        BY <4>1, Zenon DEF IrqGoto
    <3>. QED
      BY <1>3, <3>1, <3>2, Zenon
  <2>4. thread'["configure"] = thread["configure"]
    BY <1>0, <2>3, Zenon DEF ThreadType
  <2>. QED
    BY <1>2, <2>1, <2>2, <2>4, Zenon
<1>4. CASE PortChanges
  <2>1. /\ thread' = thread /\ ring' = ring /\ device' = device
        /\ hc' = [[hc EXCEPT !.reset = FALSE] EXCEPT !.pending = TRUE]
    BY <1>4, Zenon DEF PortChanges, Post, Unserved
  <2>2. hc'.at = hc.at
    BY <1>0, <2>1, Zenon DEF HcType
  <2>. QED
    BY <1>2, <2>1, <2>2, Zenon
<1>5. ASSUME NEW r \in {"command", "control"}, RunRing(r) PROVE DInv'
  <2>1. CASE Present(r)
    BY <1>5, <2>1, Ran, RunKeepsD, Zenon
  <2>2. CASE ~Present(r)
    <3>1. /\ thread' = thread /\ ring' = ring /\ device' = device
          /\ hc' = [hc EXCEPT !.bell = @ \ {r}]
      BY <1>5, <2>2, Zenon DEF RunRing, Unserved
    <3>2. hc'.at = hc.at
      BY <1>0, <3>1, Zenon DEF HcType
    <3>. QED
      BY <1>2, <3>1, <3>2, Zenon
  <2>. QED
    BY <2>1, <2>2, Zenon
<1>6. CASE Type
  <2>. DEFINE k == ring["keyboard"].trb[hc.at["keyboard"]].buffer
              v == Head(typing)
  <2>1. /\ thread' = thread /\ ring' = ring
        /\ hc' = [[hc EXCEPT !.at["keyboard"] = @ + 1] EXCEPT !.pending = TRUE]
        /\ device' = [device EXCEPT !.buffer[k] = v]
    BY <1>6, Zenon DEF Type, Post, Unserved
  <2>. HIDE DEF k, v
  <2>2. hc'.at["control"] = hc.at["control"]
    BY <1>0, <2>1 DEF HcType, Ring
  <2>3. /\ device'.waiting = device.waiting /\ device'.signal = device.signal
        /\ device'.read = device.read /\ device'.written = device.written
    BY <1>0, <2>1, Zenon DEF DeviceType, DeviceFields
  <2>. QED
    BY <1>2, <2>1, <2>2, <2>3, Zenon
<1>8. CASE FailTyping \/ \E r \in {"command", "control"} : FailRing(r)
  <2>1. /\ thread' = thread /\ ring' = ring /\ device' = device
        /\ \/ hc' = [hc EXCEPT !.pending = TRUE]
           \/ \E b : hc' = [[hc EXCEPT !.bell = b] EXCEPT !.pending = TRUE]
    BY <1>8, Zenon DEF FailTyping, FailRing, Post, Unserved
  <2>2. hc'.at = hc.at
    BY <1>0, <2>1, Zenon DEF HcType
  <2>. QED
    BY <1>2, <2>1, <2>2, Zenon
<1>7. CASE Keyboard \/ (\E l \in Listener : RegisterListener(l)) \/ UNCHANGED vars
  <2>1. thread' = thread /\ ring' = ring /\ device' = device /\ hc' = hc
    BY <1>7, Zenon DEF Keyboard, ReceiveReport, ProcessInput, RegisterListener, vars, usb
  <2>. QED
    BY <1>2, <2>1, Zenon
<1>. QED
  BY <1>1, <1>3, <1>4, <1>5, <1>6, <1>7, <1>8, Zenon DEF Next, InterruptLoop, Controller

(* It holds at the start: nothing is written, signalled or read.           *)
LEMMA InitDInv ==
  ASSUME Init
  PROVE  DInv
<1>1. /\ thread["configure"].plan = <<>> /\ ring["control"].enqueue = 0
      /\ hc.at["control"] = 0
  BY Zenon DEF Init, Thread, Ring
<1>2. \A i \in Index : ControlTrb(i) = Blank
  BY Zenon DEF Init, ControlTrb, Ring, Index
<1>3. /\ device.waiting = {} /\ device.read = {} /\ device.signal = [c \in {1, 2} |-> 0]
  BY Zenon DEF Init, DeviceSlot
<1>4. StagesInv
  BY <1>1, <1>2, <1>3, Zenon DEF StagesInv
<1>5. DescriptorInv
  BY <1>1, <1>3 DEF DescriptorInv, DescriptorIsThere
<1>. QED
  BY <1>4, <1>5, Zenon DEF DInv

-----------------------------------------------------------------------------
(* What is shown. *)

INSTANCE FiniteSetTheorems

(* A set without two different elements. *)
LEMMA AtMostOne ==
  ASSUME NEW S, \A x, y \in S : x = y
  PROVE  Cardinality(S) <= 1
<1>1. CASE S = {}
  BY <1>1, FS_EmptySet
<1>2. CASE S # {}
  <2>1. PICK x : x \in S
    BY <1>2, Zenon
  <2>2. S = {x}
    BY <2>1
  <2>. QED
    BY <2>2, FS_Singleton
<1>. QED
  BY <1>1, <1>2

(* The invariant says so. *)
LEMMA XInvExclusive ==
  ASSUME XInv
  PROVE  EnqueueIsExclusive
<1>. SUFFICES ASSUME NEW r \in Ring
              PROVE  Cardinality({t \in Thread : thread[t].ptr # NoPtr /\ Stmt(t).ring = r}) <= 1
  BY Zenon DEF EnqueueIsExclusive
<1>. DEFINE S == {t \in Thread : thread[t].ptr # NoPtr /\ Stmt(t).ring = r}
<1>1. \A x, y \in S : x = y
  BY Exclusive, Zenon
<1>. HIDE DEF S
<1>2. Cardinality(S) <= 1
  BY <1>1, AtMostOne, Zenon
<1>. QED
  BY <1>2, Zenon DEF S

(* Two threads of the driver are never inside EnqueueTrb for one ring: the *)
(* boot thread, the interrupt thread and the thread that configures a      *)
(* device write the command ring and the keyboard's one after the other,   *)
(* although no lock orders them.                                           *)
THEOREM RingsHaveOneWriter == Spec => []EnqueueIsExclusive
BY XInvAlways, XInvExclusive, PTL

(* A set of two is finite. *)
LEMMA PairFinite ==
  ASSUME NEW x, NEW y
  PROVE  IsFiniteSet({x, y})
<1>1. IsFiniteSet({x})
  BY FS_Singleton, Zenon
<1>2. IsFiniteSet({x} \cup {y})
  BY <1>1, FS_AddElement, Zenon
<1>3. {x} \cup {y} = {x, y}
  BY Zenon
<1>. QED
  BY <1>2, <1>3, Zenon

(* The semaphores that can be entered are at most two.                     *)
LEMMA CountsHold == Counts
<1>. SUFFICES ASSUME NEW S \in SUBSET {<<2, 1>>, <<5, 2>>}
              PROVE  Cardinality(S) \in Nat /\ (Cardinality(S) > 0 => S # {})
  BY Zenon DEF Counts
<1>1. IsFiniteSet(S)
  <2>1. IsFiniteSet({<<2, 1>>, <<5, 2>>})
    BY PairFinite, Zenon
  <2>. QED
    BY <2>1, FS_Subset, Zenon
<1>2. Cardinality(S) \in Nat
  BY <1>1, FS_CardinalityType, Zenon
<1>3. S = {} => Cardinality(S) = 0
  BY FS_EmptySet, Zenon
<1>4. ~(0 > 0)
  OBVIOUS
<1>. QED
  BY <1>2, <1>3, <1>4, Zenon

(* AwaitResult returns only when the controller has written the            *)
(* descriptor, for any timing of the controller, of the interrupt thread   *)
(* and of the thread that waits.                                           *)
THEOREM DescriptorsAreThere == Spec => []DescriptorIsThere
<1>1. Init => XInv /\ DInv
  BY InitXInv, InitDInv, Zenon
<1>2. (XInv /\ DInv) /\ [Next]_vars => (XInv /\ DInv)'
  BY CountsHold, XInvStep, DInvStep, Zenon
<1>3. DInv => DescriptorIsThere
  BY Zenon DEF DInv, DescriptorInv
<1>. QED
  BY <1>1, <1>2, <1>3, PTL DEF Spec
=============================================================================
