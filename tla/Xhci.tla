-------------------------------- MODULE Xhci --------------------------------
(***************************************************************************)
(* The USB service Voyageurs: the xHCI driver with its boot thread, its    *)
(* interrupt thread and the thread that configures a device, the keyboard  *)
(* thread, and the host controller.                                        *)
(*                                                                         *)
(* The threads share the rings, the semaphore table of a device and the    *)
(* list of keyboard listeners without a lock.  What a thread still has to  *)
(* do is its plan, a sequence of the statements that touch shared state:   *)
(* each of them is a step of its own, EnqueueTrb is two.                   *)
(*                                                                         *)
(* One keyboard is plugged in when the system starts (the driver assigns   *)
(* every device to the same root port), and is never unplugged.            *)
(***************************************************************************)
EXTENDS Integers, FiniteSets, Sequences

CONSTANTS RingSlots,   \* TRBs in a ring, 256 in the code; the last one is the link
          Prefill,     \* transfers an endpoint starts with, 10 in the code
          MaxFailures, \* commands and transfers that may fail
          Listener,    \* programs that register for key presses
          Typing       \* the sequences of key reports the user may produce

ASSUME RingAssumption ==
  /\ RingSlots \in Nat \ {0, 1}
  /\ Prefill \in 1..(RingSlots - 2)

VARIABLES thread,   \* what each thread has still to do
          ring,     \* command ring, control endpoint's ring, keyboard's ring
          hc,       \* the host controller
          events,   \* the event ring: what the controller has written so far
          device,   \* the DeviceSlot: semaphores, and the receive buffer
          crashed,  \* crash() has ended the process
          port,     \* messages at the keyboard driver's port
          kbd,      \* the keyboard thread
          heard,    \* listeners_, and what each of them received
          typing,   \* the reports still to come
          reports,  \* history: the reports the device has delivered
          skipped   \* history: completions that found no semaphore

usb == <<ring, hc, events, device, crashed>>
keys == <<port, kbd, heard>>
history == <<typing, reports, skipped>>
vars == <<thread, usb, keys, history>>

Ring == {"command", "control", "keyboard"}
Thread == {"main", "irq", "configure"}
Blank == [type |-> "Blank", buffer |-> 0]
NoPtr == -1

----------------------------------------------------------------------------
(* The statements of a plan.                                               *)

Do(op) == [op |-> op, ring |-> "command", type |-> "Blank", arg |-> 0]
EnqueueTrb(r, type) == [Do("enqueue") EXCEPT !.ring = r, !.type = type]
RingDoorbell(r) == [Do("doorbell") EXCEPT !.ring = r]

\* IssueCommand.
IssueCommand(type) == <<EnqueueTrb("command", type), RingDoorbell("command")>>

NoOpCommand == IssueCommand("NoOp")

\* InitiateDriver, from the started interrupt thread on: a no-op command, then
\* the reset of the ports with a device.
InitiateDriver == NoOpCommand \o <<Do("reset")>>

\* Mutant: the semaphore is entered under the address of the first TRB.
ExecuteReadControlCommandFirst(c) ==
  <<EnqueueTrb("control", "Setup"), [Do("insert_last") EXCEPT !.arg = c],
    EnqueueTrb("control", "Data"), EnqueueTrb("control", "Status"),
    RingDoorbell("control")>>

\* The three stages of a control transfer are enqueued and the doorbell is
\* rung; then the semaphore is entered under the address of the last TRB.
ExecuteReadControlCommand(c) ==
  <<EnqueueTrb("control", "Setup"), EnqueueTrb("control", "Data"),
    EnqueueTrb("control", "Status"), RingDoorbell("control"),
    [Do("insert_last") EXCEPT !.arg = c]>>

AwaitResult(c) == <<[Do("await") EXCEPT !.arg = c]>>

\* Endpoint::Initialize: the endpoint is enabled and given its transfers.
InitializeEndpoint ==
  <<Do("enable")>> \o [i \in 1..Prefill |-> EnqueueTrb("keyboard", "Normal")]

\* Mutant: the command is issued before the endpoint is set up.
IssueConfigureDeviceCommandFirst ==
  IssueCommand("ConfigureEndpoint") \o InitializeEndpoint

IssueConfigureDeviceCommand ==
  InitializeEndpoint \o IssueCommand("ConfigureEndpoint")

\* configure_device reads the device and the configuration descriptor, one
\* after the other, then configures the device and waits for it.
ConfigureDevice ==
  ExecuteReadControlCommand(1) \o AwaitResult(1)
    \o ExecuteReadControlCommand(2) \o AwaitResult(2)
    \o IssueConfigureDeviceCommand \o <<Do("await_configured")>>

\* The structures of the slot are made (see DeviceSlot), then the device is
\* given its address.
InitializeSlot == IssueCommand("AddressDevice")

\* Mutant: the end of a configuration is not passed on.
HandleCommandCompletionSilent(type) ==
  CASE type = "EnableSlot" -> InitializeSlot
    [] type = "AddressDevice" -> <<Do("spawn")>>
    [] OTHER -> <<>>

\* HandleCommandCompletion, by the type of the command that is complete: an
\* enabled slot is addressed, an addressed device is configured by a thread of
\* its own, which is told when that is done.
HandleCommandCompletion(type) ==
  CASE type = "EnableSlot" -> InitializeSlot
    [] type = "AddressDevice" -> <<Do("spawn")>>
    [] type = "ConfigureEndpoint" -> <<Do("signal_configured")>>
    [] OTHER -> <<>>

\* HandleTransferCompletion: the control endpoint's transfers end a wait, the
\* keyboard's are passed on and replaced by a new one.
HandleTransferCompletion(e) ==
  IF e.endpoint = 1 THEN <<[Do("complete") EXCEPT !.arg = e.at]>>
  ELSE IF ~device.enabled THEN <<>>
  ELSE <<[Do("deliver") EXCEPT !.arg = e.at], EnqueueTrb("keyboard", "Normal")>>

\* A transfer that failed is only logged; for a command see ReadEvent.
EventPlan(e) ==
  CASE e.type = "PortStatusChange" -> IssueCommand("EnableSlot")
    [] e.type = "CommandCompletion" ->
         HandleCommandCompletion(ring["command"].trb[e.at].type)
    [] e.type = "Transfer" -> HandleTransferCompletion(e)
    [] e.type = "Failed" -> <<>>

----------------------------------------------------------------------------
(* Executing a plan.                                                       *)

At(t, op) ==
  /\ ~crashed
  /\ thread[t].plan # <<>>
  /\ Head(thread[t].plan).op = op

Stmt(t) == Head(thread[t].plan)
Advance(t) == [thread EXCEPT ![t].plan = Tail(@)]

\* EnqueueTrb takes the next index; the ring does not wrap.
TakeIndex(t) ==
  /\ At(t, "enqueue")
  /\ thread[t].ptr = NoPtr
  /\ LET r == Stmt(t).ring
     IN  /\ ring' = [ring EXCEPT ![r].enqueue = @ + 1]
         /\ thread' = [thread EXCEPT ![t].ptr = ring[r].enqueue]
         /\ crashed' = (ring[r].enqueue + 1 = RingSlots)
  /\ UNCHANGED <<hc, events, device, keys, history>>

\* ... and writes the TRB there.  A keyboard transfer gets the next eight
\* bytes of the receive buffer.
WriteTrb(t) ==
  /\ At(t, "enqueue")
  /\ thread[t].ptr # NoPtr
  /\ LET normal == Stmt(t).type = "Normal"
         trb == [type |-> Stmt(t).type, buffer |-> IF normal THEN device.offset ELSE 0]
     IN  /\ ring' = [ring EXCEPT ![Stmt(t).ring].trb[thread[t].ptr] = trb]
         /\ device' = IF normal THEN [device EXCEPT !.offset = @ + 1] ELSE device
         /\ thread' = [Advance(t) EXCEPT ![t].last = thread[t].ptr, ![t].ptr = NoPtr]
  /\ UNCHANGED <<hc, events, crashed, keys, history>>

RingBell(t) ==
  /\ At(t, "doorbell")
  /\ hc' = [hc EXCEPT !.bell = @ \cup {Stmt(t).ring}]
  /\ thread' = Advance(t)
  /\ UNCHANGED <<ring, events, device, crashed, keys, history>>

\* InitiateDevices resets the ports; main then starts the keyboard thread and
\* the server.
ResetPorts(t) ==
  /\ At(t, "reset")
  /\ hc' = [hc EXCEPT !.reset = TRUE]
  /\ thread' = Advance(t)
  /\ kbd' = [kbd EXCEPT !.pc = "recv"]
  /\ UNCHANGED <<ring, events, device, crashed, port, heard, history>>

InsertSemaphore(t) ==
  /\ At(t, "insert_last")
  /\ device' = [device EXCEPT !.waiting = @ \cup {<<thread[t].last, Stmt(t).arg>>}]
  /\ thread' = Advance(t)
  /\ UNCHANGED <<ring, hc, events, crashed, keys, history>>

Await(t) ==
  /\ At(t, "await")
  /\ device.signal[Stmt(t).arg] > 0
  /\ device' = [device EXCEPT !.signal[Stmt(t).arg] = @ - 1, !.read = @ \cup {Stmt(t).arg}]
  /\ thread' = Advance(t)
  /\ UNCHANGED <<ring, hc, events, crashed, keys, history>>

\* DeviceSlot::TransferComplete on the control endpoint: the semaphore of the
\* transfer is signalled, if there is one.  Nobody else takes entries out, so
\* that what Contains found is still there for at.
CompleteControl(t) ==
  /\ At(t, "complete")
  /\ device.ended = {}
  /\ LET found == {w \in device.waiting : w[1] = Stmt(t).arg}
     IN  IF found = {}
         THEN /\ skipped' = skipped \cup {ring["control"].trb[Stmt(t).arg].type}
              /\ thread' = Advance(t)
              /\ UNCHANGED device
         ELSE /\ device' = [device EXCEPT
                              !.signal = [c \in DOMAIN @ |->
                                 @[c] + Cardinality({w \in found : w[2] = c})],
                              !.ended = found]
              /\ UNCHANGED <<skipped, thread>>
  /\ UNCHANGED <<ring, hc, events, crashed, keys, typing, reports>>

\* ... and only then taken out of the table: the thread that waited for it may
\* by now have entered another.
DeleteSemaphore(t) ==
  /\ At(t, "complete")
  /\ device.ended # {}
  /\ device' = [device EXCEPT !.waiting = @ \ device.ended, !.ended = {}]
  /\ thread' = Advance(t)
  /\ UNCHANGED <<ring, hc, events, crashed, keys, history>>

SpawnConfigure(t) ==
  /\ At(t, "spawn")
  /\ thread' = [Advance(t) EXCEPT !["configure"].plan = ConfigureDevice]
  /\ UNCHANGED <<usb, keys, history>>

\* The flags and the semaphore of a device that is being configured.
ConfigureStep(t) ==
  /\ \/ /\ At(t, "enable")
        /\ device' = [device EXCEPT !.enabled = TRUE]
     \/ /\ At(t, "signal_configured")
        /\ device' = [device EXCEPT !.configure = @ + 1]
     \/ /\ At(t, "await_configured")
        /\ device.configure > 0
        /\ device' = [device EXCEPT !.configure = @ - 1, !.configured = TRUE]
  /\ thread' = Advance(t)
  /\ UNCHANGED <<ring, hc, events, crashed, keys, history>>

\* Endpoint::TransferComplete passes the bytes of the transfer on.
Deliver(t) ==
  /\ At(t, "deliver")
  /\ port' = Append(port, device.buffer[Stmt(t).arg])
  /\ thread' = Advance(t)
  /\ UNCHANGED <<usb, kbd, heard, history>>

ThreadStep(t) ==
  \/ TakeIndex(t) \/ WriteTrb(t) \/ RingBell(t) \/ ResetPorts(t)
  \/ InsertSemaphore(t) \/ Await(t) \/ CompleteControl(t) \/ DeleteSemaphore(t)
  \/ SpawnConfigure(t) \/ ConfigureStep(t) \/ Deliver(t)

----------------------------------------------------------------------------
(* The interrupt loop.                                                     *)

Event(type, endpoint, at) == [type |-> type, endpoint |-> endpoint, at |-> at]

\* The completion of a command (endpoint 0) or of a transfer with a status
\* other than success.
Failed(endpoint, at) == Event("Failed", endpoint, at)

IrqAt(pc) == ~crashed /\ thread["irq"].plan = <<>> /\ thread["irq"].loop = pc
IrqGoto(pc) == [thread EXCEPT !["irq"].loop = pc]

\* The driver looks at the pending bit every now and then.
PollPending ==
  /\ IrqAt("poll")
  /\ hc.pending
  /\ thread' = IrqGoto("drain")
  /\ UNCHANGED <<usb, keys, history>>

\* The events are read until the cycle bit says that there is none left, and
\* every one is handled before the next is read.  A command that failed ends
\* the process: HandleCommandCompletion checks the status first.
ReadEvent ==
  /\ IrqAt("drain")
  /\ LET n == thread["irq"].dequeue
     IN  IF n < Len(events)
         THEN /\ thread' = [thread EXCEPT !["irq"].plan = EventPlan(events[n + 1]),
                                          !["irq"].dequeue = n + 1]
              /\ crashed' = (events[n + 1] = Failed(0, events[n + 1].at))
         ELSE thread' = IrqGoto("clear") /\ UNCHANGED crashed
  /\ UNCHANGED <<ring, hc, events, device, keys, history>>

\* Then the pending bit is cleared.
ClearPending ==
  /\ IrqAt("clear")
  /\ hc' = [hc EXCEPT !.pending = FALSE]
  /\ thread' = IrqGoto("poll")
  /\ UNCHANGED <<ring, events, device, crashed, keys, history>>

----------------------------------------------------------------------------
(* The host controller and the keyboard.                                   *)

\* The controller writes an event and sets the pending bit.
Post(h, e) ==
  /\ events' = Append(events, e)
  /\ hc' = [h EXCEPT !.pending = TRUE]

Present(r) ==
  /\ hc.at[r] < RingSlots
  /\ ring[r].trb[hc.at[r]] # Blank

Unserved == <<thread, ring, crashed, keys>>

PortChanges ==
  /\ hc.reset
  /\ Post([hc EXCEPT !.reset = FALSE], Event("PortStatusChange", 0, 0))
  /\ UNCHANGED <<Unserved, device, history>>

\* After a doorbell the controller takes TRBs from the ring until it meets one
\* whose cycle bit says that it was not written yet.
RunRing(r) ==
  /\ r \in hc.bell
  /\ IF ~Present(r)
     THEN hc' = [hc EXCEPT !.bell = @ \ {r}] /\ UNCHANGED <<events, device>>
     ELSE LET trb == ring[r].trb[hc.at[r]]
              next == [hc EXCEPT !.at[r] = @ + 1,
                                 !.enabled = @ \/ trb.type = "ConfigureEndpoint"]
              command == 1 + hc.at[r] \div 3
          IN  /\ device' = IF trb.type # "Data" THEN device
                           ELSE [device EXCEPT !.written = @ \cup {command}]
              /\ Post(next, IF r = "command" THEN Event("CommandCompletion", 0, hc.at[r])
                            ELSE Event("Transfer", 1, hc.at[r]))
  /\ UNCHANGED <<Unserved, history>>

MayFail ==
  Cardinality({n \in DOMAIN events : events[n].type = "Failed"}) < MaxFailures

\* Instead, the TRB may fail: the ring stops there until its doorbell is rung
\* again.
FailRing(r) ==
  /\ MayFail
  /\ r \in hc.bell
  /\ Present(r)
  /\ Post([hc EXCEPT !.bell = @ \ {r}], Failed(IF r = "command" THEN 0 ELSE 1, hc.at[r]))
  /\ UNCHANGED <<Unserved, device, history>>

\* The keyboard reports which keys are down whenever that changes and it has a
\* transfer to do it with.
Type ==
  /\ hc.enabled
  /\ typing # <<>>
  /\ Present("keyboard")
  /\ LET trb == ring["keyboard"].trb[hc.at["keyboard"]]
     IN  device' = [device EXCEPT !.buffer[trb.buffer] = Head(typing)]
  /\ Post([hc EXCEPT !.at["keyboard"] = @ + 1], Event("Transfer", 3, hc.at["keyboard"]))
  /\ typing' = Tail(typing)
  /\ reports' = Append(reports, Head(typing))
  /\ UNCHANGED <<Unserved, skipped>>

\* A transfer of the keyboard may fail too.  Its endpoint is then halted, and
\* there is no further report.
FailTyping ==
  /\ MayFail
  /\ hc.enabled
  /\ typing # <<>>
  /\ Present("keyboard")
  /\ Post(hc, Failed(3, hc.at["keyboard"]))
  /\ typing' = <<>>
  /\ UNCHANGED <<Unserved, device, reports, skipped>>

----------------------------------------------------------------------------
(* The keyboard thread.                                                    *)

\* 1 << code is a shift of a 32-bit int: the processor takes the count modulo
\* 32, and bit 31 is extended into the upper half of the 64-bit bitmap.
Bit(code) == IF code % 32 = 31 THEN 31..63 ELSE {code % 32}

ReceiveReport ==
  /\ ~crashed
  /\ kbd.pc = "recv"
  /\ port # <<>>
  /\ port' = Tail(port)
  /\ kbd' = [kbd EXCEPT !.pc = "keys", !.input = Head(port), !.new = {}]
  /\ UNCHANGED <<thread, usb, heard, history>>

\* Mutant: released keys stay in the bitmap.
ProcessedInputSticky ==
  [kbd EXCEPT !.pc = "recv", !.bitmap = @ \cup kbd.new]

ProcessedInput == [kbd EXCEPT !.pc = "recv", !.bitmap = kbd.new]

\* ProcessInput, one key at a time: a key that was not down in the last report
\* is sent to everyone on the list of listeners.  A code of 64 or more is only
\* logged as skipped.
ProcessInput ==
  /\ ~crashed
  /\ kbd.pc = "keys"
  /\ IF kbd.input = <<>> \/ Head(kbd.input) = 0
     THEN kbd' = ProcessedInput /\ UNCHANGED heard
     ELSE LET code == Head(kbd.input)
              down == Bit(code) \subseteq kbd.bitmap
          IN  /\ kbd' = [kbd EXCEPT !.input = Tail(@), !.new = @ \cup Bit(code),
                                    !.sent = @ + (IF down THEN 0 ELSE 1)]
              /\ heard' = IF down THEN heard
                          ELSE [l \in DOMAIN heard |->
                                 [heard[l] EXCEPT !.keys = Append(@, code)]]
  /\ UNCHANGED <<thread, usb, port, history>>

\* The server thread registers a listener for the keys from now on.  Which key
\* is the first one it can hear is noted.
RegisterListener(l) ==
  /\ ~crashed
  /\ kbd.pc # "off"
  /\ l \notin DOMAIN heard
  /\ heard' = [k \in DOMAIN heard \cup {l} |->
                 IF k = l THEN [since |-> kbd.sent, keys |-> <<>>] ELSE heard[k]]
  /\ UNCHANGED <<thread, usb, port, kbd, history>>

----------------------------------------------------------------------------

\* A slot before its device is configured: no wait is over (signal, ended),
\* nothing was received (buffer, from offset on), no descriptor was written or
\* read.
DeviceSlot ==
  [signal |-> [c \in {1, 2} |-> 0], waiting |-> {}, ended |-> {}, read |-> {}, written |-> {},
   enabled |-> FALSE, configure |-> 0, configured |-> FALSE, offset |-> 0,
   buffer |-> [i \in 0..(RingSlots - 1) |-> <<>>]]

\* The reset controller, with empty rings and no event.
Init ==
  /\ thread = [t \in Thread |->
                [plan |-> IF t = "main" THEN InitiateDriver ELSE <<>>,
                 ptr |-> NoPtr, last |-> NoPtr, loop |-> "poll", dequeue |-> 0]]
  /\ ring = [r \in Ring |-> [enqueue |-> 0, trb |-> [i \in 0..(RingSlots - 1) |-> Blank]]]
  /\ hc = [pending |-> FALSE, bell |-> {}, reset |-> FALSE, enabled |-> FALSE,
           at |-> [r \in Ring |-> 0]]
  /\ events = <<>>
  /\ device = DeviceSlot
  /\ crashed = FALSE
  /\ port = <<>>
  /\ kbd = [pc |-> "off", input |-> <<>>, bitmap |-> {}, new |-> {}, sent |-> 0]
  /\ heard = <<>>
  /\ typing \in Typing
  /\ reports = <<>>
  /\ skipped = {}

InterruptLoop == PollPending \/ ReadEvent \/ ClearPending \/ ThreadStep("irq")
Controller == PortChanges \/ \E r \in {"command", "control"} : RunRing(r)
Keyboard == ReceiveReport \/ ProcessInput

Next ==
  \/ ThreadStep("main") \/ ThreadStep("configure") \/ InterruptLoop
  \/ Controller \/ Type
  \/ FailTyping \/ \E r \in {"command", "control"} : FailRing(r)
  \/ Keyboard
  \/ \E l \in Listener : RegisterListener(l)

\* Every thread is scheduled and the controller does its work; nothing need
\* fail, the user need not type and nobody need listen.
Spec ==
  /\ Init /\ [][Next]_vars
  /\ WF_vars(ThreadStep("main")) /\ WF_vars(ThreadStep("configure"))
  /\ WF_vars(InterruptLoop)
  /\ WF_vars(Controller)
  /\ WF_vars(Keyboard)

----------------------------------------------------------------------------
(* Properties.                                                             *)

\* No two threads are inside EnqueueTrb for the same ring, although nothing
\* but the order of the boot and of the completions keeps them apart: two of
\* them could take the same index, and one of the TRBs would be lost.
EnqueueIsExclusive ==
  \A r \in Ring :
    Cardinality({t \in Thread : /\ thread[t].ptr # NoPtr
                                /\ Stmt(t).ring = r}) <= 1

\* AwaitResult returns only when the controller has written the descriptor:
\* the completions of the setup and the data stage must not end the wait, nor
\* those of the other command.
DescriptorIsThere == device.read \subseteq device.written

\* What the user typed, taken from the reports themselves: in every report the
\* keys that are not in the one before.
Typed(given) ==
  LET typed[n \in 0..Len(given)] ==
        IF n = 0 THEN <<>>
        ELSE typed[n - 1] \o SelectSeq(given[n], LAMBDA k :
               n = 1 \/ \A i \in DOMAIN given[n - 1] : given[n - 1][i] # k)
  IN  typed[Len(given)]

\* Every listener hears the keys typed since it registered, each once and in
\* order: from the report in the receive buffer over two ports and two threads,
\* while transfers are reused and listeners come.
KeysInOrder ==
  \A l \in DOMAIN heard :
    LET h == heard[l]
    IN  h.keys = SubSeq(Typed(reports), h.since + 1, h.since + Len(h.keys))

\* The interrupt thread waits for the pending bit with an event unread.
Parked ==
  /\ thread["irq"].loop = "poll"
  /\ ~hc.pending
  /\ thread["irq"].dequeue < Len(events)

\* A control transfer failed: the driver logs that and lets its thread wait.
ControlFailed ==
  \E n \in DOMAIN events : events[n].type = "Failed" /\ events[n].endpoint = 1

\* The process was ended, by a ring that is used up or by a failed command.
EndedForCause ==
  /\ crashed
  /\ \/ \E r \in Ring : ring[r].enqueue = RingSlots
     \/ \E n \in DOMAIN events : events[n].type = "Failed" /\ events[n].endpoint = 0

\* The keyboard gets configured, unless one of the two known races of the
\* driver is lost: an event is written just before the pending bit is cleared,
\* or a transfer completes before its semaphore is entered.  There is no other
\* way for the boot to hang, short of a transfer or a command that fails and of
\* typing until the ring is used up.
ConfiguredUnlessRaced ==
  <>device.configured \/ <>("Status" \in skipped) \/ <>[]Parked
    \/ <>ControlFailed \/ <>EndedForCause
============================================================================
