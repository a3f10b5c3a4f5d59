------------------------------- MODULE Ipc -------------------------------
(***************************************************************************)
(* Capabilities and the IPC system calls: capability tables, capabilities  *)
(* that travel in messages, channels, ports, endpoints and reply ports.    *)
(*                                                                         *)
(* A system call is preempted between any two of its accesses to shared    *)
(* state, so each access is a step of its own: the look-up of the target,  *)
(* the creation of the reply port, the look-up and the release of every    *)
(* capability sent, the push, the pop, and the insertion of every          *)
(* capability received.  A table access holds the table's lock, and a push *)
(* or pop the queue's mutex (module MessageQueue opens that step up).      *)
(***************************************************************************)
EXTENDS Integers, Sequences, FiniteSets

CONSTANTS Process, Thread,
          ProcessOf,       \* the process each thread belongs to
          MaxObj, MaxCap,  \* bounds: kernel objects and capabilities made
          MaxId,           \* bound: capability ids handed out per process
          Irq,             \* interrupt numbers
          Data,            \* message bodies: records with a field "size"
          MaxBytes,        \* 0x1000, the longest message the kernel takes
          IdLists,         \* the lists of ids a caller may ask to send
          Masks,           \* the permission masks a caller may duplicate with
          Rooms            \* the sizes of a receiver's buffers

ASSUME ProcessOfType == ProcessOf \in [Thread -> Process]
ASSUME BoundsAreNat == MaxObj \in Nat /\ MaxCap \in Nat /\ MaxId \in Nat
ASSUME IdListsType == IdLists \subseteq Seq(1..MaxId)
ASSUME RoomsType == Rooms \subseteq Nat
ASSUME DataHasSize == \A d \in Data : d.size \in Nat

Obj == 1..MaxObj
Cap == 1..MaxCap
Id == 1..MaxId
NoCap == 0                 \* a null RefPtr, or no capability under an id

VARIABLES
  kind, peer,              \* per object: its type, a channel's other end
  queue, hasWritten, hasRead, \* pending messages; reply ports' flags
  cap,                     \* the Capability objects made so far; the field
                           \* "by" is history: the process it was made for
  table, nextId,           \* per process: CapabilityTable
  driver,                  \* DriverManager::driver_map_
  call                     \* per thread: the system call in progress

ipcVars ==
  <<kind, peer, queue, hasWritten, hasRead, cap, table, nextId, driver, call>>
objVars == <<kind, peer, queue, hasWritten, hasRead, driver>>

Kinds == {"none", "channel", "port", "endpoint", "reply"}
Perms == {"read", "write", "transmit", "duplicate"}

Message ==
  [data : Data, caps : Seq(Cap \cup {NoCap}), reply : Cap \cup {NoCap}]

Codes == {"OK", "CAP_NOT_FOUND", "CAP_WRONG_TYPE", "CAP_PERMISSION_DENIED",
          "UNIMPLEMENTED", "BUFFER_SIZE", "FAILED_PRECONDITION", "EMPTY",
          "ALREADY_EXISTS", "INTERNAL"}

Ops == Kinds \cup {"create", "dup", "release"}

Pcs == {"user", "reply", "translate", "release", "poll", "pop", "deliver",
        "dup", "second", "listen", "dead"}

\* What a thread in a system call holds on its kernel stack, and what the
\* call has written to the caller's request.
Call == [pc : Pcs, op : Ops, obj : Obj \cup {0}, ids : Seq(Id),
         caps : Seq(Cap \cup {NoCap}), reply : Cap \cup {NoCap},
         data : Data, bytes : Nat, room : Nat, mask : SUBSET Perms,
         port : Obj \cup {0}, got : Seq(Id), rid : Id \cup {0}, err : Codes]

----------------------------------------------------------------------------
(* Capability tables.                                                      *)

Table(t) == table[ProcessOf[t]]

GetCapability(t, id) == IF id \in Id THEN Table(t)[id] ELSE NoCap

\* The checks of a system call on the capability it is given.
ValidateCapability(c, k, perm) ==
  CASE c = NoCap -> "CAP_NOT_FOUND"
    [] c # NoCap /\ kind[cap[c].obj] # k -> "CAP_WRONG_TYPE"
    [] c # NoCap /\ kind[cap[c].obj] = k /\ perm \notin cap[c].perms
         -> "CAP_PERMISSION_DENIED"
    [] OTHER -> "OK"

\* Mutant: the lowest free id is given out again.
NextCapIdReuses(p) ==
  CHOOSE i \in 1..(MaxId + 1) :
    /\ i = MaxId + 1 \/ table[p][i] = NoCap
    /\ \A j \in 1..(i - 1) : table[p][j] # NoCap

\* next_cap_id_ only grows: an id is never given out twice.
NextCapId(p) == nextId[p]

HasRoom(p, n) == NextCapId(p) + n <= MaxId + 1

\* Mutant: next_cap_id_ is not advanced.
AddExistingCapabilityKeepsId(p, c) ==
  /\ HasRoom(p, 1)
  /\ table' = [table EXCEPT ![p][NextCapId(p)] = c]
  /\ UNCHANGED nextId

\* Insert capability c in the table of process p under its next id.
AddExistingCapability(p, c) ==
  /\ HasRoom(p, 1)
  /\ table' = [table EXCEPT ![p][NextCapId(p)] = c]
  /\ nextId' = [nextId EXCEPT ![p] = @ + 1]

ReleasesCapability(p, id) ==
  /\ table' = [table EXCEPT ![p][id] = NoCap]
  /\ UNCHANGED nextId

NewCap == Len(cap) + 1

\* Make a Capability for object o, and insert it.
AddNewCapability(p, o, perms) ==
  /\ Len(cap) < MaxCap
  /\ cap' = Append(cap, [obj |-> o, perms |-> perms, by |-> p])
  /\ AddExistingCapability(p, NewCap)

----------------------------------------------------------------------------
(* The system call in progress.                                            *)

Idle(t) == call[t].pc = "user"

Goes(t, c) == call' = [call EXCEPT ![t] = c]

Returned(c, err) ==
  [c EXCEPT !.pc = "user", !.err = err, !.ids = <<>>, !.caps = <<>>,
            !.reply = NoCap, !.obj = 0, !.port = 0]

Returns(t, err) == Goes(t, Returned(call[t], err))

Starts(t, op, pc, o) ==
  [call[t] EXCEPT !.op = op, !.pc = pc, !.obj = o, !.got = <<>>, !.rid = 0,
                  !.err = "OK"]

\* The objects that are not made yet, and the next one and the one after it.
Unmade == {o \in Obj : kind[o] = "none"}
FreshObj == CHOOSE o \in Unmade : TRUE
SecondObj == CHOOSE o \in Unmade \ {FreshObj} : TRUE

----------------------------------------------------------------------------
(* Objects and capabilities are made, duplicated and released.             *)

Default == Perms

EndpointOrPortCreate(t, k) ==
  /\ Idle(t) /\ Unmade # {}
  /\ kind' = [kind EXCEPT ![FreshObj] = k]
  /\ AddNewCapability(ProcessOf[t], FreshObj, Default)
  /\ Goes(t, [Starts(t, "create", "user", 0)
                EXCEPT !.got = <<NextCapId(ProcessOf[t])>>])
  /\ UNCHANGED <<peer, queue, hasWritten, hasRead, driver>>

EndpointCreate(t) == EndpointOrPortCreate(t, "endpoint")

PortCreate(t) == EndpointOrPortCreate(t, "port")

\* CreateChannelPair, and a capability to the first end, ...
ChannelCreate(t) ==
  LET a == FreshObj
      b == SecondObj
  IN  /\ Idle(t) /\ Unmade # {} /\ Unmade \ {a} # {}
      /\ kind' = [kind EXCEPT ![a] = "channel", ![b] = "channel"]
      /\ peer' = [peer EXCEPT ![a] = b, ![b] = a]
      /\ AddNewCapability(ProcessOf[t], a, Default)
      /\ Goes(t, [Starts(t, "create", "second", b)
                    EXCEPT !.got = <<NextCapId(ProcessOf[t])>>])
      /\ UNCHANGED <<queue, hasWritten, hasRead, driver>>

\* ... and to the second one.
ChannelCreateSecond(t) ==
  /\ call[t].pc = "second"
  /\ AddNewCapability(ProcessOf[t], call[t].obj, Default)
  /\ Goes(t, [Returned(call[t], "OK")
                EXCEPT !.got = Append(@, NextCapId(ProcessOf[t]))])
  /\ UNCHANGED objVars

\* The port and its capability are made before the registration is tried.
IrqRegister(t) ==
  /\ Idle(t) /\ Unmade # {}
  /\ kind' = [kind EXCEPT ![FreshObj] = "port"]
  /\ AddNewCapability(ProcessOf[t], FreshObj, Default)
  /\ Goes(t, [Starts(t, "create", "listen", FreshObj)
                EXCEPT !.got = <<NextCapId(ProcessOf[t])>>])
  /\ UNCHANGED <<peer, queue, hasWritten, hasRead, driver>>

\* DriverManager::RegisterListener: the first port for an interrupt stays.
RegisterListener(t, irq) ==
  /\ call[t].pc = "listen"
  /\ driver' = [driver EXCEPT ![irq] = IF @ = 0 THEN call[t].obj ELSE @]
  /\ Returns(t, IF driver[irq] = 0 THEN "OK" ELSE "ALREADY_EXISTS")
  /\ UNCHANGED <<kind, peer, queue, hasWritten, hasRead, cap, table, nextId>>

CapDuplicate(t, id, mask) ==
  LET c == GetCapability(t, id)
  IN  /\ Idle(t)
      /\ Goes(t,
           IF c = NoCap THEN Returned(Starts(t, "dup", "user", 0), "CAP_NOT_FOUND")
           ELSE IF "duplicate" \notin cap[c].perms
           THEN Returned(Starts(t, "dup", "user", 0), "CAP_PERMISSION_DENIED")
           ELSE [Starts(t, "dup", "dup", cap[c].obj)
                   EXCEPT !.mask = cap[c].perms \cap mask])
      /\ UNCHANGED <<objVars, cap, table, nextId>>

\* The look-up and the insertion each take the table's lock.
CapDuplicateAdd(t) ==
  /\ call[t].pc = "dup"
  /\ AddNewCapability(ProcessOf[t], call[t].obj, call[t].mask)
  /\ Goes(t, [Returned(call[t], "OK")
                EXCEPT !.got = <<NextCapId(ProcessOf[t])>>])
  /\ UNCHANGED objVars

CapRelease(t, id) ==
  /\ Idle(t)
  /\ ReleasesCapability(ProcessOf[t], id)
  /\ Goes(t, Returned(Starts(t, "release", "user", 0),
             IF GetCapability(t, id) = NoCap THEN "CAP_NOT_FOUND" ELSE "OK"))
  /\ UNCHANGED <<objVars, cap>>

----------------------------------------------------------------------------
(* Sending.                                                                *)

\* What the four send calls begin with: the look-up and the checks of the
\* target, on whose success the message is translated.
Send(t, k, id, ids, d) ==
  LET c == GetCapability(t, id)
      e == ValidateCapability(c, k, "write")
      s == [Starts(t, k, IF k = "endpoint" THEN "reply" ELSE "translate", 0)
              EXCEPT !.ids = ids, !.data = d, !.caps = <<>>, !.reply = NoCap]
  IN  /\ Idle(t)
      /\ Goes(t, IF e # "OK" THEN Returned(s, e)
                 ELSE [s EXCEPT !.obj = cap[c].obj])
      /\ UNCHANGED <<objVars, cap, table, nextId>>

ChannelSend(t, id, ids, d) == Send(t, "channel", id, ids, d)

PortSend(t, id, ids, d) == Send(t, "port", id, ids, d)

EndpointSend(t, id, ids, d) == Send(t, "endpoint", id, ids, d)

ReplyPortSend(t, id, ids, d) == Send(t, "reply", id, ids, d)

\* EndpointSend makes the reply port first; the caller keeps a capability to
\* read it.
MakeReplyPort(t) ==
  /\ call[t].pc = "reply" /\ Unmade # {}
  /\ kind' = [kind EXCEPT ![FreshObj] = "reply"]
  /\ AddNewCapability(ProcessOf[t], FreshObj, {"read"})
  /\ Goes(t, [call[t] EXCEPT !.pc = "translate", !.rid = NextCapId(ProcessOf[t]),
                             !.port = FreshObj])
  /\ UNCHANGED <<peer, queue, hasWritten, hasRead, driver>>

TooLong(t) == call[t].data.size > MaxBytes

\* Mutant: an id that names nothing is not refused.
TranslateGetAnything(t) ==
  LET c == GetCapability(t, Head(call[t].ids))
  IN  /\ call[t].pc = "translate" /\ ~TooLong(t) /\ call[t].ids # <<>>
      /\ IF c # NoCap /\ "transmit" \notin cap[c].perms
         THEN Returns(t, "CAP_PERMISSION_DENIED")
         ELSE Goes(t, [call[t] EXCEPT !.pc = "release"])
      /\ UNCHANGED <<objVars, cap, table, nextId>>

\* The first look at the capability to be sent next, and at its permissions.
\* A failure gives up the message and every capability already in it.
TranslateGet(t) ==
  LET c == GetCapability(t, Head(call[t].ids))
  IN  /\ call[t].pc = "translate"
      /\ \/ TooLong(t) /\ Returns(t, "UNIMPLEMENTED")
         \/ /\ ~TooLong(t) /\ call[t].ids # <<>>
            /\ IF c = NoCap THEN Returns(t, "CAP_NOT_FOUND")
               ELSE IF "transmit" \notin cap[c].perms
               THEN Returns(t, "CAP_PERMISSION_DENIED")
               ELSE Goes(t, [call[t] EXCEPT !.pc = "release"])
      /\ UNCHANGED <<objVars, cap, table, nextId>>

\* Mutant: the capability is read, not taken out of the table.
TranslateReleaseCopies(t) ==
  /\ call[t].pc = "release"
  /\ Goes(t, [call[t] EXCEPT !.pc = "translate", !.ids = Tail(@),
                !.caps = Append(@, GetCapability(t, Head(call[t].ids)))])
  /\ UNCHANGED <<objVars, cap, table, nextId>>

\* The second access: what is now under the id, if anything, is taken out
\* of the table and joins the message.
TranslateRelease(t) ==
  LET id == Head(call[t].ids)
  IN  /\ call[t].pc = "release"
      /\ ReleasesCapability(ProcessOf[t], id)
      /\ Goes(t, [call[t] EXCEPT !.pc = "translate", !.ids = Tail(@),
                                 !.caps = Append(@, GetCapability(t, id))])
      /\ UNCHANGED <<objVars, cap>>

SendQueue(o) == IF kind[o] = "channel" THEN peer[o] ELSE o

\* IpcObject::Send.  A message to an endpoint carries a capability to write
\* the reply port; a reply port takes one message in its life.
PushBack(t) ==
  LET q == SendQueue(call[t].obj)
      asks == call[t].op = "endpoint"
      m == [data |-> call[t].data, caps |-> call[t].caps,
            reply |-> IF asks THEN NewCap ELSE NoCap]
  IN  /\ call[t].pc = "translate" /\ ~TooLong(t) /\ call[t].ids = <<>>
      /\ asks => Len(cap) < MaxCap
      /\ cap' = IF asks THEN Append(cap, [obj |-> call[t].port, by |-> ProcessOf[t],
                                          perms |-> {"write", "transmit"}])
                ELSE cap
      /\ IF kind[q] = "reply" /\ q \in hasWritten
         THEN /\ Returns(t, "FAILED_PRECONDITION")
              /\ UNCHANGED <<queue, hasWritten>>
         ELSE /\ Returns(t, "OK")
              /\ queue' = [queue EXCEPT ![q] = Append(@, m)]
              /\ hasWritten' = hasWritten \cup ({q} \cap {o \in Obj : kind[o] = "reply"})
      /\ UNCHANGED <<kind, peer, hasRead, driver, table, nextId>>

----------------------------------------------------------------------------
(* Receiving.                                                              *)

\* What the receive calls begin with.
Recv(t, k, id, bytes, room, poll) ==
  LET c == GetCapability(t, id)
      e == ValidateCapability(c, k, "read")
      s == [Starts(t, k, IF poll THEN "poll" ELSE "pop", 0)
              EXCEPT !.bytes = bytes, !.room = room]
  IN  /\ Idle(t)
      /\ Goes(t, IF e # "OK" THEN Returned(s, e)
                 ELSE [s EXCEPT !.obj = cap[c].obj])
      /\ UNCHANGED <<objVars, cap, table, nextId>>

ChannelRecv(t, id, bytes, room) == Recv(t, "channel", id, bytes, room, FALSE)

PortRecv(t, id, bytes, room) == Recv(t, "port", id, bytes, room, FALSE)

PortPoll(t, id, bytes, room) == Recv(t, "port", id, bytes, room, TRUE)

EndpointRecv(t, id, bytes, room) == Recv(t, "endpoint", id, bytes, room, FALSE)

ReplyPortRecv(t, id, bytes, room) == Recv(t, "reply", id, bytes, room, FALSE)

\* PortPoll's own check; the pop that follows may still block.
PollCheck(t) ==
  /\ call[t].pc = "poll"
  /\ IF queue[call[t].obj] = <<>> THEN Returns(t, "EMPTY")
     ELSE Goes(t, [call[t] EXCEPT !.pc = "pop"])
  /\ UNCHANGED <<objVars, cap, table, nextId>>

\* PopFront of both queues: wait for a message; one that does not fit the
\* caller's buffers stays; a reply port is read once.
PopFront(t) ==
  LET o == call[t].obj
      m == Head(queue[o])
      again == o \in hasRead
  IN  /\ call[t].pc = "pop"
      /\ IF kind[o] = "reply" THEN o \in hasWritten ELSE queue[o] # <<>>
      /\ IF again
         THEN Returns(t, "FAILED_PRECONDITION") /\ UNCHANGED <<queue, hasRead>>
         ELSE IF m.data.size > call[t].bytes \/ Len(m.caps) > call[t].room
         THEN Returns(t, "BUFFER_SIZE") /\ UNCHANGED <<queue, hasRead>>
         ELSE /\ queue' = [queue EXCEPT ![o] = Tail(@)]
              /\ hasRead' = IF kind[o] = "reply" THEN hasRead \cup {o} ELSE hasRead
              /\ Goes(t, [call[t] EXCEPT !.pc = "deliver", !.data = m.data,
                                         !.caps = m.caps, !.reply = m.reply])
      /\ UNCHANGED <<kind, peer, hasWritten, driver, cap, table, nextId>>

\* TranslateIpcMessageToResponse: the capabilities of the message enter the
\* caller's table one by one.
Deliver(t) ==
  /\ call[t].pc = "deliver" /\ call[t].caps # <<>>
  /\ AddExistingCapability(ProcessOf[t], Head(call[t].caps))
  /\ Goes(t, [call[t] EXCEPT !.caps = Tail(@),
                             !.got = Append(@, NextCapId(ProcessOf[t]))])
  /\ UNCHANGED <<objVars, cap>>

\* ... and, of an endpoint, the capability to write the reply port.
DeliverReply(t) ==
  /\ call[t].pc = "deliver" /\ call[t].caps = <<>>
  /\ IF call[t].op = "endpoint" /\ call[t].reply = NoCap
     THEN Returns(t, "INTERNAL") /\ UNCHANGED <<table, nextId>>
     ELSE IF call[t].op = "endpoint"
     THEN /\ AddExistingCapability(ProcessOf[t], call[t].reply)
          /\ Goes(t, [Returned(call[t], "OK")
                        EXCEPT !.rid = NextCapId(ProcessOf[t])])
     ELSE Returns(t, "OK") /\ UNCHANGED <<table, nextId>>
  /\ UNCHANGED <<objVars, cap>>

\* DriverManager::WriteMessage, from the interrupt handler: an empty message
\* to the port registered for the interrupt, if one is.
IrqMessage(irq, d) ==
  /\ driver[irq] # 0
  /\ queue' = [queue EXCEPT ![driver[irq]] =
                 Append(@, [data |-> d, caps |-> <<>>, reply |-> NoCap])]
  /\ UNCHANGED <<kind, peer, hasWritten, hasRead, driver, cap, table, nextId, call>>

\* Process::Exit and the clean-up: the threads stop where they are, and the
\* table is emptied; what a thread held on its stack is never put back.
ReleaseAll(p) ==
  /\ \E t \in Thread : ProcessOf[t] = p /\ call[t].pc # "dead"
  /\ call' = [t \in Thread |-> IF ProcessOf[t] = p
                               THEN [call[t] EXCEPT !.pc = "dead"] ELSE call[t]]
  /\ table' = [table EXCEPT ![p] = [id \in Id |-> NoCap]]
  /\ UNCHANGED <<objVars, cap, nextId>>

KernelStep(t) ==
  \/ MakeReplyPort(t) \/ TranslateGet(t) \/ TranslateRelease(t) \/ PushBack(t)
  \/ PollCheck(t) \/ PopFront(t) \/ Deliver(t) \/ DeliverReply(t)
  \/ CapDuplicateAdd(t) \/ ChannelCreateSecond(t)
  \/ \E irq \in Irq : RegisterListener(t, irq)

\* The calls a thread of a process may make.
SystemCall(t) ==
  \/ EndpointCreate(t) \/ PortCreate(t) \/ ChannelCreate(t) \/ IrqRegister(t)
  \/ \E id \in Id : CapRelease(t, id) \/ \E mask \in Masks : CapDuplicate(t, id, mask)
  \/ \E id \in Id, ids \in IdLists, d \in Data :
       \/ ChannelSend(t, id, ids, d) \/ PortSend(t, id, ids, d)
       \/ EndpointSend(t, id, ids, d) \/ ReplyPortSend(t, id, ids, d)
  \/ \E id \in Id, bytes \in Rooms, room \in Rooms :
       \/ ChannelRecv(t, id, bytes, room) \/ PortRecv(t, id, bytes, room)
       \/ PortPoll(t, id, bytes, room) \/ EndpointRecv(t, id, bytes, room)
       \/ ReplyPortRecv(t, id, bytes, room)

Next ==
  \/ \E t \in Thread : SystemCall(t) \/ KernelStep(t)
  \/ \E irq \in Irq, d \in Data : IrqMessage(irq, d)
  \/ \E p \in Process : ReleaseAll(p)

NoCall(d) ==
  [pc |-> "user", op |-> "none", obj |-> 0, ids |-> <<>>, caps |-> <<>>,
   reply |-> NoCap, data |-> d, bytes |-> 0, room |-> 0, mask |-> {},
   port |-> 0, got |-> <<>>, rid |-> 0, err |-> "OK"]

Init ==
  /\ kind = [o \in Obj |-> "none"] /\ peer = [o \in Obj |-> 0]
  /\ queue = [o \in Obj |-> <<>>] /\ hasWritten = {} /\ hasRead = {}
  /\ cap = <<>>
  /\ table = [p \in Process |-> [id \in Id |-> NoCap]]
  /\ nextId = [p \in Process |-> 1]
  /\ driver = [i \in Irq |-> 0]
  /\ \E d \in Data : call = [t \in Thread |-> NoCall(d)]

Spec == Init /\ [][Next]_ipcVars

----------------------------------------------------------------------------
(* Properties.                                                             *)

\* The type of every variable: ids handed out are below next_cap_id_.
IpcTypeOK ==
  /\ kind \in [Obj -> Kinds] /\ peer \in [Obj -> Obj \cup {0}]
  /\ queue \in [Obj -> Seq(Message)]
  /\ hasWritten \subseteq Obj /\ hasRead \subseteq hasWritten
  /\ cap \in Seq([obj : Obj, perms : SUBSET Perms, by : Process])
  /\ Len(cap) <= MaxCap
  /\ table \in [Process -> [Id -> 0..Len(cap)]]
  /\ nextId \in [Process -> Nat \ {0}]
  /\ \A p \in Process, id \in Id : id >= nextId[p] => table[p][id] = NoCap
  /\ driver \in [Irq -> Obj \cup {0}]
  /\ call \in [Thread -> Call]

\* Where capability c is: table entries, messages that are queued, messages
\* that a thread is building or delivering.
Slots(m, c) == {j \in 0..Len(m.caps) : c = IF j = 0 THEN m.reply ELSE m.caps[j]}

InTables(c) ==
  {<<"table", x>> : x \in {y \in Process \X Id : table[y[1]][y[2]] = c}}

InQueues(c) ==
  UNION {UNION {{<<"queue", o, i, j>> : j \in Slots(queue[o][i], c)}
                 : i \in DOMAIN queue[o]} : o \in Obj}

OnStacks(c) ==
  UNION {{<<"stack", t, j>> : j \in Slots(call[t], c)} : t \in Thread}

Places(c) == InTables(c) \cup InQueues(c) \cup OnStacks(c)

\* A Capability object is never in two places: sending moves it.  Two threads
\* that send the same id at once, a release between the look-up and the
\* removal (the race ipc.cpp's FIXME names), a failed send and a message that
\* does not fit may lose a capability but never copy it.
CapabilityInOnePlace == \A c \in 1..Len(cap) : Cardinality(Places(c)) <= 1

CanTravel(c) == c # NoCap => "transmit" \in cap[c].perms

\* TranslateRequestToIpcMessage checks Transmit in one access to the table
\* and removes the capability in another.  What travels can still be
\* transmitted, and a capability without Transmit (the one to read a reply
\* port) is in the table of the process it was made for and nowhere else,
\* because an id is never given out again.
UntransmittableStays ==
  /\ \A o \in Obj : \A i \in 1..Len(queue[o]) :
       /\ CanTravel(queue[o][i].reply)
       /\ \A j \in 1..Len(queue[o][i].caps) : CanTravel(queue[o][i].caps[j])
  /\ \A t \in Thread :
       /\ CanTravel(call[t].reply)
       /\ \A j \in 1..Len(call[t].caps) : CanTravel(call[t].caps[j])
  /\ \A p \in Process, id \in Id :
       table[p][id] # NoCap =>
         CanTravel(table[p][id]) \/ cap[table[p][id]].by = p

Alone(t) == \A u \in Thread : ProcessOf[u] = ProcessOf[t] => u = t

\* The null capability that the race can put in a message needs a second
\* thread of the same process: a thread that is alone in its process sends
\* every capability it names.
LoneSenderSendsAll ==
  \A t \in Thread :
    Alone(t) /\ call[t].pc \in {"translate", "release"} =>
      \A j \in 1..Len(call[t].caps) : call[t].caps[j] # NoCap
=============================================================================
