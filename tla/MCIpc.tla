------------------------------- MODULE MCIpc -------------------------------
(***************************************************************************)
(* Two threads of one process and one of another, that share an endpoint,  *)
(* make up to MaxCalls system calls between them; the first process also   *)
(* has a port.                                                             *)
(***************************************************************************)
EXTENDS Ipc, TLC

CONSTANTS p1, p2, t1, t2, t3, irq, MaxCalls

VARIABLE calls

MCProcessOf == [t \in Thread |-> IF t = t3 THEN p2 ELSE p1]
MCData == {[size |-> 1], [size |-> 2]}
MCIdLists == {<<>>, <<2>>, <<2, 3>>}
MCMasks == {Perms, {"read"}}

MCInit ==
  /\ kind = [o \in Obj |-> IF o = 1 THEN "endpoint" ELSE IF o = 2 THEN "port" ELSE "none"]
  /\ peer = [o \in Obj |-> 0] /\ queue = [o \in Obj |-> <<>>]
  /\ hasWritten = {} /\ hasRead = {}
  /\ cap = <<[obj |-> 1, perms |-> Default, by |-> p1],
             [obj |-> 2, perms |-> Default, by |-> p1],
             [obj |-> 1, perms |-> {"write", "duplicate", "transmit"}, by |-> p1]>>
  /\ table = [x \in Process |-> [id \in Id |->
               CASE x = p1 /\ id <= 2 -> id [] x = p2 /\ id = 1 -> 3 [] OTHER -> NoCap]]
  /\ nextId = [x \in Process |-> IF x = p1 THEN 3 ELSE 2]
  /\ driver = [i \in Irq |-> 0]
  /\ call = [t \in Thread |-> NoCall([size |-> 1])]
  /\ calls = 0

\* The calls that are tried: a receive or a send on what the id names, or on
\* an id that names nothing; a message too long only without capabilities.
KindOf(t, id) == LET c == GetCapability(t, id) IN IF c = NoCap THEN "port" ELSE kind[cap[c].obj]

SendOn(k, t, id, ids, d) ==
  \/ k = "channel" /\ ChannelSend(t, id, ids, d)
  \/ k = "port" /\ PortSend(t, id, ids, d)
  \/ k = "endpoint" /\ EndpointSend(t, id, ids, d)
  \/ k = "reply" /\ ReplyPortSend(t, id, ids, d)

RecvOn(k, t, id, bytes, room) ==
  \/ k = "channel" /\ ChannelRecv(t, id, bytes, room)
  \/ k = "port" /\ (PortPoll(t, id, bytes, room) \/ PortRecv(t, id, bytes, room))
  \/ k = "endpoint" /\ EndpointRecv(t, id, bytes, room)
  \/ k = "reply" /\ ReplyPortRecv(t, id, bytes, room)

MCCall(t) ==
  \/ EndpointCreate(t) \/ PortCreate(t) \/ ChannelCreate(t) \/ IrqRegister(t)
  \/ \E id \in Id : id < nextId[ProcessOf[t]] /\
       \/ CapRelease(t, id)
       \/ \E mask \in Masks : CapDuplicate(t, id, mask)
       \/ \E ids \in IdLists : SendOn(KindOf(t, id), t, id, ids, [size |-> 1])
       \/ PortSend(t, id, <<>>, [size |-> 2])
       \/ \E room \in Rooms : RecvOn(KindOf(t, id), t, id, 1, room)

MCNext ==
  /\ \/ \E t \in Thread : (calls < MaxCalls /\ MCCall(t)) \/ KernelStep(t)
     \/ \E i \in Irq : driver[i] # 0 /\ queue[driver[i]] = <<>> /\ IrqMessage(i, [size |-> 1])
     \/ ReleaseAll(p2)
  /\ calls' = calls + Cardinality({t \in Thread : Idle(t) /\ call'[t].pc # "dead" /\ call'[t] # call[t]})

Sym == Permutations({t1, t2})

MCSpec == MCInit /\ [][MCNext]_<<ipcVars, calls>>
=============================================================================
