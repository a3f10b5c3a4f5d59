-------------------------------- MODULE Yunq --------------------------------
(***************************************************************************)
(* Remote calls: the generated client and server code over the kernel's    *)
(* endpoints and reply ports (module Ipc) in the wire format of YunqWire.  *)
(* A client serializes a request, sends it, waits on the reply port and    *)
(* parses the answer out of the same buffer; a server receives, dispatches *)
(* on the method number and replies.  What a handler does is left open: it *)
(* answers with a message of the method's type, or with an error.          *)
(***************************************************************************)
EXTENDS Ipc, YunqServices
LOCAL INSTANCE Folds
LOCAL INSTANCE Functions

CONSTANTS Client, Server,  \* threads
          ServiceOf,       \* the service a server thread runs
          LangOf,          \* "cpp" or "rust", per thread
          EndpointId,      \* per thread and service: the id of the endpoint
          MaxRpc           \* bound: calls of all clients together

VARIABLES user,            \* per thread: the user code's state, and the calls
                           \* it may make
          log              \* history, per client: request, seen, answer, result

yunqVars == <<ipcVars, user, log>>

kSentinel == 48879         \* stands for 0xBEEFDEAD, which is beyond TLC's integers
kBufferSize == 4096        \* of clients, and of a C++ server
kCapBufferSize == 16

Code == [OK |-> 0, INVALID_ARGUMENT |-> 1, NOT_FOUND |-> 2,
         UNIMPLEMENTED |-> 257, INVALID_RESPONSE |-> 259]

\* A message with its capabilities replaced by the objects they name.
ObjectAt(t, id) ==
  LET c == GetCapability(t, id) IN IF c = NoCap THEN 0 ELSE cap[c].obj

InObjects(t, type, m) ==
  [i \in DOMAIN m |-> IF type[i].t = "cap" THEN ObjectAt(t, m[i]) ELSE m[i]]

\* A sample of a message type, whose capabilities are taken from ids.
Sample(type, ids, n) ==
  [i \in DOMAIN type |->
     CASE type[i].t = "u64" -> 10 + i
       [] type[i].t = "string" -> [len |-> n, id |-> IF n = 0 THEN 0 ELSE 7]
       [] type[i].t = "cap" -> Head(ids)
       [] type[i].t = "msg" -> <<3, 4>>
       [] type[i].t = "rep" -> [j \in 1..n |-> <<j, 4>>]]

\* The lengths of strings and lists a sample is tried with.
Lengths(type) == IF \E i \in DOMAIN type : type[i].t \in {"string", "rep"} THEN {0, 2} ELSE {2}

HasCap(type) == \E i \in DOMAIN type : type[i].t = "cap"

----------------------------------------------------------------------------
(* The request header: the sentinel, the total length, and the method      *)
(* number of a request or the code of a response.                          *)

Header(buf, n, word) ==
  WriteAt(WriteAt(WriteAt(buf, 0, 4, kSentinel), 4, 4, n), 8, 8, word)

\* A request or a response of the given type behind its header.
Packet(lang, type, m, buf, word) ==
  LET s == IF type = NoMessage THEN [buf |-> buf, caps |-> <<>>, len |-> 0]
           ELSE Serialize(lang, type, m, buf, 16)
  IN  [buf |-> Header(s.buf, 16 + s.len, word), caps |-> s.caps, len |-> 16 + s.len]

\* The Rust client counts the header twice.
RequestSize(lang, n) == IF lang = "rust" THEN n + 16 ELSE n

CallsMade == FoldFunction(LAMBDA u, n : u.calls + n, 0, user)

Goto(t, pc) == user' = [user EXCEPT ![t].pc = pc]

----------------------------------------------------------------------------
(* The client.                                                             *)

ClientCall(t, k, n) ==
  LET u == user[t]
      m == Sample(k.method.req, u.ids, n)
      s == Packet(LangOf[t], k.method.req, m, u.buf, k.method.number)
  IN  /\ Idle(t) /\ u.pc = "ready" /\ CallsMade < MaxRpc
      /\ HasCap(k.method.req) => u.ids # <<>>
      /\ EndpointSend(t, EndpointId[t][k.service], s.caps,
              [size |-> RequestSize(LangOf[t], s.len), buf |-> s.buf, from |-> t])
      /\ user' = [user EXCEPT ![t] =
                    [@ EXCEPT !.pc = "sent", !.method = k.method, !.buf = s.buf,
                              !.calls = @ + 1,
                              !.ids = IF HasCap(k.method.req) THEN Tail(@) ELSE @]]
      /\ log' = [log EXCEPT ![t].request =
                   [number |-> k.method.number, msg |-> InObjects(t, k.method.req, m)],
                            ![t].phase = "asked"]

ClientRecv(t) ==
  /\ Idle(t) /\ user[t].pc = "sent" /\ call[t].err = "OK"
  /\ ReplyPortRecv(t, call[t].rid, kBufferSize,
                   IF LangOf[t] = "cpp" THEN kCapBufferSize ELSE 10)
  /\ user' = [user EXCEPT ![t].pc = "wait", ![t].rid = call[t].rid]
  /\ UNCHANGED log

\* What the client makes of its buffer when the reply is in.  C++ tests the
\* sentinel and then the code, Rust the code and then the sentinel.
Response(t, buf) ==
  LET code == At(buf, 8, 8)
      valid == At(buf, 0, 4) = kSentinel
      type == user[t].method.resp
      m == Parse(LangOf[t], type, buf, call[t].got, 16)
      fails(c) == [code |-> c, msg |-> <<>>]
      returns(msg) == [code |-> Code.OK, msg |-> msg]
  IN  CASE code # Code.OK /\ (valid \/ LangOf[t] = "rust") -> fails(code)
        [] ~valid /\ (code = Code.OK \/ LangOf[t] = "cpp") -> fails(Code.INVALID_RESPONSE)
        [] OTHER -> IF type = NoMessage THEN returns(<<>>)
                    ELSE IF m = Invalid THEN fails(Code.INVALID_ARGUMENT)
                    ELSE returns(InObjects(t, type, m))

ClientDone(t) ==
  LET buf == Overlay(user[t].buf, call[t].data.buf, call[t].data.size)
  IN  /\ Idle(t) /\ user[t].pc = "wait" /\ call[t].err = "OK"
      /\ user' = [user EXCEPT ![t].pc = IF LangOf[t] = "rust" THEN "drop" ELSE "ready",
                              ![t].buf = buf]
      /\ log' = [log EXCEPT ![t].result = Response(t, buf), ![t].phase = "idle"]
      /\ UNCHANGED ipcVars

\* A system call failed: the error is the caller's result.
ClientFails(t) ==
  /\ Idle(t) /\ user[t].pc \in {"sent", "wait"} /\ call[t].err # "OK"
  /\ Goto(t, "ready")
  /\ log' = [log EXCEPT ![t].result = [code |-> call[t].err, msg |-> <<>>],
                        ![t].phase = "idle"]
  /\ UNCHANGED ipcVars

\* Rust releases the reply port's capability when it goes out of scope; the
\* C++ client and server keep theirs.
Drop(t) ==
  /\ Idle(t) /\ user[t].pc = "drop"
  /\ CapRelease(t, user[t].rid)
  /\ Goto(t, "ready") /\ UNCHANGED log

----------------------------------------------------------------------------
(* The server.                                                             *)

ServerRecv(t) ==
  /\ Idle(t) /\ user[t].pc = "ready" /\ t \in Server
  /\ IF LangOf[t] = "cpp"
     THEN EndpointRecv(t, EndpointId[t][ServiceOf[t]], kBufferSize, kCapBufferSize)
     ELSE EndpointRecv(t, EndpointId[t][ServiceOf[t]], 1024, 10)
  /\ Goto(t, "got") /\ UNCHANGED log

\* HandleRequest: the sentinel, the switch on the method number and the parse.
\* Rust looks at the sentinel in the parse, where there is something to parse.
Dispatch(t, buf) ==
  LET n == At(buf, 8, 8)
      cases == HandleRequestOf[ServiceOf[t]]
      valid == At(buf, 0, 4) = kSentinel
      fails(c) == [code |-> c, req |-> <<>>, resp |-> <<>>, msg |-> <<>>]
      handles(msg) == [code |-> Code.OK, req |-> cases[n].req, resp |-> cases[n].resp,
                       msg |-> msg]
      m == Parse(LangOf[t], cases[n].req, buf, call[t].got, 16)
  IN  CASE LangOf[t] = "cpp" /\ ~valid -> fails(Code.INVALID_ARGUMENT)
        [] n \notin DOMAIN cases /\ (LangOf[t] = "rust" \/ valid) -> fails(Code.UNIMPLEMENTED)
        [] OTHER -> IF cases[n].req = NoMessage THEN handles(<<>>)
                    ELSE IF ~valid THEN fails(Code.INVALID_RESPONSE)
                    ELSE IF m = Invalid THEN fails(Code.INVALID_ARGUMENT)
                    ELSE handles(m)

\* The handler's result for a request that was parsed: an error, or a message
\* of the response type, with a capability the server owns.
Handlers(t, d) ==
  IF d.code # Code.OK THEN {[code |-> d.code, msg |-> <<>>]}
  ELSE {[code |-> Code.NOT_FOUND, msg |-> <<>>]}
       \cup {[code |-> Code.OK, msg |-> Sample(d.resp, user[t].ids, n)] : n \in
               IF HasCap(d.resp) /\ user[t].ids = <<>> THEN {} ELSE Lengths(d.resp)}

\* Mutant: the server answers on the reply port of the request before.
ServerHandleStalePort(t, r, d, buf) ==
  LET s == [buf |-> Header(buf, 16, r.code), caps |-> <<>>, len |-> 16]
  IN  /\ ReplyPortSend(t, user[t].rid, s.caps, [size |-> s.len, buf |-> s.buf, from |-> t])
      /\ user' = [user EXCEPT ![t].pc = "replied", ![t].rid = call[t].rid]
      /\ UNCHANGED log

ServerHandle(t, r, d, buf) ==
  LET c == call[t].data.from
      old == IF LangOf[t] = "cpp" THEN user[t].out ELSE buf
      s == IF r.code = Code.OK
           THEN Packet(LangOf[t], d.resp, r.msg, old, Code.OK)
           ELSE [buf |-> Header(old, 16, r.code), caps |-> <<>>, len |-> 16]
  IN  /\ ReplyPortSend(t, call[t].rid, s.caps, [size |-> s.len, buf |-> s.buf, from |-> t])
      /\ user' = [user EXCEPT ![t] =
                    [@ EXCEPT !.pc = "replied", !.buf = buf, !.out = s.buf,
                              !.rid = call[t].rid,
                              !.ids = IF s.caps # <<>> THEN Tail(@) ELSE @]]
      /\ log' = [log EXCEPT ![c].phase = "served",
                   ![c].seen = [number |-> At(buf, 8, 8), msg |-> InObjects(t, d.req, d.msg)],
                   ![c].answer = [code |-> r.code, msg |-> InObjects(t, d.resp, r.msg)]]

\* Mutant: a request that fails gets no reply.
ServerServesDropsErrors(t) ==
  LET buf == Overlay(IF LangOf[t] = "cpp" THEN user[t].buf ELSE EmptyBuffer,
                     call[t].data.buf, call[t].data.size)
      d == Dispatch(t, buf)
  IN  /\ Idle(t) /\ user[t].pc = "got" /\ call[t].err = "OK"
      /\ \E r \in Handlers(t, d) :
           IF r.code = Code.OK THEN ServerHandle(t, r, d, buf)
           ELSE /\ user' = [user EXCEPT ![t].pc = "replied", ![t].rid = call[t].rid]
                /\ UNCHANGED <<ipcVars, log>>

ServerServes(t) ==
  LET buf == Overlay(IF LangOf[t] = "cpp" THEN user[t].buf ELSE EmptyBuffer,
                     call[t].data.buf, call[t].data.size)
      d == Dispatch(t, buf)
  IN  /\ Idle(t) /\ user[t].pc = "got" /\ call[t].err = "OK"
      /\ \E r \in Handlers(t, d) : ServerHandle(t, r, d, buf)

\* Back to the top of the loop.  The C++ server only logs an error; the Rust
\* server panics on one.
ServerLoops(t) ==
  /\ Idle(t)
  /\ \/ user[t].pc = "replied"
     \/ user[t].pc = "got" /\ call[t].err # "OK"
  /\ Goto(t, IF LangOf[t] = "cpp" THEN "ready"
             ELSE IF call[t].err # "OK" THEN "panic" ELSE "drop")
  /\ UNCHANGED <<ipcVars, log>>

----------------------------------------------------------------------------

NewCall(t) ==
  t \in Client /\ \E k \in user[t].menu, n \in {0, 2} :
    n \in Lengths(k.method.req) /\ ClientCall(t, k, n)

UserStep(t) ==
  \/ t \in Client /\ (ClientRecv(t) \/ ClientDone(t) \/ ClientFails(t))
  \/ t \in Server /\ (ServerRecv(t) \/ ServerServes(t) \/ ServerLoops(t))
  \/ Drop(t)

KernelRuns(t) == KernelStep(t) /\ UNCHANGED <<user, log>>

YunqNext == \E t \in Thread : NewCall(t) \/ UserStep(t) \/ KernelRuns(t)

NoLog ==
  LET none == [number |-> -1, msg |-> <<>>]
      no == [code |-> -1, msg |-> <<>>]
  IN  [phase |-> "idle", request |-> none, seen |-> none, answer |-> no, result |-> no]

NoUser(ids, menu) ==
  [pc |-> "ready", method |-> Method(0, <<>>, <<>>), calls |-> 0, rid |-> 0,
   buf |-> EmptyBuffer, out |-> EmptyBuffer, ids |-> ids,
   menu |-> menu]

\* Every thread gets the processor, in its system calls and out of them; a
\* client need not make another call.
\* UserReady is when UserStep is enabled: the second formula is
\* WF_yunqVars(UserStep(t)) in a form that is cheap to check.
UserReady(t) ==
  Idle(t) /\ user[t].pc # (IF t \in Server THEN "panic" ELSE "ready")

YunqFair ==
  \A t \in Thread :
    /\ WF_yunqVars(KernelRuns(t))
    /\ []<>~UserReady(t) \/ []<><<UserStep(t)>>_yunqVars

----------------------------------------------------------------------------
(* Properties.                                                             *)

Calls_ == INSTANCE RequestReply WITH
  phase <- [c \in Client |-> log[c].phase],
  request <- [c \in Client |-> log[c].request],
  seen <- [c \in Client |-> log[c].seen],
  answer <- [c \in Client |-> log[c].answer],
  result <- [c \in Client |-> log[c].result]

\* The generated code implements the remote call: across the wire format,
\* the renumbering of capabilities by the kernel, buffers that still hold an
\* older message and replies to several clients, the handler sees the request
\* its client made, with capabilities for the same objects, once, and that
\* client gets the answer given to it.
ImplementsCalls == Calls_!RRSpec

\* Every call returns: no request or reply is left behind, whatever the other
\* clients do.
CallReturns == \A c \in Client : log[c].phase # "idle" ~> log[c].phase = "idle"

\* A reply port is written by the server that got the request and read by the
\* client that made it: no client ever sees a second reader or an early
\* reply, and no server fails to reply (a Rust server would panic).
RepliesSucceed ==
  \A t \in Thread :
    /\ user[t].pc \in {"sent", "wait", "replied", "drop"} => call[t].err = "OK"
    /\ user[t].pc # "panic"
=============================================================================
