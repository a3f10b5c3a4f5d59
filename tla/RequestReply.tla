---------------------------- MODULE RequestReply ----------------------------
(***************************************************************************)
(* What a remote call promises: the handler sees each request once, as it  *)
(* was made, and the caller gets the answer the handler gave to it.        *)
(***************************************************************************)
CONSTANT Client

VARIABLES phase, request, seen, answer, result

rrVars == <<phase, request, seen, answer, result>>

Others(c, f) == \A d \in Client \ {c} : f'[d] = f[d]

RRInit == phase = [c \in Client |-> "idle"]

\* A caller makes any request.
Ask(c) ==
  /\ phase[c] = "idle" /\ phase' = [phase EXCEPT ![c] = "asked"]
  /\ Others(c, request) /\ UNCHANGED <<seen, answer, result>>

\* The handler sees it, and gives any answer.
Serve(c) ==
  /\ phase[c] = "asked" /\ phase' = [phase EXCEPT ![c] = "served"]
  /\ seen' = [seen EXCEPT ![c] = request[c]]
  /\ Others(c, answer) /\ UNCHANGED <<request, result>>

Return(c) ==
  /\ phase[c] = "served" /\ phase' = [phase EXCEPT ![c] = "idle"]
  /\ result' = [result EXCEPT ![c] = answer[c]]
  /\ UNCHANGED <<request, seen, answer>>

RRNext == \E c \in Client : Ask(c) \/ Serve(c) \/ Return(c)

RRSpec == RRInit /\ [][RRNext]_rrVars
=============================================================================
