------------------------------- MODULE MCYunq -------------------------------
(***************************************************************************)
(* The four services in the languages they run in, a C++ client that makes *)
(* the calls of the C++ programs and a Rust client that makes those of the *)
(* Rust programs.  The servers wait for a request; every process owns      *)
(* capabilities it may send.  Services share no state, so in a behaviour    *)
(* the clients call one of them.                                           *)
(***************************************************************************)
EXTENDS Yunq

CONSTANTS cpp, rust, yellowstone, denali, vfs, voyageurs

Services == {"yellowstone", "denali", "vfs", "voyageurs"}
Runs(sv) ==
  CASE sv = "yellowstone" -> yellowstone [] sv = "denali" -> denali
    [] sv = "vfs" -> vfs [] sv = "voyageurs" -> voyageurs
EndpointOf(sv) ==
  CASE sv = "yellowstone" -> 1 [] sv = "denali" -> 2 [] sv = "vfs" -> 3 [] sv = "voyageurs" -> 4

MCProcessOf == [t \in Thread |-> t]
MCServiceOf == [t \in Server |-> CHOOSE sv \in Services : Runs(sv) = t]
MCLangOf == [t \in Thread |-> IF t \in {rust, yellowstone} THEN "rust" ELSE "cpp"]
MCEndpointId == [t \in Thread |-> [sv \in Services |-> IF t \in Client THEN EndpointOf(sv) ELSE 1]]
MCData == {[size |-> 0, buf |-> EmptyBuffer, from |-> cpp]}

Of(sv, methods) == {[service |-> sv, method |-> m] : m \in methods}

\* What the clients call: calls of one service that can get in each other's way.
Menu(c, r) == [t \in Client |-> IF t = cpp THEN c ELSE r]
Menus ==
  {Menu(Of("yellowstone", {YellowstoneClientRegisterEndpoint, YellowstoneClientGetEndpoint}),
        Of("yellowstone", {YellowstoneClientGetEndpoint})),
   Menu(Of("yellowstone", {YellowstoneClientGetAhciInfo, YellowstoneClientGetDenali}),
        Of("yellowstone", {YellowstoneClientGetFramebufferInfo})),
   Menu(Of("yellowstone", {YellowstoneClientGetXhciInfo, Method(9, NoMessage, Endpoint)}), {}),
   Menu(Of("denali", {DenaliClientRead, DenaliClientReadMany}),
        Of("denali", {DenaliClientRead, Method(9, NoMessage, ReadResponse)})),
   Menu({}, Of("vfs", {VFSClientOpenFile, VFSClientGetDirectory})),
   Menu({}, Of("voyageurs", {VoyageursClientRegisterKeyboardListener}))}

\* Objects 1 to 4 are the endpoints; 5 to 10 are what the threads own.
Owned(t) ==
  CASE t = cpp -> 5 [] t = rust -> 6 [] t = yellowstone -> 7 [] t = denali -> 8
    [] t = vfs -> 9 [] t = voyageurs -> 10
Caps0 ==
  [i \in 1..18 |->
     [perms |-> Default, by |-> cpp,
      obj |-> CASE i <= 4 -> i [] i \in 5..8 -> i - 4 [] i \in 9..12 -> i - 8 [] OTHER -> i - 8]]

MCInit ==
  /\ kind = [o \in Obj |-> IF o <= 4 THEN "endpoint" ELSE IF o <= 10 THEN "port" ELSE "none"]
  /\ peer = [o \in Obj |-> 0] /\ queue = [o \in Obj |-> <<>>]
  /\ hasWritten = {} /\ hasRead = {} /\ driver = [i \in Irq |-> 0]
  /\ cap = Caps0
  /\ table = [t \in Process |-> [id \in Id |->
       CASE t = cpp /\ id <= 4 -> 4 + id [] t = rust /\ id <= 4 -> 8 + id
         [] t \in Client /\ id = 5 -> 8 + Owned(t)
         [] t \in Server /\ id = 1 -> EndpointOf(MCServiceOf[t])
         [] t \in Server /\ id = 2 -> 8 + Owned(t) [] OTHER -> NoCap]]
  /\ nextId = [t \in Process |-> IF t \in Client THEN 6 ELSE 3]
  /\ call = [t \in Thread |->
       LET none == NoCall([size |-> 0, buf |-> EmptyBuffer, from |-> cpp])
       IN  IF t \in Client THEN none
           ELSE [none EXCEPT !.pc = "pop", !.op = "endpoint", !.obj = EndpointOf(MCServiceOf[t]),
                             !.bytes = IF MCLangOf[t] = "cpp" THEN kBufferSize ELSE 1024,
                             !.room = IF MCLangOf[t] = "cpp" THEN kCapBufferSize ELSE 10]]
  /\ \E menu \in Menus :
       user = [t \in Thread |->
         IF t \in Client THEN NoUser(<<5>>, menu[t])
         ELSE [NoUser(<<2>>, {}) EXCEPT !.pc = "got"]]
  /\ log = [t \in Client |-> NoLog]

MCSpec == MCInit /\ [][YunqNext]_yunqVars /\ YunqFair
=============================================================================
