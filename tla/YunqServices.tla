---------------------------- MODULE YunqServices ----------------------------
(***************************************************************************)
(* The messages and the interfaces of the four system services, as the     *)
(* generated C++ has them: the fields of every message class, the number   *)
(* and the message types of every method of a client, and of every case of *)
(* a server's HandleRequest.                                               *)
(***************************************************************************)
EXTENDS YunqWire

NoMessage == <<>>

\* Messages of Yellowstone, the root service.
RegisterEndpointRequest == <<Str, Capab>>
GetEndpointRequest == <<Str>>
Endpoint == <<Capab>>
AhciInfo == <<Capab, U64>>
XhciInfo == <<Capab, U64>>
FramebufferInfo == [i \in 1..12 |-> U64]
DenaliInfo == <<Capab, U64, U64>>

\* Messages of Denali, the disk service.
DiskBlock == <<U64, U64>>
ReadRequest == <<U64, Msg(DiskBlock)>>
ReadManyRequest == <<U64, Rep(DiskBlock)>>
ReadResponse == <<U64, U64, Capab>>

\* Messages of VictoriaFalls, the file system service.
OpenFileRequest == <<Str>>
OpenFileResponse == <<Str, U64, Capab>>
GetDirectoryRequest == <<Str>>
Directory == <<Str>>

\* Messages of Voyageurs, the keyboard service.
KeyboardListener == <<Capab>>

----------------------------------------------------------------------------
(* Methods of the clients.                                                 *)

Method(n, req, resp) == [number |-> n, req |-> req, resp |-> resp]

YellowstoneClientRegisterEndpoint == Method(0, RegisterEndpointRequest, NoMessage)
YellowstoneClientGetEndpoint == Method(1, GetEndpointRequest, Endpoint)
YellowstoneClientGetAhciInfo == Method(2, NoMessage, AhciInfo)
YellowstoneClientGetXhciInfo == Method(3, NoMessage, XhciInfo)
YellowstoneClientGetFramebufferInfo == Method(4, NoMessage, FramebufferInfo)
YellowstoneClientGetDenali == Method(5, NoMessage, DenaliInfo)
DenaliClientRead == Method(0, ReadRequest, ReadResponse)
DenaliClientReadMany == Method(1, ReadManyRequest, ReadResponse)
VFSClientOpenFile == Method(0, OpenFileRequest, OpenFileResponse)
VFSClientGetDirectory == Method(1, GetDirectoryRequest, Directory)
VoyageursClientRegisterKeyboardListener == Method(0, KeyboardListener, NoMessage)

----------------------------------------------------------------------------
(* Cases of the servers: under the method number, the message type parsed  *)
(* and the one serialized.                                                 *)

YellowstoneHandleRequest ==
  [n \in 0..5 |->
     CASE n = 0 -> [req |-> RegisterEndpointRequest, resp |-> NoMessage]
       [] n = 1 -> [req |-> GetEndpointRequest, resp |-> Endpoint]
       [] n = 2 -> [req |-> NoMessage, resp |-> AhciInfo]
       [] n = 3 -> [req |-> NoMessage, resp |-> XhciInfo]
       [] n = 4 -> [req |-> NoMessage, resp |-> FramebufferInfo]
       [] n = 5 -> [req |-> NoMessage, resp |-> DenaliInfo]]

DenaliHandleRequest ==
  [n \in 0..1 |-> [req |-> IF n = 0 THEN ReadRequest ELSE ReadManyRequest,
                   resp |-> ReadResponse]]

VFSHandleRequest ==
  [n \in 0..1 |-> IF n = 0 THEN [req |-> OpenFileRequest, resp |-> OpenFileResponse]
                  ELSE [req |-> GetDirectoryRequest, resp |-> Directory]]

VoyageursHandleRequest ==
  [n \in 0..0 |-> [req |-> KeyboardListener, resp |-> NoMessage]]

HandleRequestOf ==
  [s \in {"yellowstone", "denali", "vfs", "voyageurs"} |->
     CASE s = "yellowstone" -> YellowstoneHandleRequest
       [] s = "denali" -> DenaliHandleRequest
       [] s = "vfs" -> VFSHandleRequest
       [] s = "voyageurs" -> VoyageursHandleRequest]
=============================================================================
