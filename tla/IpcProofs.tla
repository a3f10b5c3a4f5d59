----------------------------- MODULE IpcProofs -----------------------------
(***************************************************************************)
(* Proofs about Ipc for any number of processes, threads, objects and      *)
(* messages: a capability without the Transmit permission never leaves the *)
(* process it was made for; a thread that is alone in its process sends    *)
(* every capability it names, although TranslateRequestToIpcMessage looks  *)
(* at a capability and takes it out of the table in two accesses; and a    *)
(* capability is in at most one place at a time.                           *)
(*                                                                         *)
(* The state is passed to the operators below as parameters (k for cap, tb *)
(* for table, nx for nextId), so that one lemma serves for both states of  *)
(* a step.                                                                 *)
(***************************************************************************)
EXTENDS Ipc, FiniteSetTheorems, TLAPS

CapRec == [obj : Obj, perms : SUBSET Perms, by : Process]

(* The capabilities that may be on their way, the null one included. *)
Travel(k) == {c \in 0..Len(k) : c # NoCap => "transmit" \in k[c].perms}

MessageOf(k) == [data : Data, caps : Seq(Travel(k)), reply : Travel(k)]

CallOf(k) ==
  [pc : Pcs, op : Ops, obj : Obj \cup {0}, ids : Seq(Id),
   caps : Seq(Travel(k)), reply : Travel(k),
   data : Data, bytes : Nat, room : Nat, mask : SUBSET Perms,
   port : Obj \cup {0}, got : Seq(Id), rid : Id \cup {0}, err : Codes]

(* Capability c may stand in the table of process p. *)
AtHome(k, p, c) == c # NoCap => "transmit" \in k[c].perms \/ k[c].by = p

TableInv(k, tb, nx) ==
  /\ tb \in [Process -> [Id -> 0..Len(k)]]
  /\ nx \in [Process -> Nat \ {0}]
  /\ \A p \in Process, id \in Id :
       /\ id >= nx[p] => tb[p][id] = NoCap
       /\ AtHome(k, p, tb[p][id])

(* Between the two accesses what the first one saw is still under the id,  *)
(* or nothing is: nothing at all only when another thread of the process   *)
(* took it.                                                                *)
Checked(k, tb, t, c) ==
  c.pc = "release" =>
    LET id == Head(c.ids)
        now == tb[ProcessOf[t]][id]
    IN  /\ c.ids # <<>>
        /\ now \in Travel(k)
        /\ Alone(t) => now # NoCap

(* A message being built by a thread that is alone has no null capability. *)
Sending(t, c) ==
  Alone(t) /\ c.pc \in {"reply", "translate", "release"} =>
    \A j \in 1..Len(c.caps) : c.caps[j] # NoCap

(* A call that goes on with an object has one. *)
Aimed(c) ==
  /\ c.pc \in {"dup", "second", "listen", "poll", "pop"} => c.obj \in Obj
  /\ c.pc \in {"translate", "release"} /\ c.op = "endpoint" => c.port \in Obj

(* What is known of thread t in call c. *)
CallInv(k, tb, nx, t, c) ==
  /\ c \in CallOf(k)
  /\ Checked(k, tb, t, c)
  /\ c.pc = "release" => Head(c.ids) < nx[ProcessOf[t]]
  /\ Sending(t, c)
  /\ Aimed(c)

(* A reply port that was written and not yet read has its message. *)
RepliesInv ==
  /\ hasWritten \subseteq {o \in Obj : kind[o] = "reply"}
  /\ \A o \in hasWritten \ hasRead : queue[o] # <<>>

IInv ==
  /\ cap \in Seq(CapRec)
  /\ TableInv(cap, table, nextId)
  /\ queue \in [Obj -> Seq(MessageOf(cap))]
  /\ kind \in [Obj -> Kinds]
  /\ RepliesInv
  /\ call \in [Thread -> CallOf(cap)]
  /\ \A t \in Thread : CallInv(cap, table, nextId, t, call[t])

-----------------------------------------------------------------------------
(* Making capabilities. *)

Grows(k, k2) ==
  /\ k \in Seq(CapRec) /\ k2 \in Seq(CapRec)
  /\ Len(k) <= Len(k2)
  /\ \A i \in 1..Len(k) : k2[i] = k[i]

(* A new capability leaves the ones made before as they are. *)
LEMMA AppendGrows ==
  ASSUME NEW k \in Seq(CapRec), NEW r \in CapRec
  PROVE  /\ Grows(k, Append(k, r))
         /\ Len(Append(k, r)) = Len(k) + 1
         /\ Append(k, r)[Len(k) + 1] = r
  BY DEF Grows

(* A sequence over a set is one over every larger set. *)
LEMMA SeqMonotone ==
  ASSUME NEW S, NEW T, S \subseteq T, NEW s \in Seq(S)
  PROVE  s \in Seq(T)
  OBVIOUS

(* A sequence with an element appended is not empty.                       *)
LEMMA AppendNotEmpty ==
  ASSUME NEW S, NEW s \in Seq(S), NEW x \in S
  PROVE  Append(s, x) # <<>>
<1>1. Len(Append(s, x)) = Len(s) + 1 /\ Len(s) \in Nat
  OBVIOUS
<1>2. Len(<<>>) = 0
  OBVIOUS
<1>. QED
  BY <1>1, <1>2

(* What may travel keeps its right to, whatever is made later. *)
LEMMA TravelGrows ==
  ASSUME NEW k, NEW k2, Grows(k, k2)
  PROVE  /\ Travel(k) \subseteq Travel(k2)
         /\ MessageOf(k) \subseteq MessageOf(k2)
         /\ CallOf(k) \subseteq CallOf(k2)
<1>1. Travel(k) \subseteq Travel(k2)
  BY DEF Travel, Grows, CapRec, NoCap
<1>2. Seq(Travel(k)) \subseteq Seq(Travel(k2))
  BY <1>1, SeqMonotone
<1>. QED
  BY <1>1, <1>2 DEF MessageOf, CallOf

(* So do the tables, ... *)
LEMMA TableGrows ==
  ASSUME NEW k, NEW k2, Grows(k, k2), NEW tb, NEW nx, TableInv(k, tb, nx)
  PROVE  TableInv(k2, tb, nx)
<1>1. \A p \in Process, id \in Id : tb[p][id] \in 0..Len(k) /\ tb[p][id] \in 0..Len(k2)
  BY DEF TableInv, Grows
<1>2. tb \in [Process -> [Id -> 0..Len(k2)]]
  BY <1>1 DEF TableInv
<1>3. \A p \in Process, id \in Id : AtHome(k2, p, tb[p][id])
  BY <1>1 DEF TableInv, AtHome, Grows, NoCap
<1>. QED
  BY <1>2, <1>3 DEF TableInv

-----------------------------------------------------------------------------
(* The two accesses to a table. *)

(* AddExistingCapability keeps the tables: the new entry is at home, and   *)
(* stands under an id that was not given out.                              *)
LEMMA AddKeepsTable ==
  ASSUME NEW k, NEW tb, NEW nx, TableInv(k, tb, nx), NEW p \in Process,
         NEW c \in 0..Len(k), AtHome(k, p, c), nx[p] \in Id
  PROVE  TableInv(k, [tb EXCEPT ![p][nx[p]] = c], [nx EXCEPT ![p] = @ + 1])
<1>. DEFINE tb2 == [tb EXCEPT ![p][nx[p]] = c]
            nx2 == [nx EXCEPT ![p] = @ + 1]
<1>1. tb2 \in [Process -> [Id -> 0..Len(k)]]
  BY DEF TableInv
<1>2. nx2 \in [Process -> Nat \ {0}]
  BY DEF TableInv
<1>3. \A q \in Process, id \in Id :
        tb2[q][id] = IF q = p /\ id = nx[p] THEN c ELSE tb[q][id]
  BY DEF TableInv
<1>4. \A q \in Process : nx2[q] >= nx[q] /\ (q = p => nx2[q] = nx[p] + 1)
  BY DEF TableInv
<1>5. ASSUME NEW q \in Process, NEW id \in Id
      PROVE  /\ id >= nx2[q] => tb2[q][id] = NoCap
             /\ AtHome(k, q, tb2[q][id])
  BY <1>2, <1>3, <1>4 DEF TableInv, Id
<1>. QED
  BY <1>1, <1>2, <1>5 DEF TableInv

(* ReleaseCapability keeps the tables. *)
LEMMA RemoveKeepsTable ==
  ASSUME NEW k \in Seq(CapRec), NEW tb, NEW nx, TableInv(k, tb, nx), NEW p \in Process,
         NEW id \in Id
  PROVE  TableInv(k, [tb EXCEPT ![p][id] = NoCap], nx)
<1>. DEFINE tb2 == [tb EXCEPT ![p][id] = NoCap]
<1>1. tb2 \in [Process -> [Id -> 0..Len(k)]]
  BY DEF TableInv, NoCap
<1>2. \A q \in Process, i \in Id :
        tb2[q][i] = IF q = p /\ i = id THEN NoCap ELSE tb[q][i]
  BY DEF TableInv
<1>. QED
  BY <1>1, <1>2 DEF TableInv, AtHome

-----------------------------------------------------------------------------
(* What one thread knows survives what the others do. *)

(* A capability that is made changes nothing for a call in progress. *)
LEMMA CallGrows ==
  ASSUME NEW k, NEW k2, Grows(k, k2), NEW tb, NEW nx, NEW t \in Thread, NEW c,
         CallInv(k, tb, nx, t, c)
  PROVE  CallInv(k2, tb, nx, t, c)
  BY TravelGrows DEF CallInv, Checked

(* An insertion does not touch the id between the two accesses: it is      *)
(* below next_cap_id_.                                                     *)
LEMMA CallAdd ==
  ASSUME NEW k, NEW tb, NEW nx, TableInv(k, tb, nx),
         NEW p \in Process, NEW c0, NEW t \in Thread, NEW c,
         CallInv(k, tb, nx, t, c)
  PROVE  CallInv(k, [tb EXCEPT ![p][nx[p]] = c0], [nx EXCEPT ![p] = @ + 1], t, c)
<1>. DEFINE tb2 == [tb EXCEPT ![p][nx[p]] = c0]
            nx2 == [nx EXCEPT ![p] = @ + 1]
            q == ProcessOf[t]
<1>. q \in Process
  BY ProcessOfType
<1>1. CASE c.pc = "release"
  <2>1. Head(c.ids) \in Id /\ Head(c.ids) < nx[q]
    BY <1>1 DEF CallInv, Checked, CallOf
  <2>2. tb2[q][Head(c.ids)] = tb[q][Head(c.ids)]
    BY <2>1 DEF TableInv, Id
  <2>3. Head(c.ids) < nx2[q]
    BY <2>1 DEF TableInv, Id
  <2>. QED
    BY <2>2, <2>3 DEF CallInv, Checked
<1>2. CASE c.pc # "release"
  BY <1>2 DEF CallInv, Checked
<1>. QED
  BY <1>1, <1>2

(* A removal by another thread only matters to a thread with company. *)
LEMMA CallRemove ==
  ASSUME NEW k \in Seq(CapRec), NEW tb, NEW nx, TableInv(k, tb, nx),
         NEW p \in Process, NEW id \in Id, NEW t \in Thread, NEW c,
         CallInv(k, tb, nx, t, c),
         ~(Alone(t) /\ ProcessOf[t] = p)
  PROVE  CallInv(k, [tb EXCEPT ![p][id] = NoCap], nx, t, c)
<1>. DEFINE tb2 == [tb EXCEPT ![p][id] = NoCap]
            q == ProcessOf[t]
<1>. q \in Process
  BY ProcessOfType
<1>1. CASE c.pc = "release"
  <2>1. Head(c.ids) \in Id
    BY <1>1 DEF CallInv, Checked, CallOf
  <2>2. tb2[q][Head(c.ids)] \in {NoCap, tb[q][Head(c.ids)]}
    BY <2>1 DEF TableInv
  <2>3. q # p => tb2[q][Head(c.ids)] = tb[q][Head(c.ids)]
    BY <2>1 DEF TableInv
  <2>4. NoCap \in Travel(k)
    BY DEF Travel, NoCap
  <2>. QED
    BY <2>2, <2>3, <2>4 DEF CallInv, Checked
<1>2. CASE c.pc # "release"
  BY <1>2 DEF CallInv, Checked
<1>. QED
  BY <1>1, <1>2

-----------------------------------------------------------------------------
(* The calls that Starts and Returned make. *)

(* The empty sequence is a sequence over any set.                          *)
LEMMA EmptySeq == ASSUME NEW S PROVE <<>> \in Seq(S) /\ Len(<<>>) = 0
  OBVIOUS

(* A call that returned holds nothing. *)
LEMMA ReturnedType ==
  ASSUME NEW k \in Seq(CapRec), NEW c \in CallOf(k), NEW err \in Codes
  PROVE  /\ Returned(c, err) \in CallOf(k)
         /\ Returned(c, err).pc = "user"
<1>1. NoCap \in Travel(k)
  BY DEF Travel, NoCap
<1>2. "user" \in Pcs
  BY DEF Pcs
<1>. QED
  BY <1>1, <1>2, EmptySeq, Zenon DEF Returned, CallOf

(* A call that starts has the type of a call. *)
LEMMA StartsType ==
  ASSUME NEW k, NEW t \in Thread, call[t] \in CallOf(k), NEW op \in Ops, NEW pc \in Pcs,
         NEW o \in Obj \cup {0}
  PROVE  /\ Starts(t, op, pc, o) \in CallOf(k)
         /\ Starts(t, op, pc, o).pc = pc
         /\ Starts(t, op, pc, o).op = op
         /\ Starts(t, op, pc, o).obj = o
  BY EmptySeq, Zenon DEF Starts, CallOf, Codes

(* Outside TranslateRequestToIpcMessage little more than the type is known. *)
LEMMA TypedCall ==
  ASSUME NEW k, NEW tb, NEW nx, NEW t, NEW c \in CallOf(k),
         \/ c.pc \in {"user", "deliver", "dead"}
         \/ c.pc \in {"dup", "second", "listen", "poll", "pop"} /\ c.obj \in Obj
  PROVE  CallInv(k, tb, nx, t, c)
  BY DEF CallInv, Checked, Sending, Aimed

(* A Capability is made and inserted: AddNewCapability. *)
LEMMA MakeAndAdd ==
  ASSUME NEW k \in Seq(CapRec), NEW tb, NEW nx, TableInv(k, tb, nx),
         NEW p \in Process, NEW r \in CapRec, r.by = p, nx[p] \in Id
  PROVE  LET k2 == Append(k, r)
             tb2 == [tb EXCEPT ![p][nx[p]] = Len(k) + 1]
             nx2 == [nx EXCEPT ![p] = @ + 1]
         IN  /\ Grows(k, k2)
             /\ TableInv(k2, tb2, nx2)
             /\ \A t \in Thread : \A c :
                  CallInv(k, tb, nx, t, c) => CallInv(k2, tb2, nx2, t, c)
<1>. DEFINE k2 == Append(k, r)
            tb2 == [tb EXCEPT ![p][nx[p]] = Len(k) + 1]
            nx2 == [nx EXCEPT ![p] = @ + 1]
<1>1. Grows(k, k2) /\ Len(k2) = Len(k) + 1 /\ k2[Len(k) + 1] = r
  BY AppendGrows
<1>2. TableInv(k2, tb, nx)
  BY <1>1, TableGrows
<1>3. Len(k) + 1 \in 0..Len(k2) /\ AtHome(k2, p, Len(k) + 1)
  BY <1>1 DEF AtHome, Grows
<1>4. TableInv(k2, tb2, nx2)
  <2>. HIDE DEF k2
  <2>. QED
    BY <1>2, <1>3, AddKeepsTable, Zenon
<1>5. ASSUME NEW t \in Thread, NEW c, CallInv(k, tb, nx, t, c)
      PROVE  CallInv(k2, tb2, nx2, t, c)
  <2>1. CallInv(k2, tb, nx, t, c)
    BY <1>1, <1>5, CallGrows
  <2>. HIDE DEF k2
  <2>. QED
    BY <2>1, <1>2, CallAdd, Zenon
<1>. QED
  BY <1>1, <1>4, <1>5, Zenon

(* next_cap_id_ is an id while there is room for one more. *)
LEMMA RoomForOne ==
  ASSUME NEW p \in Process, TableInv(cap, table, nextId), HasRoom(p, 1)
  PROVE  nextId[p] \in Id
  BY BoundsAreNat DEF TableInv, HasRoom, NextCapId, Id

-----------------------------------------------------------------------------
(* The steps. *)

(* Reply ports are as they were after a step that leaves the objects, ...  *)
LEMMA ObjectsKept ==
  ASSUME IInv, UNCHANGED objVars
  PROVE  RepliesInv' /\ queue' = queue /\ kind' = kind
  BY DEF IInv, RepliesInv, objVars

(* ... and after one that makes an object.                                 *)
LEMMA ObjectMade ==
  ASSUME IInv, NEW o \in Unmade, NEW k, kind' = [kind EXCEPT ![o] = k],
         UNCHANGED <<queue, hasWritten, hasRead>>
  PROVE  RepliesInv'
<1>1. o \in Obj /\ kind[o] = "none"
  BY DEF Unmade
<1>2. o \notin hasWritten
  BY <1>1 DEF IInv, RepliesInv
<1>. QED
  BY <1>1, <1>2 DEF IInv, RepliesInv

(* The system calls up to their look-up, and the look-ups inside them:     *)
(* only the caller's own state changes.                                    *)
LEMMA LookUpStep ==
  ASSUME IInv, NEW t \in Thread, NEW c, Goes(t, c),
         CallInv(cap, table, nextId, t, c),
         UNCHANGED <<objVars, cap, table, nextId>>
  PROVE  IInv'
<1>1. /\ call' \in [Thread -> CallOf(cap)]
      /\ \A u \in Thread : call'[u] = IF u = t THEN c ELSE call[u]
  BY DEF IInv, Goes, CallInv
<1>2. \A u \in Thread : CallInv(cap, table, nextId, u, call'[u])
  BY <1>1, Zenon DEF IInv
<1>. QED
  BY <1>1, <1>2, ObjectsKept DEF IInv

(* The system calls that make an object or a capability and end with it,   *)
(* or go on to translate the message.                                      *)
LEMMA MakeStep ==
  ASSUME IInv, NEW t \in Thread, NEW o \in Obj, NEW perms \in SUBSET Perms, NEW c,
         AddNewCapability(ProcessOf[t], o, perms), Goes(t, c),
         c \in CallOf(cap), CallInv(cap, table, nextId, t, c),
         kind' \in [Obj -> Kinds], queue' = queue, RepliesInv'
  PROVE  IInv'
<1>. DEFINE p == ProcessOf[t]
            r == [obj |-> o, perms |-> perms, by |-> p]
<1>1. p \in Process /\ r \in CapRec /\ r.by = p
  BY ProcessOfType DEF CapRec
<1>2. nextId[p] \in Id
  BY <1>1, RoomForOne DEF IInv, AddNewCapability, AddExistingCapability
<1>3. /\ cap' = Append(cap, r)
      /\ table' = [table EXCEPT ![p][nextId[p]] = Len(cap) + 1]
      /\ nextId' = [nextId EXCEPT ![p] = @ + 1]
  BY DEF AddNewCapability, AddExistingCapability, NewCap, NextCapId
<1>. HIDE DEF r, p
<1>4. /\ Grows(cap, cap')
      /\ TableInv(cap', table', nextId')
      /\ \A u \in Thread : \A d :
           CallInv(cap, table, nextId, u, d) => CallInv(cap', table', nextId', u, d)
  BY <1>1, <1>2, <1>3, MakeAndAdd, Zenon DEF IInv
<1>5. /\ call' \in [Thread -> CallOf(cap')]
      /\ \A u \in Thread : CallInv(cap', table', nextId', u, call'[u])
  <2>1. /\ call \in [Thread -> CallOf(cap)]
        /\ \A u \in Thread : CallInv(cap', table', nextId', u, call[u])
        /\ CallInv(cap', table', nextId', t, c)
        /\ call' = [call EXCEPT ![t] = c]
    BY <1>4 DEF IInv, Goes
  <2>2. \A u \in Thread : CallInv(cap', table', nextId', u, call'[u])
    BY <2>1
  <2>. QED
    BY <2>1, <2>2, Zenon DEF CallInv
<1>6. queue' \in [Obj -> Seq(MessageOf(cap'))]
  BY <1>4, TravelGrows, SeqMonotone DEF IInv
<1>. QED
  BY <1>4, <1>5, <1>6 DEF IInv, Grows

(* TranslateIpcMessageToResponse enters a capability that travelled. *)
LEMMA InsertStep ==
  ASSUME IInv, NEW t \in Thread, NEW d \in Travel(cap), NEW c,
         AddExistingCapability(ProcessOf[t], d), Goes(t, c),
         c \in CallOf(cap), c.pc \in {"user", "deliver"},
         UNCHANGED <<cap, objVars>>
  PROVE  IInv'
<1>. DEFINE p == ProcessOf[t]
<1>1. p \in Process
  BY ProcessOfType
<1>2. nextId[p] \in Id
  BY <1>1, RoomForOne DEF IInv, AddExistingCapability
<1>3. /\ table' = [table EXCEPT ![p][nextId[p]] = d]
      /\ nextId' = [nextId EXCEPT ![p] = @ + 1]
  BY DEF AddExistingCapability, NextCapId
<1>4. d \in 0..Len(cap) /\ AtHome(cap, p, d)
  BY DEF Travel, AtHome
<1>. HIDE DEF p
<1>5. TableInv(cap, table', nextId')
  BY <1>1, <1>2, <1>3, <1>4, AddKeepsTable, Zenon DEF IInv
<1>6. /\ call' \in [Thread -> CallOf(cap)]
      /\ \A u \in Thread : call'[u] = IF u = t THEN c ELSE call[u]
  BY DEF IInv, Goes
<1>7. \A u \in Thread : CallInv(cap, table', nextId', u, call[u])
  BY <1>1, <1>3, CallAdd, Zenon DEF IInv
<1>8. CallInv(cap, table', nextId', t, c)
  BY TypedCall
<1>9. \A u \in Thread : CallInv(cap, table', nextId', u, call'[u])
  BY <1>6, <1>7, <1>8
<1>. QED
  BY <1>5, <1>6, <1>9, ObjectsKept DEF IInv

(* A capability is taken out of the caller's table. *)
LEMMA RemoveStep ==
  ASSUME IInv, NEW t \in Thread, NEW id \in Id, NEW c,
         ReleasesCapability(ProcessOf[t], id), Goes(t, c),
         c \in CallOf(cap), c.pc # "release", Sending(t, c), Aimed(c),
         UNCHANGED <<cap, objVars>>
  PROVE  IInv'
<1>. DEFINE p == ProcessOf[t]
<1>1. p \in Process
  BY ProcessOfType
<1>2. table' = [table EXCEPT ![p][id] = NoCap] /\ nextId' = nextId
  BY DEF ReleasesCapability
<1>3. TableInv(cap, table', nextId)
  BY <1>1, <1>2, RemoveKeepsTable, Zenon DEF IInv
<1>4. /\ call' \in [Thread -> CallOf(cap)]
      /\ \A u \in Thread : call'[u] = IF u = t THEN c ELSE call[u]
  BY DEF IInv, Goes
<1>5. ASSUME NEW u \in Thread, u # t
      PROVE  CallInv(cap, table', nextId, u, call[u])
  <2>1. ~(Alone(u) /\ ProcessOf[u] = p)
    BY <1>5 DEF Alone
  <2>. QED
    BY <2>1, <1>1, <1>2, CallRemove, Zenon DEF IInv
<1>6. CallInv(cap, table', nextId, t, c)
  BY DEF CallInv, Checked
<1>7. \A u \in Thread : CallInv(cap, table', nextId, u, call'[u])
  BY <1>4, <1>5, <1>6
<1>. QED
  BY <1>2, <1>3, <1>4, <1>7, ObjectsKept, Zenon DEF IInv

(* What is found in a table is a capability that was made. *)
LEMMA GotCapability ==
  ASSUME IInv, NEW t \in Thread, NEW id
  PROVE  LET c == GetCapability(t, id)
         IN  /\ c \in 0..Len(cap)
             /\ c # NoCap => /\ cap[c] \in CapRec
                             /\ cap[c].obj \in Obj
                             /\ cap[c].perms \in SUBSET Perms
<1>1. GetCapability(t, id) \in 0..Len(cap)
  BY ProcessOfType DEF IInv, TableInv, GetCapability, Table, NoCap
<1>2. GetCapability(t, id) # NoCap => cap[GetCapability(t, id)] \in CapRec
  BY <1>1 DEF IInv, NoCap
<1>. QED
  BY <1>1, <1>2 DEF CapRec

(* The lookup half of CapDuplicate: only the caller's call changes.        *)
LEMMA CapDuplicateStep ==
  ASSUME IInv, NEW t \in Thread, NEW id \in Id, NEW mask, CapDuplicate(t, id, mask)
  PROVE  IInv'
<1>. DEFINE g == GetCapability(t, id)
            e1 == Returned(Starts(t, "dup", "user", 0), "CAP_NOT_FOUND")
            e2 == Returned(Starts(t, "dup", "user", 0), "CAP_PERMISSION_DENIED")
            ok == [Starts(t, "dup", "dup", cap[g].obj)
                     EXCEPT !.mask = cap[g].perms \cap mask]
            c == IF g = NoCap THEN e1
                 ELSE IF "duplicate" \notin cap[g].perms THEN e2 ELSE ok
<1>1. cap \in Seq(CapRec) /\ call[t] \in CallOf(cap)
  BY DEF IInv
<1>2. /\ "user" \in Pcs /\ "dup" \in Pcs /\ "dup" \in Ops
      /\ "CAP_NOT_FOUND" \in Codes /\ "CAP_PERMISSION_DENIED" \in Codes
      /\ 0 \in Obj \cup {0}
  BY DEF Pcs, Codes, Ops
<1>3. Starts(t, "dup", "user", 0) \in CallOf(cap)
  BY <1>1, <1>2, StartsType
<1>4. e1 \in CallOf(cap) /\ e1.pc = "user" /\ e2 \in CallOf(cap) /\ e2.pc = "user"
  BY <1>1, <1>2, <1>3, ReturnedType
<1>5. g # NoCap => ok \in CallOf(cap) /\ ok.pc = "dup" /\ ok.obj \in Obj
  <2>. HAVE g # NoCap
  <2>1. /\ cap[g].obj \in Obj /\ cap[g].obj \in Obj
        /\ cap[g].perms \in SUBSET Perms
    BY GotCapability
  <2>2. /\ Starts(t, "dup", "dup", cap[g].obj) \in CallOf(cap)
        /\ Starts(t, "dup", "dup", cap[g].obj).pc = "dup"
        /\ Starts(t, "dup", "dup", cap[g].obj).obj = cap[g].obj
    BY <1>1, <1>2, <2>1, StartsType
  <2>. QED
    BY <2>1, <2>2, Zenon DEF CallOf
<1>. HIDE DEF e1, e2, ok, g
<1>6. c \in CallOf(cap) /\ (c.pc = "user" \/ (c.pc = "dup" /\ c.obj \in Obj))
  <2>1. c = e1 \/ c = e2 \/ (g # NoCap /\ c = ok)
    OBVIOUS
  <2>. HIDE DEF c
  <2>. QED
    BY <1>4, <1>5, <2>1
<1>7. CallInv(cap, table, nextId, t, c)
  BY <1>6, TypedCall
<1>8. Goes(t, c) /\ UNCHANGED <<objVars, cap, table, nextId>>
  BY DEF CapDuplicate, objVars, e1, e2, ok, g
<1>. HIDE DEF c
<1>. QED
  BY <1>7, <1>8, LookUpStep

(* The checks of a system call on its capability give one of the codes. *)
LEMMA ValidateCode ==
  ASSUME NEW c, NEW k, NEW perm
  PROVE  ValidateCapability(c, k, perm) \in Codes
  BY DEF ValidateCapability, Codes

(* The first statements of a send system call: look the target up, check   *)
(* Write, and start building the message.                                  *)
LEMMA SendStep ==
  ASSUME IInv, NEW t \in Thread, NEW k \in Kinds, NEW id \in Id,
         NEW ids \in IdLists, NEW d \in Data, Send(t, k, id, ids, d)
  PROVE  IInv'
<1>. DEFINE g == GetCapability(t, id)
            e == ValidateCapability(g, k, "write")
            s0 == Starts(t, k, IF k = "endpoint" THEN "reply" ELSE "translate", 0)
            s == [s0 EXCEPT !.ids = ids, !.data = d, !.caps = <<>>, !.reply = NoCap]
            c == IF e # "OK" THEN Returned(s, e) ELSE [s EXCEPT !.obj = cap[g].obj]
<1>1. cap \in Seq(CapRec) /\ call[t] \in CallOf(cap) /\ NoCap \in Travel(cap)
  BY DEF IInv, Travel, NoCap
<1>2. /\ (IF k = "endpoint" THEN "reply" ELSE "translate") \in Pcs
      /\ k \in Ops /\ 0 \in Obj \cup {0}
  BY DEF Pcs, Ops
<1>3. /\ s0 \in CallOf(cap) /\ s0.op = k
      /\ s0.pc = IF k = "endpoint" THEN "reply" ELSE "translate"
  BY <1>1, <1>2, StartsType
<1>4. ids \in Seq(Id)
  BY IdListsType DEF Id
<1>5. s \in CallOf(cap) /\ s.pc = s0.pc /\ s.op = s0.op /\ s.caps = <<>>
  <2>. HIDE DEF s0
  <2>. QED
    BY <1>1, <1>3, <1>4, EmptySeq, Zenon DEF CallOf
<1>6. e \in Codes
  BY ValidateCode
<1>. HIDE DEF s, s0
<1>7. CASE e # "OK"
  <2>1. Returned(s, e) \in CallOf(cap) /\ Returned(s, e).pc = "user"
    BY <1>1, <1>5, <1>6, ReturnedType, Zenon
  <2>2. CallInv(cap, table, nextId, t, c)
    BY <1>7, <2>1, TypedCall
  <2>3. Goes(t, c) /\ UNCHANGED <<objVars, cap, table, nextId>>
    BY DEF Send, objVars, s, s0
  <2>. HIDE DEF c
  <2>. QED
    BY <2>2, <2>3, LookUpStep
<1>8. CASE e = "OK"
  <2>1. g # NoCap
    BY <1>8 DEF ValidateCapability
  <2>2. cap[g].obj \in Obj
    BY <2>1, GotCapability
  <2>3. /\ c \in CallOf(cap) /\ c.op = k /\ c.caps = <<>>
        /\ c.pc = IF k = "endpoint" THEN "reply" ELSE "translate"
    BY <1>8, <1>3, <1>5, <2>2, Zenon DEF CallOf
  <2>4. CallInv(cap, table, nextId, t, c)
    BY <2>3, EmptySeq DEF CallInv, Checked, Sending, Aimed
  <2>5. Goes(t, c) /\ UNCHANGED <<objVars, cap, table, nextId>>
    BY DEF Send, objVars, s, s0
  <2>. HIDE DEF c
  <2>. QED
    BY <2>4, <2>5, LookUpStep
<1>. QED
  BY <1>7, <1>8

(* The first statements of a receive system call.                          *)
LEMMA RecvStep ==
  ASSUME IInv, NEW t \in Thread, NEW k \in Kinds, NEW id \in Id,
         NEW bytes \in Rooms, NEW room \in Rooms, NEW poll \in BOOLEAN,
         Recv(t, k, id, bytes, room, poll)
  PROVE  IInv'
<1>. DEFINE g == GetCapability(t, id)
            e == ValidateCapability(g, k, "read")
            s0 == Starts(t, k, IF poll THEN "poll" ELSE "pop", 0)
            s == [s0 EXCEPT !.bytes = bytes, !.room = room]
            c == IF e # "OK" THEN Returned(s, e) ELSE [s EXCEPT !.obj = cap[g].obj]
<1>1. cap \in Seq(CapRec) /\ call[t] \in CallOf(cap)
  BY DEF IInv
<1>2. /\ (IF poll THEN "poll" ELSE "pop") \in Pcs
      /\ k \in Ops /\ 0 \in Obj \cup {0}
  BY DEF Pcs, Ops
<1>3. s0 \in CallOf(cap) /\ s0.pc = IF poll THEN "poll" ELSE "pop"
  BY <1>1, <1>2, StartsType
<1>4. s \in CallOf(cap) /\ s.pc = s0.pc
  <2>. HIDE DEF s0
  <2>. QED
    BY <1>3, RoomsType, Zenon DEF CallOf
<1>5. e \in Codes
  BY ValidateCode
<1>. HIDE DEF s, s0
<1>6. /\ c \in CallOf(cap)
      /\ c.pc = "user" \/ (c.pc \in {"poll", "pop"} /\ c.obj \in Obj)
  <2>1. CASE e # "OK"
    <3>1. Returned(s, e) \in CallOf(cap) /\ Returned(s, e).pc = "user"
      BY <1>1, <1>4, <1>5, ReturnedType
    <3>2. c = Returned(s, e)
      BY <2>1
    <3>. HIDE DEF c, e
    <3>. QED
      BY <3>1, <3>2
  <2>2. CASE e = "OK"
    <3>1. g # NoCap
      BY <2>2 DEF ValidateCapability
    <3>2. cap[g].obj \in Obj
      BY <3>1, GotCapability
    <3>. QED
      BY <2>2, <1>3, <1>4, <3>2, Zenon DEF CallOf
  <2>. QED
    BY <2>1, <2>2
<1>7. CallInv(cap, table, nextId, t, c)
  BY <1>6, TypedCall, Zenon
<1>8. Goes(t, c) /\ UNCHANGED <<objVars, cap, table, nextId>>
  BY DEF Recv, objVars, s, s0
<1>. HIDE DEF c
<1>. QED
  BY <1>7, <1>8, LookUpStep

(* A system call that returns leaves nothing behind on its stack. *)
LEMMA ReturnStep ==
  ASSUME IInv, NEW t \in Thread, NEW err \in Codes, Returns(t, err),
         UNCHANGED <<objVars, cap, table, nextId>>
  PROVE  IInv'
<1>. DEFINE c == Returned(call[t], err)
<1>1. cap \in Seq(CapRec) /\ call[t] \in CallOf(cap)
  BY DEF IInv
<1>2. c \in CallOf(cap) /\ c.pc = "user"
  BY <1>1, ReturnedType
<1>3. CallInv(cap, table, nextId, t, c)
  BY <1>2, TypedCall
<1>4. Goes(t, c)
  BY DEF Returns
<1>. HIDE DEF c
<1>. QED
  BY <1>3, <1>4, LookUpStep

(* One look-up of TranslateRequestToIpcMessage; it establishes Checked for *)
(* the id that the next statement releases.                                *)
LEMMA TranslateGetStep ==
  ASSUME IInv, NEW t \in Thread, TranslateGet(t)
  PROVE  IInv'
<1>. DEFINE id == Head(call[t].ids)
            p == ProcessOf[t]
            g == GetCapability(t, id)
            c == [call[t] EXCEPT !.pc = "release"]
<1>1. UNCHANGED <<objVars, cap, table, nextId>>
  BY DEF TranslateGet, objVars
<1>2. CASE \E err \in Codes : Returns(t, err)
  BY <1>1, <1>2, ReturnStep
<1>3. CASE /\ call[t].pc = "translate" /\ call[t].ids # <<>>
           /\ g # NoCap /\ "transmit" \in cap[g].perms /\ Goes(t, c)
  <2>1. /\ call[t] \in CallOf(cap) /\ Sending(t, call[t]) /\ Aimed(call[t])
        /\ p \in Process
        /\ TableInv(cap, table, nextId)
    BY ProcessOfType DEF IInv, CallInv
  <2>2. id \in Id
    BY <1>3, <2>1 DEF CallOf
  <2>3. g = table[p][id] /\ g \in Travel(cap)
    BY <1>3, <2>1, <2>2, Zenon DEF GetCapability, Table, TableInv, Travel
  <2>4. id < nextId[p]
    BY <1>3, <2>1, <2>2, <2>3 DEF TableInv, Id
  <2>5. /\ c \in CallOf(cap) /\ c.pc = "release"
        /\ c.ids = call[t].ids /\ c.caps = call[t].caps
        /\ c.op = call[t].op /\ c.port = call[t].port
    BY <2>1, Zenon DEF CallOf, Pcs
  <2>. HIDE DEF c, g
  <2>6. Sending(t, c)
    BY <1>3, <2>1, <2>5 DEF Sending
  <2>7. Checked(cap, table, t, c)
    BY <1>3, <2>3, <2>5, Zenon DEF Checked
  <2>8. CallInv(cap, table, nextId, t, c)
    BY <1>3, <2>1, <2>4, <2>5, <2>6, <2>7, Zenon DEF CallInv, Aimed
  <2>. QED
    BY <1>1, <1>3, <2>8, LookUpStep
<1>. QED
  <2>1. /\ "UNIMPLEMENTED" \in Codes /\ "CAP_NOT_FOUND" \in Codes
        /\ "CAP_PERMISSION_DENIED" \in Codes
    BY DEF Codes
  <2>. QED
    BY <2>1, <1>2, <1>3 DEF TranslateGet

(* The emptiness test of PortPoll.                                         *)
LEMMA PollCheckStep ==
  ASSUME IInv, NEW t \in Thread, PollCheck(t)
  PROVE  IInv'
<1>. DEFINE c == [call[t] EXCEPT !.pc = "pop"]
<1>1. UNCHANGED <<objVars, cap, table, nextId>>
  BY DEF PollCheck, objVars
<1>2. CASE Returns(t, "EMPTY")
  <2>1. "EMPTY" \in Codes
    BY DEF Codes
  <2>. QED
    BY <1>1, <1>2, <2>1, ReturnStep
<1>3. CASE Goes(t, c)
  <2>0. call[t] \in CallOf(cap) /\ "pop" \in Pcs /\ call[t].obj \in Obj
    BY DEF IInv, Pcs, CallInv, Aimed, PollCheck
  <2>1. c \in CallOf(cap) /\ c.pc = "pop" /\ c.obj \in Obj
    BY <2>0, Zenon DEF CallOf
  <2>2. CallInv(cap, table, nextId, t, c)
    BY <2>1, TypedCall, Zenon
  <2>. HIDE DEF c
  <2>. QED
    BY <1>1, <1>3, <2>2, LookUpStep
<1>. QED
  BY <1>2, <1>3 DEF PollCheck

(* The object that is made next, when there is one. *)
LEMMA FreshIsObj ==
  ASSUME Unmade # {}
  PROVE  FreshObj \in Unmade /\ FreshObj \in Obj
  BY DEF FreshObj, Unmade

(* An object is made with a capability to it, and the call returns or goes *)
(* on with the object.                                                     *)
LEMMA CreateStep ==
  ASSUME IInv, NEW t \in Thread, NEW k \in Kinds, NEW c \in CallOf(cap),
         c.pc \in {"user", "listen"}, c.pc = "listen" => c.obj \in Obj,
         Unmade # {}, kind' = [kind EXCEPT ![FreshObj] = k],
         AddNewCapability(ProcessOf[t], FreshObj, Default), Goes(t, c),
         UNCHANGED <<queue, hasWritten, hasRead>>
  PROVE  IInv'
<1>1. CallInv(cap, table, nextId, t, c)
  BY TypedCall
<1>2. kind' \in [Obj -> Kinds]
  BY FreshIsObj DEF IInv
<1>3. Default \in SUBSET Perms /\ FreshObj \in Obj
  BY FreshIsObj DEF Default
<1>4. RepliesInv'
  BY FreshIsObj, ObjectMade, Zenon
<1>. QED
  BY <1>1, <1>2, <1>3, <1>4, MakeStep

(* The ids that a call returns. *)
LEMMA CreatedCall ==
  ASSUME IInv, NEW t \in Thread, NEW pc \in Pcs, NEW o \in Obj \cup {0}
  PROVE  LET s == Starts(t, "create", pc, o)
         IN  /\ s \in CallOf(cap) /\ s.pc = pc /\ s.obj = o
             /\ HasRoom(ProcessOf[t], 1) =>
                  <<NextCapId(ProcessOf[t])>> \in Seq(Id)
<1>1. ProcessOf[t] \in Process
  BY ProcessOfType
<1>2. HasRoom(ProcessOf[t], 1) => NextCapId(ProcessOf[t]) \in Id
  BY <1>1, RoomForOne, Zenon DEF IInv, NextCapId
<1>3. HasRoom(ProcessOf[t], 1) => <<NextCapId(ProcessOf[t])>> \in Seq(Id)
  BY <1>2
<1>4. call[t] \in CallOf(cap) /\ "create" \in Ops
  BY DEF IInv, Ops
<1>. QED
  BY <1>3, <1>4, StartsType

(* EndpointCreate and PortCreate: a new object and a capability with every *)
(* permission at a fresh id.                                               *)
LEMMA EndpointOrPortCreateStep ==
  ASSUME IInv, NEW t \in Thread, NEW k \in Kinds, EndpointOrPortCreate(t, k)
  PROVE  IInv'
<1>. DEFINE s == Starts(t, "create", "user", 0)
            c == [s EXCEPT !.got = <<NextCapId(ProcessOf[t])>>]
<1>1. HasRoom(ProcessOf[t], 1) /\ "user" \in Pcs /\ 0 \in Obj \cup {0}
  BY DEF EndpointOrPortCreate, AddNewCapability, AddExistingCapability, Pcs
<1>2. s \in CallOf(cap) /\ s.pc = "user" /\ <<NextCapId(ProcessOf[t])>> \in Seq(Id)
  BY <1>1, CreatedCall
<1>3. /\ Unmade # {} /\ kind' = [kind EXCEPT ![FreshObj] = k]
      /\ AddNewCapability(ProcessOf[t], FreshObj, Default) /\ Goes(t, c)
      /\ UNCHANGED <<queue, hasWritten, hasRead>>
  BY DEF EndpointOrPortCreate
<1>. HIDE DEF s
<1>4. c \in CallOf(cap) /\ c.pc = "user"
  BY <1>2, Zenon DEF CallOf
<1>5. c.pc \in {"user", "listen"} /\ (c.pc = "listen" => c.obj \in Obj)
  BY <1>4
<1>. HIDE DEF c
<1>. QED
  BY <1>3, <1>4, <1>5, CreateStep, Zenon

(* IrqRegister makes a port with a capability to it, ...                   *)
LEMMA IrqRegisterStep ==
  ASSUME IInv, NEW t \in Thread, IrqRegister(t)
  PROVE  IInv'
<1>. DEFINE s == Starts(t, "create", "listen", FreshObj)
            c == [s EXCEPT !.got = <<NextCapId(ProcessOf[t])>>]
<1>1. HasRoom(ProcessOf[t], 1) /\ "listen" \in Pcs /\ "port" \in Kinds
  BY DEF IrqRegister, AddNewCapability, AddExistingCapability, Pcs, Kinds
<1>2. /\ Unmade # {} /\ kind' = [kind EXCEPT ![FreshObj] = "port"]
      /\ AddNewCapability(ProcessOf[t], FreshObj, Default) /\ Goes(t, c)
      /\ UNCHANGED <<queue, hasWritten, hasRead>>
  BY DEF IrqRegister
<1>3. FreshObj \in Obj /\ FreshObj \in Obj \cup {0}
  BY <1>2, FreshIsObj
<1>4. /\ s \in CallOf(cap) /\ s.pc = "listen" /\ s.obj \in Obj
      /\ <<NextCapId(ProcessOf[t])>> \in Seq(Id)
  BY <1>1, <1>3, CreatedCall
<1>. HIDE DEF s
<1>5. c \in CallOf(cap) /\ c.pc \in {"user", "listen"} /\ c.obj \in Obj
  BY <1>4, Zenon DEF CallOf
<1>. HIDE DEF c
<1>. QED
  BY <1>1, <1>2, <1>5, CreateStep, Zenon

(* ... and lets the driver manager write to it.                            *)
LEMMA RegisterListenerStep ==
  ASSUME IInv, NEW t \in Thread, NEW irq \in Irq, RegisterListener(t, irq)
  PROVE  IInv'
<1>. DEFINE err == IF driver[irq] = 0 THEN "OK" ELSE "ALREADY_EXISTS"
            c == Returned(call[t], err)
<1>1. cap \in Seq(CapRec) /\ call[t] \in CallOf(cap) /\ err \in Codes
  BY DEF IInv, Codes
<1>2. /\ Goes(t, c)
      /\ UNCHANGED <<kind, queue, hasWritten, hasRead, cap, table, nextId>>
  BY Zenon DEF RegisterListener, Returns
<1>. HIDE DEF err
<1>3. c \in CallOf(cap) /\ c.pc = "user"
  BY <1>1, ReturnedType
<1>. HIDE DEF c
<1>4. CallInv(cap, table, nextId, t, c)
  BY <1>3, TypedCall
<1>5. /\ call' \in [Thread -> CallOf(cap)]
      /\ \A u \in Thread : call'[u] = IF u = t THEN c ELSE call[u]
  BY <1>2, <1>3 DEF IInv, Goes
<1>6. \A u \in Thread : CallInv(cap, table, nextId, u, call'[u])
  BY <1>4, <1>5, Zenon DEF IInv
<1>7. RepliesInv'
  BY <1>2, Zenon DEF IInv, RepliesInv
<1>. QED
  BY <1>2, <1>5, <1>6, <1>7 DEF IInv

(* The second half of CapDuplicate adds the masked capability at a fresh   *)
(* id.                                                                     *)
LEMMA CapDuplicateAddStep ==
  ASSUME IInv, NEW t \in Thread, CapDuplicateAdd(t)
  PROVE  IInv'
<1>. DEFINE s == Returned(call[t], "OK")
            c == [s EXCEPT !.got = <<NextCapId(ProcessOf[t])>>]
<1>1. HasRoom(ProcessOf[t], 1) /\ "user" \in Pcs /\ 0 \in Obj \cup {0}
  BY DEF CapDuplicateAdd, AddNewCapability, AddExistingCapability, Pcs
<1>2. <<NextCapId(ProcessOf[t])>> \in Seq(Id)
  BY <1>1, CreatedCall
<1>3. /\ cap \in Seq(CapRec) /\ call[t] \in CallOf(cap) /\ "OK" \in Codes
      /\ kind \in [Obj -> Kinds]
  BY DEF IInv, Codes
<1>4. s \in CallOf(cap) /\ s.pc = "user"
  BY <1>3, ReturnedType
<1>5. call[t].mask \in SUBSET Perms /\ call[t].obj \in Obj
  BY <1>3, Zenon DEF CallOf, IInv, CallInv, Aimed, CapDuplicateAdd
<1>6. /\ AddNewCapability(ProcessOf[t], call[t].obj, call[t].mask) /\ Goes(t, c)
      /\ queue' = queue /\ kind' = kind /\ RepliesInv'
  BY ObjectsKept DEF CapDuplicateAdd
<1>. HIDE DEF s
<1>7. c \in CallOf(cap) /\ c.pc = "user"
  BY <1>2, <1>4, Zenon DEF CallOf
<1>8. CallInv(cap, table, nextId, t, c)
  BY <1>7, TypedCall, Zenon
<1>. HIDE DEF c
<1>. QED
  BY <1>3, <1>5, <1>6, <1>7, <1>8, MakeStep, Zenon

(* EndpointSend's reply port: the caller gets the read capability, which   *)
(* may not be transmitted.                                                 *)
LEMMA MakeReplyPortStep ==
  ASSUME IInv, NEW t \in Thread, MakeReplyPort(t)
  PROVE  IInv'
<1>. DEFINE p == ProcessOf[t]
            c == [call[t] EXCEPT !.pc = "translate", !.rid = NextCapId(p), !.port = FreshObj]
<1>1. /\ call[t].pc = "reply" /\ Unmade # {} /\ HasRoom(p, 1)
      /\ kind' = [kind EXCEPT ![FreshObj] = "reply"]
      /\ AddNewCapability(p, FreshObj, {"read"}) /\ Goes(t, c)
      /\ UNCHANGED <<queue, hasWritten, hasRead>>
  BY Zenon DEF MakeReplyPort, AddNewCapability, AddExistingCapability
<1>2. FreshObj \in Obj /\ RepliesInv'
  BY <1>1, FreshIsObj, ObjectMade, Zenon
<1>3. p \in Process /\ NextCapId(p) \in Id
  BY <1>1, ProcessOfType, RoomForOne DEF IInv, NextCapId
<1>4. call[t] \in CallOf(cap) /\ Sending(t, call[t]) /\ "translate" \in Pcs
  BY Zenon DEF IInv, CallInv, Pcs
<1>. HIDE DEF p
<1>5. c \in CallOf(cap) /\ c.pc = "translate" /\ c.caps = call[t].caps /\ c.port \in Obj
  BY <1>2, <1>3, <1>4, Zenon DEF CallOf
<1>. HIDE DEF c
<1>6. CallInv(cap, table, nextId, t, c)
  BY <1>1, <1>4, <1>5, Zenon DEF CallInv, Checked, Sending, Aimed
<1>7. kind' \in [Obj -> Kinds]
  BY <1>1, <1>2 DEF IInv, Kinds
<1>8. {"read"} \in SUBSET Perms
  BY DEF Perms
<1>. QED
  BY <1>1, <1>2, <1>5, <1>6, <1>7, <1>8, MakeStep, Zenon DEF p

(* ChannelCreate makes two ends and a capability to the first one, ...     *)
LEMMA ChannelCreateStep ==
  ASSUME IInv, NEW t \in Thread, ChannelCreate(t)
  PROVE  IInv'
<1>. DEFINE a == FreshObj
            b == SecondObj
            s == Starts(t, "create", "second", b)
            c == [s EXCEPT !.got = <<NextCapId(ProcessOf[t])>>]
<1>1. HasRoom(ProcessOf[t], 1) /\ "second" \in Pcs
  BY DEF ChannelCreate, AddNewCapability, AddExistingCapability, Pcs
<1>2. a \in Obj /\ b \in Obj /\ kind[a] = "none" /\ kind[b] = "none" /\ b \in Obj \cup {0}
  BY DEF ChannelCreate, FreshObj, SecondObj, Unmade
<1>3. /\ kind' = [kind EXCEPT ![a] = "channel", ![b] = "channel"]
      /\ AddNewCapability(ProcessOf[t], a, Default) /\ Goes(t, c)
      /\ UNCHANGED <<queue, hasWritten, hasRead>>
  BY DEF ChannelCreate
<1>4. /\ s \in CallOf(cap) /\ s.pc = "second" /\ s.obj \in Obj
      /\ <<NextCapId(ProcessOf[t])>> \in Seq(Id)
  <2>. HIDE DEF b
  <2>. QED
    BY <1>1, <1>2, CreatedCall
<1>. HIDE DEF s
<1>5. c \in CallOf(cap) /\ c.pc = "second" /\ c.obj \in Obj
  BY <1>4, Zenon DEF CallOf
<1>. HIDE DEF c
<1>6. CallInv(cap, table, nextId, t, c)
  BY <1>5, TypedCall
<1>. HIDE DEF a, b
<1>7. kind' \in [Obj -> Kinds]
  BY <1>2, <1>3, Zenon DEF IInv, Kinds
<1>8. RepliesInv'
  <2>1. a \notin hasWritten /\ b \notin hasWritten
    BY <1>2 DEF IInv, RepliesInv
  <2>. QED
    BY <1>2, <1>3, <2>1 DEF IInv, RepliesInv
<1>9. Default \in SUBSET Perms
  BY DEF Default
<1>. QED
  BY <1>2, <1>3, <1>5, <1>6, <1>7, <1>8, <1>9, MakeStep, Zenon

(* ... and then one to the second.                                         *)
LEMMA ChannelCreateSecondStep ==
  ASSUME IInv, NEW t \in Thread, ChannelCreateSecond(t)
  PROVE  IInv'
<1>. DEFINE s == Returned(call[t], "OK")
            n == NextCapId(ProcessOf[t])
            c == [s EXCEPT !.got = Append(@, n)]
<1>1. HasRoom(ProcessOf[t], 1) /\ ProcessOf[t] \in Process
  BY ProcessOfType DEF ChannelCreateSecond, AddNewCapability, AddExistingCapability
<1>2. n \in Id
  BY <1>1, RoomForOne, Zenon DEF IInv, NextCapId
<1>3. /\ cap \in Seq(CapRec) /\ call[t] \in CallOf(cap) /\ "OK" \in Codes
      /\ kind \in [Obj -> Kinds]
  BY DEF IInv, Codes
<1>4. s \in CallOf(cap) /\ s.pc = "user"
  BY <1>3, ReturnedType
<1>5. Default \in SUBSET Perms /\ call[t].obj \in Obj
  BY Zenon DEF Default, IInv, CallInv, Aimed, ChannelCreateSecond
<1>6. /\ AddNewCapability(ProcessOf[t], call[t].obj, Default) /\ Goes(t, c)
      /\ queue' = queue /\ kind' = kind /\ RepliesInv'
  BY ObjectsKept DEF ChannelCreateSecond
<1>. HIDE DEF s, n
<1>7. Append(s.got, n) \in Seq(Id)
  <2>1. s.got \in Seq(Id)
    BY <1>4, Zenon DEF CallOf
  <2>. QED
    BY <1>2, <2>1
<1>8. c \in CallOf(cap) /\ c.pc = "user"
  BY <1>4, <1>7, Zenon DEF CallOf
<1>9. CallInv(cap, table, nextId, t, c)
  BY <1>8, TypedCall, Zenon
<1>. HIDE DEF c
<1>. QED
  BY <1>3, <1>5, <1>6, <1>8, <1>9, MakeStep, Zenon

(* CapRelease removes one capability of the caller's own table.            *)
LEMMA CapReleaseStep ==
  ASSUME IInv, NEW t \in Thread, NEW id \in Id, CapRelease(t, id)
  PROVE  IInv'
<1>. DEFINE s == Starts(t, "release", "user", 0)
            err == IF GetCapability(t, id) = NoCap THEN "CAP_NOT_FOUND" ELSE "OK"
            c == Returned(s, err)
<1>1. /\ cap \in Seq(CapRec) /\ call[t] \in CallOf(cap) /\ "release" \in Ops
      /\ "user" \in Pcs /\ 0 \in Obj \cup {0} /\ err \in Codes
  BY Zenon DEF IInv, Ops, Pcs, Codes
<1>2. s \in CallOf(cap)
  BY <1>1, StartsType
<1>. HIDE DEF s, err
<1>3. c \in CallOf(cap) /\ c.pc = "user"
  BY <1>1, <1>2, ReturnedType
<1>4. /\ ReleasesCapability(ProcessOf[t], id) /\ Goes(t, c)
      /\ UNCHANGED <<cap, objVars>>
  BY DEF CapRelease, objVars, s, err
<1>. HIDE DEF c
<1>5. Sending(t, c) /\ Aimed(c)
  BY <1>3 DEF Sending, Aimed
<1>. QED
  BY <1>3, <1>4, <1>5, RemoveStep

(* The second access: what it takes is what the first one checked. *)
LEMMA TranslateReleaseStep ==
  ASSUME IInv, NEW t \in Thread, TranslateRelease(t)
  PROVE  IInv'
<1>. DEFINE id == Head(call[t].ids)
            g == GetCapability(t, id)
            c == [call[t] EXCEPT !.pc = "translate", !.ids = Tail(@), !.caps = Append(@, g)]
<1>1. /\ call[t] \in CallOf(cap) /\ Checked(cap, table, t, call[t])
      /\ Sending(t, call[t]) /\ Aimed(call[t])
      /\ call[t].pc = "release" /\ "translate" \in Pcs
  BY Zenon DEF IInv, CallInv, TranslateRelease, Pcs
<1>2. call[t].ids \in Seq(Id) /\ call[t].ids # <<>> /\ call[t].caps \in Seq(Travel(cap))
  BY <1>1, Zenon DEF CallOf, Checked
<1>3. id \in Id /\ Tail(call[t].ids) \in Seq(Id)
  BY <1>2
<1>4. g = table[ProcessOf[t]][id]
  BY <1>3 DEF GetCapability, Table
<1>5. g \in Travel(cap) /\ (Alone(t) => g # NoCap)
  BY <1>1, <1>4, Zenon DEF Checked
<1>6. /\ ReleasesCapability(ProcessOf[t], id) /\ Goes(t, c)
      /\ UNCHANGED <<cap, objVars>>
  BY DEF TranslateRelease, objVars
<1>. HIDE DEF g, id
<1>7. Append(call[t].caps, g) \in Seq(Travel(cap))
  BY <1>2, <1>5
<1>8. /\ c \in CallOf(cap) /\ c.pc = "translate" /\ c.caps = Append(call[t].caps, g)
      /\ c.op = call[t].op /\ c.port = call[t].port
  BY <1>1, <1>3, <1>7, Zenon DEF CallOf, id
<1>. HIDE DEF c
<1>9. Sending(t, c)
  <2>. SUFFICES ASSUME Alone(t), NEW j \in 1..Len(c.caps)
                PROVE  c.caps[j] # NoCap
    BY DEF Sending
  <2>1. \A n \in 1..Len(call[t].caps) : call[t].caps[n] # NoCap
    BY <1>1 DEF Sending
  <2>. QED
    BY <1>2, <1>5, <1>8, <2>1
<1>10. Aimed(c)
  BY <1>1, <1>8, Zenon DEF Aimed
<1>. QED
  BY <1>3, <1>6, <1>8, <1>9, <1>10, RemoveStep

(* PushBack of either queue: the message, with the reply capability of an  *)
(* endpoint call, joins the queue or is refused.                           *)
LEMMA PushBackStep ==
  ASSUME IInv, NEW t \in Thread, PushBack(t)
  PROVE  IInv'
<1>. DEFINE q == SendQueue(call[t].obj)
            asks == call[t].op = "endpoint"
            m == [data |-> call[t].data, caps |-> call[t].caps,
                  reply |-> IF asks THEN NewCap ELSE NoCap]
            r == [obj |-> call[t].port, by |-> ProcessOf[t],
                  perms |-> {"write", "transmit"}]
            c == Returned(call[t], "OK")
            d == Returned(call[t], "FAILED_PRECONDITION")
<1>1. /\ cap \in Seq(CapRec) /\ call[t] \in CallOf(cap)
      /\ "OK" \in Codes /\ "FAILED_PRECONDITION" \in Codes
  BY Zenon DEF IInv, Codes
<1>2. asks => r \in CapRec
  BY ProcessOfType, Zenon DEF CapRec, Perms, IInv, CallInv, Aimed, PushBack
<1>3. /\ cap' = IF asks THEN Append(cap, r) ELSE cap
      /\ table' = table /\ nextId' = nextId /\ kind' = kind
      /\ \/ queue' = queue /\ Goes(t, d)
         \/ queue' = [queue EXCEPT ![q] = Append(@, m)] /\ Goes(t, c)
  BY Zenon DEF PushBack, Returns
<1>4. Grows(cap, cap') /\ m.reply \in Travel(cap')
  <2>1. CASE asks
    <3>1. cap' = Append(cap, r)
      BY <1>3, <2>1, Zenon
    <3>. HIDE DEF r
    <3>2. /\ Grows(cap, cap') /\ Len(cap') = Len(cap) + 1
          /\ cap'[Len(cap) + 1] = r
      BY <1>1, <1>2, <2>1, <3>1, AppendGrows
    <3>3. "transmit" \in r.perms
      BY Zenon DEF r
    <3>. QED
      BY <1>1, <2>1, <3>2, <3>3 DEF Travel, NewCap
  <2>2. CASE ~asks
    <3>1. cap' = cap /\ cap \in Seq(CapRec)
      BY <1>1, <1>3, <2>2, Zenon
    <3>. QED
      BY <2>2, <3>1 DEF Grows, Travel, NoCap
  <2>. QED
    BY <2>1, <2>2, Zenon
<1>. HIDE DEF r
<1>5. /\ Travel(cap) \subseteq Travel(cap') /\ MessageOf(cap) \subseteq MessageOf(cap')
      /\ CallOf(cap) \subseteq CallOf(cap')
  BY <1>4, TravelGrows, Zenon
<1>6. m \in MessageOf(cap')
  <2>1. call[t].caps \in Seq(Travel(cap')) /\ call[t].data \in Data
    BY <1>1, <1>5, SeqMonotone, Zenon DEF CallOf
  <2>. QED
    BY <1>4, <2>1, Zenon DEF MessageOf
<1>7. queue' \in [Obj -> Seq(MessageOf(cap'))]
  <2>1. queue \in [Obj -> Seq(MessageOf(cap'))]
    BY <1>5, SeqMonotone DEF IInv
  <2>2. \/ queue' = queue
        \/ queue' = [queue EXCEPT ![q] = Append(@, m)]
    BY <1>3, Zenon
  <2>. DEFINE S == MessageOf(cap')
  <2>3. m \in S /\ queue \in [Obj -> Seq(S)]
    BY <1>6, <2>1, Zenon
  <2>. HIDE DEF m, q, S
  <2>4. \A o \in Obj : Append(queue[o], m) \in Seq(S)
    BY <2>3
  <2>5. CASE queue' = [queue EXCEPT ![q] = Append(@, m)]
    BY <2>3, <2>4, <2>5, Zenon DEF S
  <2>. QED
    BY <2>1, <2>2, <2>5, Zenon
<1>8. c \in CallOf(cap) /\ c.pc = "user" /\ d \in CallOf(cap) /\ d.pc = "user"
  BY <1>1, ReturnedType
<1>. HIDE DEF c, d
<1>9. TableInv(cap', table', nextId')
  BY <1>3, <1>4, TableGrows, Zenon DEF IInv
<1>10. /\ CallInv(cap', table', nextId', t, c)
       /\ CallInv(cap', table', nextId', t, d)
  BY <1>5, <1>8, TypedCall
<1>11. \A u \in Thread : CallInv(cap', table', nextId', u, call[u])
  BY <1>3, <1>4, CallGrows, Zenon DEF IInv
<1>12. /\ call' \in [Thread -> CallOf(cap')]
       /\ \A u \in Thread : CallInv(cap', table', nextId', u, call'[u])
  <2>1. \A u \in Thread : CallInv(cap', table', nextId', u, call'[u])
    BY <1>3, <1>10, <1>11, Zenon DEF IInv, Goes
  <2>. QED
    BY <1>3, <2>1, Zenon DEF CallInv, IInv, Goes
<1>13. RepliesInv'
  <2>1. CASE UNCHANGED <<queue, hasWritten>>
    BY <2>1, Zenon DEF PushBack, IInv, RepliesInv
  <2>2. CASE /\ queue' = [queue EXCEPT ![q] = Append(@, m)]
             /\ hasWritten' = hasWritten \cup ({q} \cap {o \in Obj : kind[o] = "reply"})
    <3>1. \A o \in Obj : queue[o] # <<>> \/ o = q => queue'[o] # <<>>
      <4>. HIDE DEF m, q
      <4>1. \A o \in Obj : queue'[o] = IF o = q THEN Append(queue[o], m) ELSE queue[o]
        BY <2>2, Zenon DEF IInv
      <4>2. \A o \in Obj : Append(queue[o], m) # <<>>
        BY <1>5, <1>6, SeqMonotone, AppendNotEmpty, Zenon DEF IInv
      <4>. QED
        BY <4>1, <4>2, Zenon
    <3>2. kind' = kind /\ hasRead' = hasRead
      BY Zenon DEF PushBack
    <3>. HIDE DEF m, q
    <3>. QED
      BY <2>2, <3>1, <3>2, Zenon DEF IInv, RepliesInv
  <2>. QED
    BY <2>1, <2>2, Zenon DEF PushBack
<1>. QED
  BY <1>3, <1>4, <1>7, <1>9, <1>12, <1>13, Zenon DEF IInv, Grows

(* PopFront of either queue takes the oldest message, or fails and leaves  *)
(* it.                                                                     *)
LEMMA PopFrontStep ==
  ASSUME IInv, NEW t \in Thread, PopFront(t)
  PROVE  IInv'
<1>. DEFINE o == call[t].obj
            m == Head(queue[o])
            c == [call[t] EXCEPT !.pc = "deliver", !.data = m.data, !.caps = m.caps,
                                 !.reply = m.reply]
<1>1. /\ call[t] \in CallOf(cap) /\ o \in Obj /\ "deliver" \in Pcs
      /\ "FAILED_PRECONDITION" \in Codes /\ "BUFFER_SIZE" \in Codes
  BY Zenon DEF IInv, CallInv, Aimed, PopFront, Pcs, Codes
<1>2. /\ UNCHANGED <<kind, peer, hasWritten, driver, cap, table, nextId>>
      /\ \/ \E err \in Codes : Returns(t, err) /\ UNCHANGED <<queue, hasRead>>
         \/ /\ o \notin hasRead
            /\ queue' = [queue EXCEPT ![o] = Tail(@)]
            /\ hasRead' = IF kind[o] = "reply" THEN hasRead \cup {o} ELSE hasRead
            /\ Goes(t, c)
  BY <1>1, Zenon DEF PopFront
<1>3. CASE \E err \in Codes : Returns(t, err) /\ UNCHANGED <<queue, hasRead>>
  BY <1>2, <1>3, ReturnStep DEF objVars
<1>4. CASE /\ o \notin hasRead
           /\ queue' = [queue EXCEPT ![o] = Tail(@)]
           /\ hasRead' = IF kind[o] = "reply" THEN hasRead \cup {o} ELSE hasRead
           /\ Goes(t, c)
  <2>1. queue[o] \in Seq(MessageOf(cap)) /\ queue[o] # <<>>
    BY <1>1, <1>4, Zenon DEF IInv, RepliesInv, PopFront
  <2>2. m \in MessageOf(cap) /\ Tail(queue[o]) \in Seq(MessageOf(cap))
    BY <2>1
  <2>3. m.data \in Data /\ m.caps \in Seq(Travel(cap)) /\ m.reply \in Travel(cap)
    BY <2>2, Zenon DEF MessageOf
  <2>. HIDE DEF m
  <2>4. c \in CallOf(cap) /\ c.pc = "deliver"
    BY <1>1, <2>3, Zenon DEF CallOf
  <2>5. CallInv(cap, table, nextId, t, c)
    BY <2>4, TypedCall, Zenon
  <2>. HIDE DEF c, o
  <2>6. queue' \in [Obj -> Seq(MessageOf(cap))]
    BY <1>1, <1>4, <2>2, Zenon DEF IInv
  <2>7. RepliesInv'
    <3>1. \A x \in Obj : x # o => queue'[x] = queue[x]
      BY <1>4, Zenon DEF IInv
    <3>2. o \in hasWritten => o \in hasRead'
      BY <1>4, Zenon DEF IInv, RepliesInv
    <3>3. hasRead \subseteq hasRead'
      BY <1>4, Zenon
    <3>. QED
      BY <1>2, <3>1, <3>2, <3>3, Zenon DEF IInv, RepliesInv
  <2>8. /\ call' \in [Thread -> CallOf(cap)]
        /\ \A u \in Thread : call'[u] = IF u = t THEN c ELSE call[u]
    BY <1>4, <2>4, Zenon DEF IInv, Goes
  <2>9. \A u \in Thread : CallInv(cap, table, nextId, u, call'[u])
    BY <2>5, <2>8, Zenon DEF IInv
  <2>. QED
    BY <1>2, <2>6, <2>7, <2>8, <2>9, Zenon DEF IInv
<1>. QED
  BY <1>2, <1>3, <1>4

(* A capability of the received message is added to the receiver's table.  *)
LEMMA DeliverStep ==
  ASSUME IInv, NEW t \in Thread, Deliver(t)
  PROVE  IInv'
<1>. DEFINE p == ProcessOf[t]
            d == Head(call[t].caps)
            c == [call[t] EXCEPT !.caps = Tail(@), !.got = Append(@, NextCapId(p))]
<1>1. /\ call[t] \in CallOf(cap) /\ call[t].pc = "deliver" /\ call[t].caps # <<>>
      /\ AddExistingCapability(p, d) /\ Goes(t, c) /\ UNCHANGED <<cap, objVars>>
  BY DEF IInv, Deliver
<1>2. p \in Process /\ NextCapId(p) \in Id
  BY <1>1, ProcessOfType, RoomForOne DEF IInv, NextCapId, AddExistingCapability
<1>3. /\ call[t].caps \in Seq(Travel(cap)) /\ call[t].got \in Seq(Id)
  BY <1>1 DEF CallOf
<1>4. /\ d \in Travel(cap) /\ Tail(call[t].caps) \in Seq(Travel(cap))
      /\ Append(call[t].got, NextCapId(p)) \in Seq(Id)
  BY <1>1, <1>2, <1>3
<1>. HIDE DEF d, p
<1>5. c \in CallOf(cap) /\ c.pc = "deliver"
  BY <1>1, <1>4, Zenon DEF CallOf
<1>. HIDE DEF c
<1>. QED
  BY <1>1, <1>4, <1>5, InsertStep, Zenon DEF p

(* The reply capability of the received message is added to the receiver's *)
(* table.                                                                  *)
LEMMA DeliverReplyStep ==
  ASSUME IInv, NEW t \in Thread, DeliverReply(t)
  PROVE  IInv'
<1>. DEFINE p == ProcessOf[t]
            s == Returned(call[t], "OK")
            c == [s EXCEPT !.rid = NextCapId(p)]
<1>1. /\ cap \in Seq(CapRec) /\ call[t] \in CallOf(cap)
      /\ "OK" \in Codes /\ "INTERNAL" \in Codes
  BY DEF IInv, Codes
<1>2. CASE \E err \in Codes : Returns(t, err) /\ UNCHANGED <<table, nextId>>
  BY <1>2, ReturnStep DEF DeliverReply
<1>3. CASE AddExistingCapability(p, call[t].reply) /\ Goes(t, c)
  <2>1. call[t].reply \in Travel(cap) /\ UNCHANGED <<cap, objVars>>
    BY <1>1 DEF CallOf, DeliverReply
  <2>2. p \in Process /\ NextCapId(p) \in Id
    BY <1>3, ProcessOfType, RoomForOne DEF IInv, NextCapId, AddExistingCapability
  <2>3. s \in CallOf(cap) /\ s.pc = "user"
    BY <1>1, ReturnedType, Zenon
  <2>. HIDE DEF s, p
  <2>4. c \in CallOf(cap) /\ c.pc = "user"
    BY <2>2, <2>3, Zenon DEF CallOf
  <2>. HIDE DEF c
  <2>. QED
    BY <1>3, <2>1, <2>4, InsertStep, Zenon DEF p
<1>. QED
  BY <1>1, <1>2, <1>3 DEF DeliverReply

(* WriteKernel appends a message that carries no capability.               *)
LEMMA IrqMessageStep ==
  ASSUME IInv, NEW irq \in Irq, NEW d \in Data, IrqMessage(irq, d)
  PROVE  IInv'
<1>. DEFINE o == driver[irq]
            m == [data |-> d, caps |-> <<>>, reply |-> NoCap]
<1>1. /\ queue' = [queue EXCEPT ![o] = Append(@, m)]
      /\ UNCHANGED <<kind, hasWritten, hasRead, cap, table, nextId, call>>
  BY Zenon DEF IrqMessage
<1>2. m \in MessageOf(cap)
  BY EmptySeq DEF MessageOf, Travel, NoCap, IInv
<1>. HIDE DEF m, o
<1>3. queue' \in [Obj -> Seq(MessageOf(cap))]
  <2>1. queue \in [Obj -> Seq(MessageOf(cap))]
    BY Zenon DEF IInv
  <2>2. ASSUME NEW x \in Obj PROVE Append(queue[x], m) \in Seq(MessageOf(cap))
    BY <1>2, <2>1
  <2>3. queue' = [queue EXCEPT ![o] = Append(@, m)]
    BY <1>1
  <2>. QED
    BY <2>1, <2>2, <2>3, Zenon
<1>4. RepliesInv'
  <2>1. \A x \in Obj : queue'[x] = IF x = o THEN Append(queue[x], m) ELSE queue[x]
    BY <1>1, Zenon DEF IInv
  <2>2. \A x \in Obj : Append(queue[x], m) # <<>>
    BY <1>2, AppendNotEmpty DEF IInv
  <2>. QED
    BY <1>1, <2>1, <2>2, Zenon DEF IInv, RepliesInv
<1>. QED
  BY <1>1, <1>3, <1>4, Zenon DEF IInv

(* A process that exits loses its table, and its threads stop.             *)
LEMMA ReleaseAllStep ==
  ASSUME IInv, NEW p \in Process, ReleaseAll(p)
  PROVE  IInv'
<1>. DEFINE dead(t) == [call[t] EXCEPT !.pc = "dead"]
<1>1. /\ call' = [t \in Thread |-> IF ProcessOf[t] = p THEN dead(t) ELSE call[t]]
      /\ table' = [table EXCEPT ![p] = [id \in Id |-> NoCap]]
      /\ UNCHANGED <<objVars, cap, nextId>>
  BY Zenon DEF ReleaseAll
<1>2. TableInv(cap, table', nextId)
  <2>. HIDE DEF dead
  <2>1. /\ table \in [Process -> [Id -> 0..Len(cap)]] /\ nextId \in [Process -> Nat \ {0}]
        /\ \A q \in Process, id \in Id :
             (id >= nextId[q] => table[q][id] = NoCap) /\ AtHome(cap, q, table[q][id])
        /\ cap \in Seq(CapRec) /\ table' = [table EXCEPT ![p] = [id \in Id |-> NoCap]]
    BY <1>1, Zenon DEF IInv, TableInv
  <2>2. \A q \in Process, id \in Id :
          table'[q][id] = IF q = p THEN NoCap ELSE table[q][id]
    BY <2>1, Zenon
  <2>3. table' \in [Process -> [Id -> 0..Len(cap)]]
    <3>1. NoCap \in 0..Len(cap)
      BY <2>1 DEF NoCap
    <3>. QED
      BY <2>1, <3>1, Zenon
  <2>4. \A q \in Process, id \in Id :
          (id >= nextId[q] => table'[q][id] = NoCap) /\ AtHome(cap, q, table'[q][id])
    BY <2>1, <2>2, Zenon DEF AtHome
  <2>. QED
    BY <2>1, <2>3, <2>4, Zenon DEF TableInv
<1>3. ASSUME NEW u \in Thread
      PROVE  CallInv(cap, table', nextId, u, call'[u])
  <2>1. CASE ProcessOf[u] = p
    <3>1. call[u] \in CallOf(cap) /\ "dead" \in Pcs
      BY Zenon DEF IInv, Pcs
    <3>2. dead(u) \in CallOf(cap) /\ dead(u).pc = "dead"
      BY <3>1, Zenon DEF CallOf
    <3>3. call'[u] = dead(u)
      BY <1>1, <2>1
    <3>. HIDE DEF dead
    <3>. QED
      BY <3>2, <3>3, TypedCall, Zenon
  <2>2. CASE ProcessOf[u] # p
    <3>1. call'[u] = call[u] /\ table'[ProcessOf[u]] = table[ProcessOf[u]]
      BY <1>1, <2>2, ProcessOfType DEF IInv, TableInv
    <3>2. CallInv(cap, table, nextId, u, call[u])
      BY DEF IInv
    <3>. QED
      BY <3>1, <3>2, Zenon DEF CallInv, Checked
  <2>. QED
    BY <2>1, <2>2, Zenon
<1>4. call' \in [Thread -> CallOf(cap)]
  BY <1>1, <1>3 DEF CallInv
<1>. QED
  BY <1>1, <1>2, <1>3, <1>4, ObjectsKept, Zenon DEF IInv

-----------------------------------------------------------------------------

(* The inductive invariant holds before the first system call.             *)
LEMMA InitHolds == Init => IInv
<1>. SUFFICES ASSUME Init PROVE IInv
  BY Zenon
<1>1. cap \in Seq(CapRec) /\ Len(cap) = 0
  BY EmptySeq DEF Init
<1>2. TableInv(cap, table, nextId)
  BY <1>1 DEF Init, TableInv, AtHome, NoCap
<1>3. queue \in [Obj -> Seq(MessageOf(cap))]
  BY EmptySeq DEF Init
<1>4. kind \in [Obj -> Kinds] /\ RepliesInv
  BY DEF Init, RepliesInv, Kinds
<1>5. PICK d \in Data : call = [t \in Thread |-> NoCall(d)]
  BY DEF Init
<1>6. NoCall(d) \in CallOf(cap) /\ NoCall(d).pc = "user"
  <2>1. /\ "user" \in Pcs /\ "none" \in Ops /\ "OK" \in Codes /\ {} \in SUBSET Perms
        /\ 0 \in Travel(cap) /\ NoCap = 0
    BY <1>1 DEF Pcs, Ops, Kinds, Codes, Travel, NoCap
  <2>. QED
    BY <2>1, EmptySeq, Zenon DEF NoCall, CallOf
<1>7. \A t \in Thread : CallInv(cap, table, nextId, t, call[t])
  BY <1>5, <1>6, TypedCall
<1>. QED
  BY <1>1, <1>2, <1>3, <1>4, <1>5, <1>6, <1>7, Zenon DEF IInv

(* Every step of a thread, of the driver manager or of an exit keeps it.   *)
LEMMA NextKeeps == IInv /\ [Next]_ipcVars => IInv'
<1>. SUFFICES ASSUME IInv, [Next]_ipcVars PROVE IInv'
  OBVIOUS
<1>1. CASE UNCHANGED ipcVars
  BY <1>1, Zenon DEF ipcVars, IInv, RepliesInv
<1>2. ASSUME NEW t \in Thread, SystemCall(t) PROVE IInv'
  <2>1. /\ {"endpoint", "port"} \subseteq Kinds \ {"none"}
        /\ {"channel", "port", "endpoint", "reply"} \subseteq Kinds
    BY Zenon DEF Kinds
  <2>2. CASE EndpointCreate(t) \/ PortCreate(t)
    BY <2>1, <2>2, EndpointOrPortCreateStep DEF EndpointCreate, PortCreate
  <2>3. CASE \E id \in Id, ids \in IdLists, d \in Data :
               \/ ChannelSend(t, id, ids, d) \/ PortSend(t, id, ids, d)
               \/ EndpointSend(t, id, ids, d) \/ ReplyPortSend(t, id, ids, d)
    BY <2>1, <2>3, SendStep
       DEF ChannelSend, PortSend, EndpointSend, ReplyPortSend
  <2>4. CASE \E id \in Id, bytes \in Rooms, room \in Rooms :
               \/ ChannelRecv(t, id, bytes, room) \/ PortRecv(t, id, bytes, room)
               \/ PortPoll(t, id, bytes, room) \/ EndpointRecv(t, id, bytes, room)
               \/ ReplyPortRecv(t, id, bytes, room)
    BY <2>1, <2>4, RecvStep, Zenon
       DEF ChannelRecv, PortRecv, PortPoll, EndpointRecv, ReplyPortRecv
  <2>. QED
    BY <1>2, <2>2, <2>3, <2>4, ChannelCreateStep, IrqRegisterStep, CapReleaseStep,
       CapDuplicateStep, Zenon DEF SystemCall
<1>3. ASSUME NEW t \in Thread, KernelStep(t) PROVE IInv'
  BY <1>3, MakeReplyPortStep, TranslateGetStep, TranslateReleaseStep, PushBackStep,
     PollCheckStep, PopFrontStep, DeliverStep, DeliverReplyStep, CapDuplicateAddStep,
     ChannelCreateSecondStep, RegisterListenerStep, Zenon
     DEF KernelStep
<1>. QED
  BY <1>1, <1>2, <1>3, IrqMessageStep, ReleaseAllStep DEF Next

(* TranslateRequestToIpcMessage checks Transmit in one access to the table *)
(* and removes the capability in another; still, for any number of         *)
(* processes, threads and calls, no capability without Transmit is ever in *)
(* a message or in the table of a process it was not made for.             *)
THEOREM UntransmittableNeverLeaves == Spec => []UntransmittableStays
<1>1. IInv => UntransmittableStays
  <2>. SUFFICES ASSUME IInv PROVE UntransmittableStays
    OBVIOUS
  <2>1. \A c \in Travel(cap) : CanTravel(c)
    BY DEF Travel, CanTravel
  <2>2. ASSUME NEW o \in Obj, NEW i \in 1..Len(queue[o])
        PROVE  /\ CanTravel(queue[o][i].reply)
               /\ \A j \in 1..Len(queue[o][i].caps) : CanTravel(queue[o][i].caps[j])
    <3>1. queue[o][i] \in MessageOf(cap)
      BY DEF IInv
    <3>2. queue[o][i].reply \in Travel(cap) /\ queue[o][i].caps \in Seq(Travel(cap))
      BY <3>1, Zenon DEF MessageOf
    <3>. QED
      BY <2>1, <3>2
  <2>3. ASSUME NEW t \in Thread
        PROVE  /\ CanTravel(call[t].reply)
               /\ \A j \in 1..Len(call[t].caps) : CanTravel(call[t].caps[j])
    <3>1. call[t].reply \in Travel(cap) /\ call[t].caps \in Seq(Travel(cap))
      BY DEF IInv, CallOf
    <3>. QED
      BY <2>1, <3>1
  <2>4. ASSUME NEW p \in Process, NEW id \in Id, table[p][id] # NoCap
        PROVE  CanTravel(table[p][id]) \/ cap[table[p][id]].by = p
    BY <2>4, Zenon DEF IInv, TableInv, AtHome, CanTravel
  <2>. QED
    BY <2>2, <2>3, <2>4, Zenon DEF UntransmittableStays
<1>. QED
  BY <1>1, InitHolds, NextKeeps, PTL DEF Spec

(* The race between the two accesses can put a null capability in a        *)
(* message only if a second thread of the sender's process takes part.     *)
THEOREM LoneSenderIsSafe == Spec => []LoneSenderSendsAll
<1>1. IInv => LoneSenderSendsAll
  BY Zenon DEF IInv, CallInv, Sending, LoneSenderSendsAll
<1>. QED
  BY <1>1, InitHolds, NextKeeps, PTL DEF Spec

-----------------------------------------------------------------------------
(* A capability the kernel has made is in at most one place at a time      *)
(* (CapabilityInOnePlace), and the IPC state stays well typed (IpcTypeOK). *)

(* Where a capability is. *)

(* The slots of a message, or of the message on a thread's kernel stack:   *)
(* the reply capability is slot 0.                                         *)
Lot(m, j) == IF j = 0 THEN m.reply ELSE m.caps[j]

InMessage(m, c, j) == j \in 0..Len(m.caps) /\ Lot(m, j) = c

InQueue(qu, c, o, i, j) == i \in 1..Len(qu[o]) /\ InMessage(qu[o][i], c, j)

(* All the places that hold capability c are the same place: one entry of  *)
(* one table, ...                                                          *)
OneEntry(c, tb) ==
  \A p1, p2 \in Process, i1, i2 \in Id :
    tb[p1][i1] = c /\ tb[p2][i2] = c => p1 = p2 /\ i1 = i2

(* ... one slot of one message of one queue, ...                           *)
OneQueued(c, qu) ==
  \A o1, o2 \in Obj, i1, i2, j1, j2 \in Nat :
    InQueue(qu, c, o1, i1, j1) /\ InQueue(qu, c, o2, i2, j2)
      => o1 = o2 /\ i1 = i2 /\ j1 = j2

(* ... or one slot of one kernel stack, ...                                *)
OneHeld(c, ca) ==
  \A t1, t2 \in Thread, j1, j2 \in Nat :
    InMessage(ca[t1], c, j1) /\ InMessage(ca[t2], c, j2) => t1 = t2 /\ j1 = j2

(* ... and only one of these.                                              *)
NotBoth(c, tb, qu, ca) ==
  /\ \A p \in Process, id \in Id : tb[p][id] = c =>
       /\ \A o \in Obj, i, j \in Nat : ~InQueue(qu, c, o, i, j)
       /\ \A t \in Thread, j \in Nat : ~InMessage(ca[t], c, j)
  /\ \A o \in Obj, i, j \in Nat : InQueue(qu, c, o, i, j) =>
       \A t \in Thread, k \in Nat : ~InMessage(ca[t], c, k)

OnePlace(c, tb, qu, ca) ==
  OneEntry(c, tb) /\ OneQueued(c, qu) /\ OneHeld(c, ca) /\ NotBoth(c, tb, qu, ca)

PlacesInv == \A c \in 1..Len(cap) : OnePlace(c, table, queue, call)

(* A step that puts c nowhere it was not keeps it in one place.            *)
LEMMA FewerPlaces ==
  ASSUME NEW c, NEW tb, NEW qu, NEW ca, NEW tb2, NEW qu2, NEW ca2,
         OnePlace(c, tb, qu, ca),
         \A p \in Process, id \in Id : tb2[p][id] = c => tb[p][id] = c,
         \A o \in Obj, i, j \in Nat : InQueue(qu2, c, o, i, j) => InQueue(qu, c, o, i, j),
         \A t \in Thread, j \in Nat : InMessage(ca2[t], c, j) => InMessage(ca[t], c, j)
  PROVE  OnePlace(c, tb2, qu2, ca2)
<1>1. OneEntry(c, tb2)
  BY DEF OnePlace, OneEntry
<1>2. OneQueued(c, qu2)
  <2>1. ASSUME NEW o1 \in Obj, NEW o2 \in Obj, NEW i1 \in Nat, NEW i2 \in Nat,
               NEW j1 \in Nat, NEW j2 \in Nat,
               InQueue(qu2, c, o1, i1, j1), InQueue(qu2, c, o2, i2, j2)
        PROVE  o1 = o2 /\ i1 = i2 /\ j1 = j2
    <3>1. InQueue(qu, c, o1, i1, j1) /\ InQueue(qu, c, o2, i2, j2)
      BY <2>1, Zenon
    <3>. QED
      BY <3>1, Zenon DEF OnePlace, OneQueued
  <2>. QED
    BY <2>1, ZenonT(40) DEF OneQueued
<1>3. OneHeld(c, ca2)
  BY Zenon DEF OnePlace, OneHeld
<1>4. NotBoth(c, tb2, qu2, ca2)
  BY Zenon DEF OnePlace, NotBoth
<1>. QED
  BY <1>1, <1>2, <1>3, <1>4, Zenon DEF OnePlace

StackShifts(c, ca, ca2, t0) ==
  \A t \in Thread, j \in Nat : InMessage(ca2[t], c, j) =>
    InMessage(ca[t], c, IF t = t0 /\ j # 0 THEN j + 1 ELSE j)

QueueShifts(c, qu, qu2, o0) ==
  \A o \in Obj, i, j \in Nat : InQueue(qu2, c, o, i, j) =>
    InQueue(qu, c, o, IF o = o0 THEN i + 1 ELSE i, j)

(* Deliver shifts the slots of the message it takes the first one from, ... *)
LEMMA ShiftedStack ==
  ASSUME NEW c, NEW tb, NEW qu, NEW ca, NEW tb2, NEW ca2, NEW t0,
         OnePlace(c, tb, qu, ca),
         \A p \in Process, id \in Id : tb2[p][id] = c => tb[p][id] = c,
         StackShifts(c, ca, ca2, t0)
  PROVE  OnePlace(c, tb2, qu, ca2)
<1>0. OneEntry(c, tb) /\ OneQueued(c, qu) /\ OneHeld(c, ca) /\ NotBoth(c, tb, qu, ca)
  BY Zenon DEF OnePlace
<1>1. ASSUME NEW t1 \in Thread, NEW t2 \in Thread, NEW j1 \in Nat, NEW j2 \in Nat,
             InMessage(ca2[t1], c, j1), InMessage(ca2[t2], c, j2)
      PROVE  t1 = t2 /\ j1 = j2
  <2>. DEFINE k1 == IF t1 = t0 /\ j1 # 0 THEN j1 + 1 ELSE j1
              k2 == IF t2 = t0 /\ j2 # 0 THEN j2 + 1 ELSE j2
  <2>1. InMessage(ca[t1], c, k1) /\ InMessage(ca[t2], c, k2) /\ k1 \in Nat /\ k2 \in Nat
    BY <1>1 DEF StackShifts
  <2>2. t1 = t2 /\ k1 = k2
    <3>. HIDE DEF k1, k2
    <3>. QED
      BY <1>0, <2>1, Zenon DEF OneHeld
  <2>. QED
    BY <2>2
<1>2. ASSUME NEW t \in Thread, NEW j \in Nat, InMessage(ca2[t], c, j)
      PROVE  \E k \in Nat : InMessage(ca[t], c, k)
  BY <1>2 DEF StackShifts
<1>3. NotBoth(c, tb2, qu, ca2)
  BY <1>0, <1>2, Zenon DEF NotBoth
<1>4. OneHeld(c, ca2)
  BY <1>1, Zenon DEF OneHeld
<1>5. OneEntry(c, tb2)
  BY <1>0 DEF OneEntry
<1>. QED
  BY <1>0, <1>3, <1>4, <1>5, Zenon DEF OnePlace

(* ... and PopFront the messages of the queue it takes the first one from. *)
LEMMA ShiftedQueue ==
  ASSUME NEW c, NEW tb, NEW qu, NEW ca, NEW qu2, NEW ca2, NEW o0,
         OnePlace(c, tb, qu, ca),
         QueueShifts(c, qu, qu2, o0),
         \A t \in Thread, j \in Nat : InMessage(ca2[t], c, j) => InMessage(ca[t], c, j)
  PROVE  OnePlace(c, tb, qu2, ca2)
<1>0. OneEntry(c, tb) /\ OneQueued(c, qu) /\ OneHeld(c, ca) /\ NotBoth(c, tb, qu, ca)
  BY Zenon DEF OnePlace
<1>1. ASSUME NEW o1 \in Obj, NEW o2 \in Obj, NEW i1 \in Nat, NEW i2 \in Nat,
             NEW j1 \in Nat, NEW j2 \in Nat,
             InQueue(qu2, c, o1, i1, j1), InQueue(qu2, c, o2, i2, j2)
      PROVE  o1 = o2 /\ i1 = i2 /\ j1 = j2
  <2>. DEFINE k1 == IF o1 = o0 THEN i1 + 1 ELSE i1
              k2 == IF o2 = o0 THEN i2 + 1 ELSE i2
  <2>1. InQueue(qu, c, o1, k1, j1) /\ InQueue(qu, c, o2, k2, j2) /\ k1 \in Nat /\ k2 \in Nat
    BY <1>1 DEF QueueShifts
  <2>2. o1 = o2 /\ k1 = k2 /\ j1 = j2
    <3>. HIDE DEF k1, k2
    <3>. QED
      BY <1>0, <2>1, Zenon DEF OneQueued
  <2>. QED
    BY <2>2
<1>2. ASSUME NEW o \in Obj, NEW i \in Nat, NEW j \in Nat, InQueue(qu2, c, o, i, j)
      PROVE  \E k \in Nat : InQueue(qu, c, o, k, j)
  BY <1>2 DEF QueueShifts
<1>3. NotBoth(c, tb, qu2, ca2)
  BY <1>0, <1>2, Zenon DEF NotBoth
<1>4. OneQueued(c, qu2)
  BY <1>1, ZenonT(40) DEF OneQueued
<1>5. OneHeld(c, ca2)
  BY <1>0, Zenon DEF OneHeld
<1>. QED
  BY <1>0, <1>3, <1>4, <1>5, Zenon DEF OnePlace

(* A message without capabilities holds none. *)
LEMMA EmptyMessage ==
  ASSUME NEW m, m.caps = <<>>, m.reply = NoCap, NEW c \in Nat \ {0}, NEW j
  PROVE  ~InMessage(m, c, j)
  BY EmptySeq DEF InMessage, Lot, NoCap

(* What a message that is typed holds was made before. *)
LEMMA MessageRange ==
  ASSUME NEW k \in Seq(CapRec), NEW m, m.caps \in Seq(Travel(k)), m.reply \in Travel(k),
         NEW c \in Nat, NEW j, InMessage(m, c, j)
  PROVE  c \in Travel(k) /\ c <= Len(k) /\ j \in Nat
<1>1. Lot(m, j) \in Travel(k)
  BY DEF InMessage, Lot
<1>. QED
  BY <1>1 DEF InMessage, Travel

(* A capability that is not made yet is nowhere. *)
LEMMA NotYetMade ==
  ASSUME IInv, NEW c \in Nat, c > Len(cap)
  PROVE  /\ \A p \in Process, id \in Id : table[p][id] # c
         /\ \A o \in Obj, i, j \in Nat : ~InQueue(queue, c, o, i, j)
         /\ \A t \in Thread, j \in Nat : ~InMessage(call[t], c, j)
<1>1. cap \in Seq(CapRec) /\ Len(cap) \in Nat
  BY DEF IInv
<1>2. \A p \in Process, id \in Id : table[p][id] \in 0..Len(cap)
  BY DEF IInv, TableInv
<1>3. ASSUME NEW o \in Obj, NEW i \in Nat, NEW j \in Nat, InQueue(queue, c, o, i, j)
      PROVE  FALSE
  <2>1. queue[o][i] \in MessageOf(cap) /\ InMessage(queue[o][i], c, j)
    BY <1>3 DEF IInv, InQueue
  <2>. QED
    BY <1>1, <2>1, MessageRange, SMTT(30) DEF MessageOf
<1>4. ASSUME NEW t \in Thread, NEW j \in Nat, InMessage(call[t], c, j)
      PROVE  FALSE
  <2>1. call[t].caps \in Seq(Travel(cap)) /\ call[t].reply \in Travel(cap)
    BY Zenon DEF IInv, CallOf
  <2>. QED
    BY <1>1, <1>4, <2>1, MessageRange
<1>. QED
  BY <1>2, <1>3, <1>4

(* The message on the stack is kept, or given up. *)
KeepsMessage(c, d) ==
  \/ d.caps = c.caps /\ d.reply = c.reply
  \/ d.caps = <<>> /\ d.reply = NoCap

(* A step that moves no capability: it gives capabilities up, or makes new *)
(* ones and enters each of them once.                                      *)
LEMMA NothingMoves ==
  ASSUME IInv, PlacesInv, NEW t \in Thread, NEW d, Goes(t, d), KeepsMessage(call[t], d),
         queue' = queue, Len(cap') \in Nat,
         \A p \in Process, id \in Id :
           table'[p][id] \in {table[p][id], NoCap} \/ table'[p][id] > Len(cap),
         \A p1, p2 \in Process, i1, i2 \in Id :
           table'[p1][i1] > Len(cap) /\ table'[p1][i1] = table'[p2][i2]
             => p1 = p2 /\ i1 = i2
  PROVE  PlacesInv'
<1>. SUFFICES ASSUME NEW c \in 1..Len(cap')
              PROVE  OnePlace(c, table', queue', call')
  BY Zenon DEF PlacesInv
<1>1. Len(cap) \in Nat /\ c \in Nat \ {0}
  BY DEF IInv
<1>2. \A u \in Thread : call'[u] = IF u = t THEN d ELSE call[u]
  BY Zenon DEF IInv, Goes
<1>3. \A u \in Thread, j \in Nat : InMessage(call'[u], c, j) => InMessage(call[u], c, j)
  <2>. SUFFICES ASSUME NEW u \in Thread, NEW j \in Nat, InMessage(call'[u], c, j)
                PROVE  InMessage(call[u], c, j)
    BY Zenon
  <2>1. CASE u # t
    BY <1>2, <2>1
  <2>2. CASE u = t /\ d.caps = <<>> /\ d.reply = NoCap
    BY <1>1, <1>2, <2>2, EmptyMessage, Zenon
  <2>3. CASE u = t /\ d.caps = call[t].caps /\ d.reply = call[t].reply
    BY <1>2, <2>3, Zenon DEF InMessage, Lot
  <2>. QED
    BY <2>1, <2>2, <2>3, Zenon DEF KeepsMessage
<1>4. CASE c <= Len(cap)
  <2>1. OnePlace(c, table, queue, call)
    BY <1>1, <1>4 DEF PlacesInv
  <2>2. \A p \in Process, id \in Id : table'[p][id] = c => table[p][id] = c
    BY <1>1, <1>4 DEF NoCap
  <2>. QED
    BY <1>3, <2>1, <2>2, FewerPlaces, Zenon
<1>5. CASE c > Len(cap)
  <2>1. /\ \A o \in Obj, i, j \in Nat : ~InQueue(queue', c, o, i, j)
        /\ \A u \in Thread, j \in Nat : ~InMessage(call'[u], c, j)
    BY <1>1, <1>3, <1>5, NotYetMade, Zenon
  <2>2. CASE \E p \in Process, id \in Id : table'[p][id] = c
    <3>1. PICK p0 \in Process, id0 \in Id : table'[p0][id0] = c
      BY <2>2, Zenon
    <3>2. table'[p0][id0] > Len(cap)
      BY <1>5, <3>1, Zenon
    <3>3. \A p \in Process, id \in Id : table'[p][id] = c => p = p0 /\ id = id0
      BY <3>1, <3>2, Zenon
    <3>. QED
      BY <2>1, <3>3, SMTT(30) DEF OnePlace, OneEntry, OneQueued, OneHeld, NotBoth
  <2>3. CASE ~\E p \in Process, id \in Id : table'[p][id] = c
    BY <2>1, <2>3, Zenon DEF OnePlace, OneEntry, OneQueued, OneHeld, NotBoth
  <2>. QED
    BY <2>2, <2>3, Zenon
<1>. QED
  BY <1>1, <1>4, <1>5

(* Steps that leave the tables as they are, ... *)
LEMMA NoTableMoves ==
  ASSUME IInv, PlacesInv, NEW t \in Thread, NEW d, Goes(t, d), KeepsMessage(call[t], d),
         UNCHANGED <<queue, cap, table>>
  PROVE  PlacesInv'
<1>1. Len(cap') \in Nat
  BY DEF IInv
<1>2. \A p \in Process, id \in Id :
        table'[p][id] \in {table[p][id], NoCap} /\ ~(table'[p][id] > Len(cap))
  BY DEF IInv, TableInv
<1>. QED
  BY <1>1, <1>2, NothingMoves, Zenon

(* ... take a capability out of one, ... *)
LEMMA OneReleased ==
  ASSUME IInv, PlacesInv, NEW t \in Thread, NEW d, Goes(t, d), KeepsMessage(call[t], d),
         NEW p \in Process, NEW id \in Id, ReleasesCapability(p, id),
         UNCHANGED <<queue, cap>>
  PROVE  PlacesInv'
<1>1. Len(cap') \in Nat /\ Len(cap) \in Nat
  BY DEF IInv
<1>2. \A q \in Process, i \in Id :
        table'[q][i] = IF q = p /\ i = id THEN NoCap ELSE table[q][i]
  BY Zenon DEF IInv, TableInv, ReleasesCapability
<1>3. \A q \in Process, i \in Id :
        table'[q][i] \in {table[q][i], NoCap} /\ ~(table'[q][i] > Len(cap))
  BY <1>1, <1>2 DEF IInv, TableInv, NoCap
<1>. QED
  BY <1>1, <1>3, NothingMoves, Zenon

(* ... or enter a new one. *)
LEMMA OneMade ==
  ASSUME IInv, PlacesInv, NEW t \in Thread, NEW d, Goes(t, d), KeepsMessage(call[t], d),
         NEW o, NEW perms, AddNewCapability(ProcessOf[t], o, perms), queue' = queue,
         IInv'
  PROVE  PlacesInv'
<1>. DEFINE p == ProcessOf[t]
<1>1. Len(cap') \in Nat /\ Len(cap) \in Nat /\ p \in Process
  BY ProcessOfType DEF IInv
<1>2. table' = [table EXCEPT ![p][nextId[p]] = Len(cap) + 1] /\ nextId[p] \in Id
  BY <1>1, RoomForOne, Zenon
     DEF IInv, AddNewCapability, AddExistingCapability, NewCap, NextCapId
<1>. HIDE DEF p
<1>3. \A q \in Process, i \in Id :
        table'[q][i] = IF q = p /\ i = nextId[p] THEN Len(cap) + 1 ELSE table[q][i]
  BY <1>1, <1>2, Zenon DEF IInv, TableInv
<1>4. \A q \in Process, i \in Id : ~(table[q][i] > Len(cap))
  BY DEF IInv, TableInv
<1>. QED
  BY <1>1, <1>3, <1>4, NothingMoves

(* TranslateRelease moves what the id names from the table to the message. *)
LEMMA TranslateReleasePlaces ==
  ASSUME IInv, PlacesInv, NEW t \in Thread, TranslateRelease(t), IInv'
  PROVE  PlacesInv'
<1>. DEFINE p == ProcessOf[t]
            id == Head(call[t].ids)
            g == table[p][id]
            n == Len(call[t].caps) + 1
<1>1. /\ call[t] \in CallOf(cap) /\ call[t].ids \in Seq(Id) /\ call[t].ids # <<>>
      /\ call[t].caps \in Seq(Travel(cap))
  BY Zenon DEF IInv, CallInv, Checked, CallOf, TranslateRelease
<1>2. p \in Process /\ id \in Id
  BY <1>1, ProcessOfType
<1>3. /\ table' = [table EXCEPT ![p][id] = NoCap]
      /\ call' = [call EXCEPT ![t] = [call[t] EXCEPT !.pc = "translate", !.ids = Tail(@),
                                        !.caps = Append(@, g)]]
      /\ queue' = queue /\ cap' = cap
  BY <1>2 DEF TranslateRelease, ReleasesCapability, Goes, GetCapability, Table, objVars
<1>. HIDE DEF p, id
<1>4. \A q \in Process, i \in Id :
        table'[q][i] = IF q = p /\ i = id THEN NoCap ELSE table[q][i]
  BY <1>2, <1>3, Zenon DEF IInv, TableInv
<1>5. /\ \A u \in Thread : u # t => call'[u] = call[u]
      /\ call'[t].caps = Append(call[t].caps, g)
      /\ call'[t].reply = call[t].reply
  BY <1>1, <1>3, Zenon DEF IInv, CallOf
<1>. HIDE DEF g
<1>6. n \in Nat \ {0} /\ Len(call'[t].caps) = n /\ call'[t].caps[n] = g
      /\ \A j \in 1..Len(call[t].caps) : call'[t].caps[j] = call[t].caps[j]
  BY <1>1, <1>5, SMTT(30)
<1>7. \A c, j : InMessage(call'[t], c, j) => InMessage(call[t], c, j) \/ (c = g /\ j = n)
  BY <1>1, <1>5, <1>6, SMTT(30) DEF InMessage, Lot
<1>. SUFFICES ASSUME NEW c \in 1..Len(cap)
              PROVE  OnePlace(c, table', queue', call')
  BY <1>3, Zenon DEF PlacesInv
<1>8. OnePlace(c, table, queue, call) /\ c # NoCap
  BY DEF PlacesInv, NoCap, IInv
<1>9. CASE c # g
  <2>1. \A u \in Thread, j \in Nat : InMessage(call'[u], c, j) => InMessage(call[u], c, j)
    BY <1>5, <1>7, <1>9, Zenon
  <2>2. \A q \in Process, i \in Id : table'[q][i] = c => table[q][i] = c
    BY <1>4, <1>8, Zenon
  <2>3. \A o \in Obj, i, j \in Nat : InQueue(queue', c, o, i, j) => InQueue(queue, c, o, i, j)
    BY <1>3
  <2>. QED
    BY <1>8, <2>1, <2>2, <2>3, FewerPlaces, Zenon
<1>10. CASE c = g
  <2>1. /\ \A q \in Process, i \in Id : table[q][i] = c => q = p /\ i = id
        /\ \A o \in Obj, i, j \in Nat : ~InQueue(queue, c, o, i, j)
        /\ \A u \in Thread, j \in Nat : ~InMessage(call[u], c, j)
    BY <1>2, <1>8, <1>10, Zenon DEF OnePlace, OneEntry, OneQueued, OneHeld, NotBoth, g
  <2>2. \A q \in Process, i \in Id : table'[q][i] # c
    BY <1>4, <1>8, <2>1
  <2>3. \A u \in Thread, j \in Nat : InMessage(call'[u], c, j) => u = t /\ j = n
    BY <1>5, <1>7, <2>1, Zenon
  <2>4. \A o \in Obj, i, j \in Nat : ~InQueue(queue', c, o, i, j)
    BY <1>3, <2>1
  <2>. QED
    BY <2>2, <2>3, <2>4, Zenon DEF OnePlace, OneEntry, OneQueued, OneHeld, NotBoth
<1>. QED
  BY <1>9, <1>10, Zenon

(* Deliver moves the first capability of the message to the table. *)
LEMMA DeliverPlaces ==
  ASSUME IInv, PlacesInv, NEW t \in Thread, Deliver(t), IInv'
  PROVE  PlacesInv'
<1>. DEFINE p == ProcessOf[t]
            g == Head(call[t].caps)
<1>1. /\ call[t] \in CallOf(cap) /\ call[t].caps # <<>>
      /\ call[t].caps \in Seq(Travel(cap))
  BY Zenon DEF IInv, CallOf, Deliver
<1>2. p \in Process /\ nextId[p] \in Id
  BY ProcessOfType, RoomForOne DEF IInv, Deliver, AddExistingCapability
<1>3. /\ table' = [table EXCEPT ![p][nextId[p]] = g]
      /\ call' = [call EXCEPT ![t] = [call[t] EXCEPT !.caps = Tail(@),
                                        !.got = Append(@, NextCapId(p))]]
      /\ queue' = queue /\ cap' = cap
  BY DEF Deliver, AddExistingCapability, NextCapId, Goes, objVars
<1>. HIDE DEF p
<1>4. \A q \in Process, i \in Id :
        table'[q][i] = IF q = p /\ i = nextId[p] THEN g ELSE table[q][i]
  BY <1>2, <1>3, SMTT(30) DEF IInv, TableInv
<1>5. /\ \A u \in Thread : u # t => call'[u] = call[u]
      /\ call'[t].caps = Tail(call[t].caps)
      /\ call'[t].reply = call[t].reply
  BY <1>1, <1>3, Zenon DEF IInv, CallOf
<1>6. /\ g = call[t].caps[1] /\ Len(call[t].caps) \in Nat \ {0}
      /\ Len(call'[t].caps) = Len(call[t].caps) - 1
      /\ \A j \in 1..(Len(call[t].caps) - 1) : call'[t].caps[j] = call[t].caps[j + 1]
  BY <1>1, <1>5
<1>. HIDE DEF g
<1>7. \A c : \A j \in Nat : InMessage(call'[t], c, j) =>
        InMessage(call[t], c, IF j # 0 THEN j + 1 ELSE j)
  BY <1>5, <1>6 DEF InMessage, Lot
<1>8. InMessage(call[t], g, 1)
  BY <1>6 DEF InMessage, Lot
<1>. SUFFICES ASSUME NEW c \in 1..Len(cap)
              PROVE  OnePlace(c, table', queue', call')
  BY <1>3, Zenon DEF PlacesInv
<1>9. OnePlace(c, table, queue, call) /\ c # NoCap
  BY DEF PlacesInv, NoCap, IInv
<1>10. CASE c # g
  <2>1. StackShifts(c, call, call', t)
    BY <1>5, <1>7, Zenon DEF StackShifts
  <2>2. \A q \in Process, i \in Id : table'[q][i] = c => table[q][i] = c
    BY <1>4, <1>10
  <2>3. OnePlace(c, table', queue, call')
    BY <1>9, <2>1, <2>2, ShiftedStack, Zenon
  <2>. QED
    BY <1>3, <2>3
<1>11. CASE c = g
  <2>1. /\ \A q \in Process, i \in Id : table[q][i] # c
        /\ \A o \in Obj, i, j \in Nat : ~InQueue(queue, c, o, i, j)
        /\ \A u \in Thread, j \in Nat : InMessage(call[u], c, j) => u = t /\ j = 1
    BY <1>8, <1>9, <1>11, Zenon DEF OnePlace, OneEntry, OneQueued, OneHeld, NotBoth
  <2>2. \A q \in Process, i \in Id : table'[q][i] = c => q = p /\ i = nextId[p]
    BY <1>4, <2>1, ZenonT(40)
  <2>3. ASSUME NEW u \in Thread, NEW j \in Nat, InMessage(call'[u], c, j)
        PROVE  FALSE
    <3>1. CASE u = t
      BY <1>7, <2>1, <2>3, <3>1
    <3>2. CASE u # t
      BY <1>5, <2>1, <2>3, <3>2, Zenon
    <3>. QED
      BY <3>1, <3>2
  <2>4. \A o \in Obj, i, j \in Nat : ~InQueue(queue', c, o, i, j)
    BY <1>3, <2>1
  <2>. QED
    BY <2>2, <2>3, <2>4, ZenonT(40) DEF OnePlace, OneEntry, OneQueued, OneHeld, NotBoth
<1>. QED
  BY <1>10, <1>11

(* DeliverReply moves the reply capability of the message to the table. *)
LEMMA DeliverReplyPlaces ==
  ASSUME IInv, PlacesInv, NEW t \in Thread, DeliverReply(t), IInv'
  PROVE  PlacesInv'
<1>. DEFINE p == ProcessOf[t]
            g == call[t].reply
<1>1. call[t] \in CallOf(cap) /\ UNCHANGED <<queue, cap>>
  BY DEF IInv, DeliverReply, objVars
<1>2. CASE \E err : Returns(t, err) /\ UNCHANGED <<table, nextId>>
  <2>1. PICK err : Goes(t, Returned(call[t], err)) /\ table' = table
    BY <1>2 DEF Returns
  <2>2. KeepsMessage(call[t], Returned(call[t], err))
    BY <1>1 DEF KeepsMessage, Returned, CallOf
  <2>. QED
    BY <1>1, <2>1, <2>2, NoTableMoves
<1>3. CASE /\ AddExistingCapability(p, g) /\ g # NoCap
           /\ Goes(t, [Returned(call[t], "OK") EXCEPT !.rid = NextCapId(p)])
  <2>1. p \in Process /\ nextId[p] \in Id
    BY <1>3, ProcessOfType, RoomForOne DEF IInv, AddExistingCapability
  <2>2. table' = [table EXCEPT ![p][nextId[p]] = g]
    BY <1>3 DEF AddExistingCapability, NextCapId
  <2>3. /\ \A u \in Thread : u # t => call'[u] = call[u]
        /\ call'[t].caps = <<>> /\ call'[t].reply = NoCap
    BY <1>1, <1>3 DEF Goes, Returned, IInv, CallOf
  <2>4. InMessage(call[t], g, 0)
    <3>1. Len(call[t].caps) \in Nat
      BY <1>1 DEF CallOf
    <3>. QED
      BY <3>1 DEF InMessage, Lot
  <2>. HIDE DEF p, g
  <2>5. \A q \in Process, i \in Id :
          table'[q][i] = IF q = p /\ i = nextId[p] THEN g ELSE table[q][i]
    BY <2>1, <2>2, Zenon DEF IInv, TableInv
  <2>. SUFFICES ASSUME NEW c \in 1..Len(cap)
                PROVE  OnePlace(c, table', queue', call')
    BY <1>1, Zenon DEF PlacesInv
  <2>6. OnePlace(c, table, queue, call) /\ c \in Nat \ {0}
    BY DEF PlacesInv, IInv
  <2>7. \A u \in Thread, j \in Nat :
          InMessage(call'[u], c, j) => u # t /\ InMessage(call[u], c, j)
    BY <2>3, <2>6, EmptyMessage, Zenon
  <2>8. \A o \in Obj, i, j \in Nat : InQueue(queue', c, o, i, j) => InQueue(queue, c, o, i, j)
    BY <1>1
  <2>9. CASE c # g
    <3>1. \A q \in Process, i \in Id : table'[q][i] = c => table[q][i] = c
      BY <2>5, <2>9
    <3>. QED
      BY <2>6, <2>7, <2>8, <3>1, FewerPlaces, ZenonT(40)
  <2>10. CASE c = g
    <3>1. /\ \A q \in Process, i \in Id : table[q][i] # c
          /\ \A o \in Obj, i, j \in Nat : ~InQueue(queue, c, o, i, j)
          /\ \A u \in Thread, j \in Nat : InMessage(call[u], c, j) => u = t
      BY <2>4, <2>6, <2>10, Zenon DEF OnePlace, OneEntry, OneQueued, OneHeld, NotBoth
    <3>2. \A q \in Process, i \in Id : table'[q][i] = c => q = p /\ i = nextId[p]
      BY <2>5, <3>1, ZenonT(40)
    <3>3. \A o \in Obj, i, j \in Nat : ~InQueue(queue', c, o, i, j)
      BY <2>8, <3>1, Zenon
    <3>4. \A u \in Thread, j \in Nat : ~InMessage(call'[u], c, j)
      BY <2>7, <3>1, Zenon
    <3>. QED
      BY <3>2, <3>3, <3>4, Zenon DEF OnePlace, OneEntry, OneQueued, OneHeld, NotBoth
  <2>. QED
    BY <2>9, <2>10
<1>. QED
  BY <1>2, <1>3 DEF DeliverReply

(* Append keeps the entries and adds one, of whatever kind.                *)
LEMMA AppendedEntry ==
  ASSUME NEW S, NEW s \in Seq(S), NEW m
  PROVE  /\ Len(Append(s, m)) = Len(s) + 1 /\ Len(s) \in Nat
         /\ Append(s, m)[Len(s) + 1] = m
         /\ \A k \in 1..Len(s) : Append(s, m)[k] = s[k]
<1>1. s \in Seq(S \cup {m}) /\ m \in S \cup {m}
  OBVIOUS
<1>. QED
  BY <1>1

(* PushBack moves the message from the stack to the queue, with a new      *)
(* capability to reply.                                                    *)
LEMMA PushBackPlaces ==
  ASSUME IInv, PlacesInv, NEW t \in Thread, PushBack(t), IInv'
  PROVE  PlacesInv'
<1>. DEFINE q == SendQueue(call[t].obj)
            asks == call[t].op = "endpoint"
            m == [data |-> call[t].data, caps |-> call[t].caps,
                  reply |-> IF asks THEN NewCap ELSE NoCap]
            n == Len(queue[q]) + 1
<1>1. /\ call[t] \in CallOf(cap) /\ table' = table
      /\ Len(cap) \in Nat /\ Len(cap') \in Nat
  <2>1. call[t] \in CallOf(cap) /\ cap \in Seq(CapRec) /\ cap' \in Seq(CapRec)
    BY Zenon DEF IInv
  <2>2. table' = table
    BY Zenon DEF PushBack
  <2>. QED
    BY <2>1, <2>2
<1>2. \A err : KeepsMessage(call[t], Returned(call[t], err))
  BY <1>1 DEF KeepsMessage, Returned, CallOf
<1>3. CASE Returns(t, "FAILED_PRECONDITION") /\ queue' = queue
  <2>1. \A p \in Process, id \in Id :
          table'[p][id] \in {table[p][id], NoCap} /\ ~(table'[p][id] > Len(cap))
    <3>1. \A p \in Process, id \in Id : table[p][id] \in 0..Len(cap)
      BY Zenon DEF IInv, TableInv
    <3>. QED
      BY <1>1, <3>1
  <2>2. Goes(t, Returned(call[t], "FAILED_PRECONDITION"))
    BY <1>3 DEF Returns
  <2>. QED
    BY <1>1, <1>2, <1>3, <2>1, <2>2, NothingMoves, Zenon
<1>4. CASE Returns(t, "OK") /\ queue' = [queue EXCEPT ![q] = Append(@, m)]
  <2>1. /\ \A u \in Thread : u # t => call'[u] = call[u]
        /\ call'[t].caps = <<>> /\ call'[t].reply = NoCap
    BY <1>1, <1>4, ZenonT(40) DEF Returns, Goes, Returned, IInv, CallOf
  <2>2. /\ m.caps = call[t].caps /\ m.reply \in {NewCap, NoCap}
    BY Zenon
  <2>. HIDE DEF m, q
  <2>3. \A o \in Obj : queue'[o] = IF o = q THEN Append(queue[o], m) ELSE queue[o]
    BY <1>4, Zenon DEF IInv
  <2>4. \A o \in Obj : queue[o] \in Seq(MessageOf(cap))
    BY Zenon DEF IInv
  <2>5. ASSUME NEW c \in Nat \ {0}, NEW o \in Obj, NEW i \in Nat, NEW j \in Nat,
               InQueue(queue', c, o, i, j)
        PROVE  InQueue(queue, c, o, i, j) \/ (o = q /\ i = n /\ InMessage(m, c, j))
    <3>1. CASE o # q
      BY <2>3, <2>5, <3>1, Zenon DEF InQueue
    <3>2. CASE o = q
      <4>1. /\ queue'[o] = Append(queue[o], m)
            /\ Len(queue'[o]) = Len(queue[o]) + 1 /\ Len(queue[o]) \in Nat
            /\ queue'[o][Len(queue[o]) + 1] = m
            /\ \A k \in 1..Len(queue[o]) : queue'[o][k] = queue[o][k]
        <5>1. queue'[o] = Append(queue[o], m) /\ queue[o] \in Seq(MessageOf(cap))
          BY <2>3, <2>4, <3>2, Zenon
        <5>2. /\ Len(Append(queue[o], m)) = Len(queue[o]) + 1 /\ Len(queue[o]) \in Nat
              /\ Append(queue[o], m)[Len(queue[o]) + 1] = m
              /\ \A k \in 1..Len(queue[o]) : Append(queue[o], m)[k] = queue[o][k]
          BY <5>1, AppendedEntry
        <5>. QED
          BY <5>1, <5>2, Zenon
      <4>2. i \in 1..Len(queue'[o]) /\ InMessage(queue'[o][i], c, j)
        BY <2>5, Zenon DEF InQueue
      <4>3. i \in 1..Len(queue[o]) \/ i = Len(queue[o]) + 1
        BY <4>1, <4>2
      <4>. QED
        BY <3>2, <4>1, <4>2, <4>3, Zenon DEF InQueue
    <3>. QED
      BY <3>1, <3>2
  <2>6. ASSUME NEW c \in Nat \ {0}, NEW j \in Nat, InMessage(m, c, j)
        PROVE  IF j = 0 THEN c = Len(cap) + 1 ELSE InMessage(call[t], c, j)
    BY <2>2, <2>6, Zenon DEF InMessage, Lot, NewCap, NoCap
  <2>. SUFFICES ASSUME NEW c \in 1..Len(cap')
                PROVE  OnePlace(c, table', queue', call')
    BY DEF PlacesInv
  <2>7. c \in Nat \ {0}
    BY <1>1
  <2>8. \A u \in Thread, j \in Nat :
          InMessage(call'[u], c, j) => u # t /\ InMessage(call[u], c, j)
    BY <2>1, <2>7, EmptyMessage, Zenon
  <2>9. \A p \in Process, id \in Id : table'[p][id] = c => table[p][id] = c
    BY <1>1, Zenon
  <2>10. CASE c <= Len(cap) /\ \E j \in Nat : InMessage(call[t], c, j)
    <3>1. PICK j0 \in Nat : InMessage(call[t], c, j0)
      BY <2>10, Zenon
    <3>2. OnePlace(c, table, queue, call)
      BY <1>1, <2>7, <2>10 DEF PlacesInv
    <3>3. /\ \A p \in Process, id \in Id : table[p][id] # c
          /\ \A o \in Obj, i, j \in Nat : ~InQueue(queue, c, o, i, j)
          /\ \A u \in Thread, j \in Nat : InMessage(call[u], c, j) => u = t /\ j = j0
      BY <3>1, <3>2, Zenon DEF OnePlace, OneEntry, OneQueued, OneHeld, NotBoth
    <3>4. \A o \in Obj, i, j \in Nat :
            InQueue(queue', c, o, i, j) => o = q /\ i = n /\ j = j0
      <4>. SUFFICES ASSUME NEW o \in Obj, NEW i \in Nat, NEW j \in Nat,
                           InQueue(queue', c, o, i, j)
                    PROVE  o = q /\ i = n /\ j = j0
        BY Zenon
      <4>1. o = q /\ i = n /\ InMessage(m, c, j)
        BY <2>5, <2>7, <3>3, Zenon
      <4>2. c # Len(cap) + 1
        BY <1>1, <2>7, <2>10
      <4>3. InMessage(call[t], c, j)
        BY <2>6, <2>7, <4>1, <4>2, Zenon
      <4>. QED
        BY <3>3, <4>1, <4>3, Zenon
    <3>5. \A u \in Thread, j \in Nat : ~InMessage(call'[u], c, j)
      BY <2>8, <3>3, Zenon
    <3>6. \A p \in Process, id \in Id : table'[p][id] # c
      BY <2>9, <3>3, Zenon
    <3>. QED
      BY <3>4, <3>5, <3>6, ZenonT(40) DEF OnePlace, OneEntry, OneQueued, OneHeld, NotBoth
  <2>11. CASE c <= Len(cap) /\ ~\E j \in Nat : InMessage(call[t], c, j)
    <3>1. OnePlace(c, table, queue, call)
      BY <1>1, <2>7, <2>11 DEF PlacesInv
    <3>2. \A j \in Nat : ~InMessage(m, c, j)
      <4>1. c # Len(cap) + 1
        BY <1>1, <2>7, <2>11
      <4>. QED
        BY <2>6, <2>7, <2>11, <4>1, Zenon
    <3>3. \A o \in Obj, i, j \in Nat : InQueue(queue', c, o, i, j) => InQueue(queue, c, o, i, j)
      BY <2>5, <2>7, <3>2, Zenon
    <3>. QED
      BY <2>8, <2>9, <3>1, <3>3, FewerPlaces, ZenonT(40)
  <2>12. CASE c > Len(cap)
    <3>1. /\ \A p \in Process, id \in Id : table[p][id] # c
          /\ \A o \in Obj, i, j \in Nat : ~InQueue(queue, c, o, i, j)
          /\ \A u \in Thread, j \in Nat : ~InMessage(call[u], c, j)
      BY <2>7, <2>12, NotYetMade, Zenon
    <3>2. \A o \in Obj, i, j \in Nat :
            InQueue(queue', c, o, i, j) => o = q /\ i = n /\ j = 0
      <4>. SUFFICES ASSUME NEW o \in Obj, NEW i \in Nat, NEW j \in Nat,
                           InQueue(queue', c, o, i, j)
                    PROVE  o = q /\ i = n /\ j = 0
        BY Zenon
      <4>1. o = q /\ i = n /\ InMessage(m, c, j)
        BY <2>5, <2>7, <3>1, Zenon
      <4>. QED
        BY <2>6, <2>7, <3>1, <4>1, Zenon
    <3>3. \A u \in Thread, j \in Nat : ~InMessage(call'[u], c, j)
      BY <2>8, <3>1, Zenon
    <3>4. \A p \in Process, id \in Id : table'[p][id] # c
      BY <2>9, <3>1, Zenon
    <3>. QED
      BY <3>2, <3>3, <3>4 DEF OnePlace, OneEntry, OneQueued, OneHeld, NotBoth
  <2>. QED
    BY <1>1, <2>7, <2>10, <2>11, <2>12
<1>. QED
  BY <1>3, <1>4, Zenon DEF PushBack

(* PopFront moves the oldest message of the queue to the stack.            *)
LEMMA PopFrontPlaces ==
  ASSUME IInv, PlacesInv, NEW t \in Thread, PopFront(t)
  PROVE  PlacesInv'
<1>. DEFINE o == call[t].obj
            m == Head(queue[o])
            d == [call[t] EXCEPT !.pc = "deliver", !.data = m.data, !.caps = m.caps,
                                 !.reply = m.reply]
<1>1. /\ call[t] \in CallOf(cap) /\ o \in Obj /\ UNCHANGED <<cap, table>>
  BY Zenon DEF IInv, CallInv, Aimed, PopFront
<1>2. CASE \E err : Returns(t, err) /\ queue' = queue
  <2>1. PICK err : Goes(t, Returned(call[t], err)) /\ queue' = queue
    BY <1>2, Zenon DEF Returns
  <2>2. KeepsMessage(call[t], Returned(call[t], err))
    BY <1>1 DEF KeepsMessage, Returned, CallOf
  <2>. QED
    BY <1>1, <2>1, <2>2, NoTableMoves
<1>3. CASE queue' = [queue EXCEPT ![o] = Tail(@)] /\ Goes(t, d) /\ o \notin hasRead
  <2>1. queue[o] \in Seq(MessageOf(cap)) /\ queue[o] # <<>>
    BY <1>1, <1>3, Zenon DEF IInv, RepliesInv, PopFront
  <2>2. /\ Len(queue[o]) \in Nat \ {0} /\ m = queue[o][1]
        /\ Len(Tail(queue[o])) = Len(queue[o]) - 1
        /\ \A i \in 1..(Len(queue[o]) - 1) : Tail(queue[o])[i] = queue[o][i + 1]
    BY <2>1
  <2>3. d.caps = m.caps /\ d.reply = m.reply
    BY <1>1 DEF CallOf
  <2>. HIDE DEF m, d, o
  <2>4. \A u \in Thread : call'[u] = IF u = t THEN d ELSE call[u]
    BY <1>3 DEF IInv, Goes
  <2>5. \A x \in Obj : queue'[x] = IF x = o THEN Tail(queue[o]) ELSE queue[x]
    BY <1>3 DEF IInv
  <2>. SUFFICES ASSUME NEW c \in 1..Len(cap)
                PROVE  OnePlace(c, table, queue', call')
    BY <1>1 DEF PlacesInv
  <2>6. OnePlace(c, table, queue, call)
    BY DEF PlacesInv
  <2>7. QueueShifts(c, queue, queue', o)
    <3>. SUFFICES ASSUME NEW x \in Obj, NEW i \in Nat, NEW j \in Nat,
                         InQueue(queue', c, x, i, j)
                  PROVE  InQueue(queue, c, x, IF x = o THEN i + 1 ELSE i, j)
      BY Zenon DEF QueueShifts
    <3>1. CASE x = o
      <4>1. i \in 1..Len(Tail(queue[o])) /\ InMessage(Tail(queue[o])[i], c, j)
        BY <2>5, <3>1, Zenon DEF InQueue
      <4>2. i + 1 \in 1..Len(queue[o]) /\ Tail(queue[o])[i] = queue[o][i + 1]
        BY <2>2, <4>1
      <4>. QED
        BY <3>1, <4>1, <4>2, Zenon DEF InQueue
    <3>2. CASE x # o
      BY <2>5, <3>2, Zenon DEF InQueue
    <3>. QED
      BY <3>1, <3>2
  <2>8. \A j \in Nat : InMessage(d, c, j) => InQueue(queue, c, o, 1, j)
    BY <2>2, <2>3 DEF InQueue, InMessage, Lot
  <2>9. CASE \A j \in Nat : ~InMessage(d, c, j)
    <3>1. \A u \in Thread, j \in Nat : InMessage(call'[u], c, j) => InMessage(call[u], c, j)
      BY <2>4, <2>9, Zenon
    <3>. QED
      BY <2>6, <2>7, <3>1, ShiftedQueue, Zenon
  <2>10. CASE \E j \in Nat : InMessage(d, c, j)
    <3>1. PICK j0 \in Nat : InMessage(d, c, j0)
      BY <2>10, Zenon
    <3>2. InQueue(queue, c, o, 1, j0)
      BY <2>8, <3>1
    <3>3. /\ \A p \in Process, id \in Id : table[p][id] # c
          /\ \A x \in Obj, i, j \in Nat : InQueue(queue, c, x, i, j) => x = o /\ i = 1 /\ j = j0
          /\ \A u \in Thread, j \in Nat : ~InMessage(call[u], c, j)
      BY <1>1, <2>6, <3>2, Zenon DEF OnePlace, OneEntry, OneQueued, OneHeld, NotBoth
    <3>4. \A u \in Thread, j \in Nat : InMessage(call'[u], c, j) => u = t /\ j = j0
      BY <1>1, <2>4, <2>8, <3>3, Zenon
    <3>5. ASSUME NEW x \in Obj, NEW i \in Nat, NEW j \in Nat, InQueue(queue', c, x, i, j)
          PROVE  FALSE
      <4>1. InQueue(queue, c, x, IF x = o THEN i + 1 ELSE i, j)
        BY <2>7, <3>5 DEF QueueShifts
      <4>2. x = o /\ i + 1 = 1
        <5>1. CASE x = o
          BY <3>3, <4>1, <5>1
        <5>2. CASE x # o
          BY <3>3, <4>1, <5>2, Zenon
        <5>. QED
          BY <5>1, <5>2
      <4>3. i >= 1
        BY <3>5 DEF InQueue
      <4>. QED
        BY <4>2, <4>3
    <3>. QED
      BY <3>3, <3>4, <3>5, ZenonT(40) DEF OnePlace, OneEntry, OneQueued, OneHeld, NotBoth
  <2>. QED
    BY <2>9, <2>10
<1>. QED
  BY <1>2, <1>3, Zenon DEF PopFront

(* The message of an interrupt carries no capability. *)
LEMMA IrqMessagePlaces ==
  ASSUME IInv, PlacesInv, NEW irq \in Irq, NEW d \in Data, IrqMessage(irq, d)
  PROVE  PlacesInv'
<1>. DEFINE q == driver[irq]
            m == [data |-> d, caps |-> <<>>, reply |-> NoCap]
<1>1. /\ queue' = [queue EXCEPT ![q] = Append(@, m)]
      /\ UNCHANGED <<cap, table, call>>
  BY Zenon DEF IrqMessage
<1>2. m.caps = <<>> /\ m.reply = NoCap
  OBVIOUS
<1>. HIDE DEF m, q
<1>. SUFFICES ASSUME NEW c \in 1..Len(cap)
              PROVE  OnePlace(c, table, queue', call)
  BY <1>1, Zenon DEF PlacesInv
<1>3. OnePlace(c, table, queue, call) /\ c \in Nat \ {0}
  BY DEF PlacesInv, IInv
<1>4. \A j \in Nat : ~InMessage(m, c, j)
  BY <1>2, <1>3, EmptyMessage
<1>5. ASSUME NEW o \in Obj, NEW i \in Nat, NEW j \in Nat, InQueue(queue', c, o, i, j)
      PROVE  InQueue(queue, c, o, i, j)
  <2>1. queue'[o] = IF o = q THEN Append(queue[o], m) ELSE queue[o]
    BY <1>1, Zenon DEF IInv
  <2>2. queue[o] \in Seq(MessageOf(cap))
    BY Zenon DEF IInv
  <2>3. /\ Len(Append(queue[o], m)) = Len(queue[o]) + 1 /\ Len(queue[o]) \in Nat
        /\ Append(queue[o], m)[Len(queue[o]) + 1] = m
        /\ \A k \in 1..Len(queue[o]) : Append(queue[o], m)[k] = queue[o][k]
    BY <2>2, AppendedEntry, ZenonT(40)
  <2>4. i \in 1..Len(queue'[o]) /\ InMessage(queue'[o][i], c, j)
    BY <1>5, Zenon DEF InQueue
  <2>5. CASE o = q
    <3>1. i \in 1..Len(queue[o]) \/ i = Len(queue[o]) + 1
      BY <2>1, <2>3, <2>4, <2>5, SMTT(30)
    <3>. QED
      BY <1>4, <2>1, <2>3, <2>4, <2>5, <3>1, Zenon DEF InQueue
  <2>6. CASE o # q
    BY <2>1, <2>4, <2>6, Zenon DEF InQueue
  <2>. QED
    BY <2>5, <2>6, Zenon
<1>. QED
  BY <1>3, <1>5, FewerPlaces, Zenon

(* An exit only takes capabilities out of a table. *)
LEMMA ReleaseAllPlaces ==
  ASSUME IInv, PlacesInv, NEW p \in Process, ReleaseAll(p)
  PROVE  PlacesInv'
<1>1. UNCHANGED <<queue, cap>>
  BY Zenon DEF ReleaseAll, objVars
<1>2. \A q \in Process, id \in Id : table'[q][id] \in {table[q][id], NoCap}
  BY DEF ReleaseAll, IInv, TableInv
<1>3. \A t \in Thread : call'[t].caps = call[t].caps /\ call'[t].reply = call[t].reply
  BY DEF ReleaseAll, IInv, CallOf
<1>. SUFFICES ASSUME NEW c \in 1..Len(cap)
              PROVE  OnePlace(c, table', queue, call')
  BY <1>1 DEF PlacesInv
<1>4. OnePlace(c, table, queue, call)
  BY DEF PlacesInv
<1>5. \A q \in Process, id \in Id : table'[q][id] = c => table[q][id] = c
  BY <1>2 DEF NoCap, IInv
<1>6. \A t \in Thread, j \in Nat : InMessage(call'[t], c, j) => InMessage(call[t], c, j)
  <2>. SUFFICES ASSUME NEW t \in Thread, NEW j \in Nat, InMessage(call'[t], c, j)
                PROVE  InMessage(call[t], c, j)
    BY Zenon
  <2>1. call'[t].caps = call[t].caps /\ call'[t].reply = call[t].reply
    BY <1>3, Zenon
  <2>. QED
    BY <2>1, Zenon DEF InMessage, Lot
<1>. QED
  BY <1>4, <1>5, <1>6, FewerPlaces, Zenon

(* Nothing is anywhere before the first system call. *)
LEMMA InitPlaces == Init => PlacesInv
  BY DEF Init, PlacesInv

(* A thread that looks up, checks or fails keeps what it holds, or drops it. *)
LEMMA SendPlaces ==
  ASSUME IInv, PlacesInv, NEW t \in Thread, NEW k, NEW id, NEW ids, NEW d,
         Send(t, k, id, ids, d)
  PROVE  PlacesInv'
<1>. DEFINE c == GetCapability(t, id)
            e == ValidateCapability(c, k, "write")
            s == [Starts(t, k, IF k = "endpoint" THEN "reply" ELSE "translate", 0)
                    EXCEPT !.ids = ids, !.data = d, !.caps = <<>>, !.reply = NoCap]
            r == IF e # "OK" THEN Returned(s, e) ELSE [s EXCEPT !.obj = cap[c].obj]
<1>1. Goes(t, r) /\ UNCHANGED <<queue, cap, table>>
  BY Zenon DEF Send, objVars
<1>2. /\ s.caps = <<>> /\ s.reply = NoCap
      /\ DOMAIN s = DOMAIN call[t]
      /\ {"caps", "reply", "obj"} \subseteq DOMAIN call[t]
  BY ZenonT(40) DEF IInv, CallOf, Starts
<1>. HIDE DEF s, c, e
<1>3. r.caps = <<>> /\ r.reply = NoCap
  BY <1>2 DEF Returned
<1>. HIDE DEF r
<1>. QED
  BY <1>1, <1>3, NoTableMoves, Zenon DEF KeepsMessage

LEMMA RecvPlaces ==
  ASSUME IInv, PlacesInv, NEW t \in Thread, NEW k, NEW id, NEW bytes, NEW room, NEW poll,
         Recv(t, k, id, bytes, room, poll)
  PROVE  PlacesInv'
<1>. DEFINE c == GetCapability(t, id)
            e == ValidateCapability(c, k, "read")
            s == [Starts(t, k, IF poll THEN "poll" ELSE "pop", 0)
                    EXCEPT !.bytes = bytes, !.room = room]
            r == IF e # "OK" THEN Returned(s, e) ELSE [s EXCEPT !.obj = cap[c].obj]
<1>1. Goes(t, r) /\ UNCHANGED <<queue, cap, table>>
  BY DEF Recv, objVars
<1>2. /\ s.caps = call[t].caps /\ s.reply = call[t].reply
      /\ DOMAIN s = DOMAIN call[t]
      /\ {"caps", "reply", "obj"} \subseteq DOMAIN call[t]
  BY ZenonT(40) DEF IInv, CallOf, Starts
<1>. HIDE DEF s, c, e
<1>3. KeepsMessage(call[t], r)
  BY <1>2 DEF Returned, KeepsMessage
<1>. HIDE DEF r
<1>. QED
  BY <1>1, <1>3, NoTableMoves, Zenon

LEMMA CapDuplicatePlaces ==
  ASSUME IInv, PlacesInv, NEW t \in Thread, NEW id, NEW mask, CapDuplicate(t, id, mask)
  PROVE  PlacesInv'
<1>. DEFINE c == GetCapability(t, id)
            s == Starts(t, "dup", "user", 0)
            u == Starts(t, "dup", "dup", cap[c].obj)
            r == IF c = NoCap THEN Returned(s, "CAP_NOT_FOUND")
                 ELSE IF "duplicate" \notin cap[c].perms
                 THEN Returned(s, "CAP_PERMISSION_DENIED")
                 ELSE [u EXCEPT !.mask = cap[c].perms \cap mask]
<1>1. Goes(t, r) /\ UNCHANGED <<queue, cap, table>>
  BY Zenon DEF CapDuplicate, objVars
<1>2. /\ u.caps = call[t].caps /\ u.reply = call[t].reply
      /\ DOMAIN s = DOMAIN call[t] /\ DOMAIN u = DOMAIN call[t]
      /\ {"caps", "reply"} \subseteq DOMAIN call[t]
  BY DEF IInv, CallOf, Starts
<1>. HIDE DEF s, c, u
<1>3. KeepsMessage(call[t], r)
  BY <1>2 DEF Returned, KeepsMessage
<1>. HIDE DEF r
<1>. QED
  BY <1>1, <1>3, NoTableMoves, Zenon

LEMMA TranslateGetPlaces ==
  ASSUME IInv, PlacesInv, NEW t \in Thread, TranslateGet(t)
  PROVE  PlacesInv'
<1>1. /\ UNCHANGED <<queue, cap, table>>
      /\ \/ \E err : Goes(t, Returned(call[t], err))
         \/ Goes(t, [call[t] EXCEPT !.pc = "release"])
  BY Zenon DEF TranslateGet, objVars, Returns
<1>2. /\ \A err : KeepsMessage(call[t], Returned(call[t], err))
      /\ KeepsMessage(call[t], [call[t] EXCEPT !.pc = "release"])
  BY DEF KeepsMessage, Returned, CallOf, IInv
<1>. QED
  BY <1>1, <1>2, NoTableMoves

LEMMA PollCheckPlaces ==
  ASSUME IInv, PlacesInv, NEW t \in Thread, PollCheck(t)
  PROVE  PlacesInv'
<1>1. /\ UNCHANGED <<queue, cap, table>>
      /\ \/ \E err : Goes(t, Returned(call[t], err))
         \/ Goes(t, [call[t] EXCEPT !.pc = "pop"])
  BY Zenon DEF PollCheck, objVars, Returns
<1>2. /\ \A err : KeepsMessage(call[t], Returned(call[t], err))
      /\ KeepsMessage(call[t], [call[t] EXCEPT !.pc = "pop"])
  BY DEF KeepsMessage, Returned, CallOf, IInv
<1>. QED
  BY <1>1, <1>2, NoTableMoves

(* The calls that make one capability. *)
LEMMA MakePlaces ==
  ASSUME IInv, PlacesInv, NEW t \in Thread, IInv',
         \/ \E k : EndpointOrPortCreate(t, k)
         \/ IrqRegister(t) \/ ChannelCreate(t) \/ ChannelCreateSecond(t)
         \/ MakeReplyPort(t) \/ CapDuplicateAdd(t)
  PROVE  PlacesInv'
<1>. DEFINE id == NextCapId(ProcessOf[t])
<1>1. call[t] \in CallOf(cap)
  BY Zenon DEF IInv
<1>2. ASSUME NEW k, EndpointOrPortCreate(t, k) PROVE PlacesInv'
  <2>1. KeepsMessage(call[t], [Starts(t, "create", "user", 0) EXCEPT !.got = <<id>>])
    BY <1>1 DEF KeepsMessage, Starts, CallOf
  <2>. QED
    BY <1>2, <2>1, OneMade DEF EndpointOrPortCreate
<1>3. CASE IrqRegister(t)
  <2>1. KeepsMessage(call[t], [Starts(t, "create", "listen", FreshObj)
                                 EXCEPT !.got = <<id>>])
    BY <1>1, Zenon DEF KeepsMessage, Starts, CallOf
  <2>. QED
    BY <1>3, <2>1, OneMade, Zenon DEF IrqRegister
<1>4. CASE MakeReplyPort(t)
  <2>1. KeepsMessage(call[t], [call[t] EXCEPT !.pc = "translate", !.rid = id,
                                              !.port = FreshObj])
    BY <1>1, Zenon DEF KeepsMessage, CallOf
  <2>. QED
    BY <1>4, <2>1, OneMade DEF MakeReplyPort
<1>5. CASE CapDuplicateAdd(t)
  <2>1. KeepsMessage(call[t], [Returned(call[t], "OK") EXCEPT !.got = <<id>>])
    BY <1>1, Zenon DEF KeepsMessage, Returned, CallOf
  <2>. QED
    BY <1>5, <2>1, OneMade DEF CapDuplicateAdd, objVars
<1>6. CASE ChannelCreate(t)
  <2>1. KeepsMessage(call[t], [Starts(t, "create", "second", SecondObj)
                                 EXCEPT !.got = <<id>>])
    BY <1>1, Zenon DEF KeepsMessage, Starts, CallOf
  <2>. QED
    BY <1>6, <2>1, OneMade, Zenon DEF ChannelCreate
<1>7. CASE ChannelCreateSecond(t)
  <2>1. KeepsMessage(call[t], [Returned(call[t], "OK") EXCEPT !.got = Append(@, id)])
    BY <1>1, Zenon DEF KeepsMessage, Returned, CallOf
  <2>. QED
    BY <1>7, <2>1, OneMade, Zenon DEF ChannelCreateSecond, objVars
<1>. QED
  BY <1>2, <1>3, <1>4, <1>5, <1>6, <1>7, Zenon

(* RegisterListener moves no capability. *)
LEMMA RegisterListenerPlaces ==
  ASSUME IInv, PlacesInv, NEW t \in Thread, NEW irq \in Irq, RegisterListener(t, irq)
  PROVE  PlacesInv'
<1>1. /\ UNCHANGED <<queue, cap, table>>
      /\ \E err : Goes(t, Returned(call[t], err))
  BY Zenon DEF RegisterListener, Returns
<1>2. \A err : KeepsMessage(call[t], Returned(call[t], err))
  BY DEF KeepsMessage, Returned, CallOf, IInv
<1>. QED
  BY <1>1, <1>2, NoTableMoves

LEMMA CapReleasePlaces ==
  ASSUME IInv, PlacesInv, NEW t \in Thread, NEW id \in Id, CapRelease(t, id)
  PROVE  PlacesInv'
<1>. DEFINE s == Starts(t, "release", "user", 0)
            err == IF GetCapability(t, id) = NoCap THEN "CAP_NOT_FOUND" ELSE "OK"
<1>1. DOMAIN s = DOMAIN call[t] /\ {"caps", "reply"} \subseteq DOMAIN call[t]
  BY Zenon DEF IInv, CallOf, Starts
<1>2. /\ Goes(t, Returned(s, err)) /\ UNCHANGED <<queue, cap>>
      /\ ReleasesCapability(ProcessOf[t], id) /\ ProcessOf[t] \in Process
  BY ProcessOfType, Zenon DEF CapRelease, objVars
<1>. HIDE DEF s, err
<1>3. KeepsMessage(call[t], Returned(s, err))
  BY <1>1 DEF KeepsMessage, Returned
<1>. QED
  BY <1>2, <1>3, OneReleased, Zenon

(* No step leaves a capability in two places. *)
LEMMA NextPlaces == IInv /\ PlacesInv /\ [Next]_ipcVars => PlacesInv'
<1>. SUFFICES ASSUME IInv, PlacesInv, [Next]_ipcVars PROVE PlacesInv'
  BY Zenon
<1>1. IInv'
  BY NextKeeps
<1>2. CASE UNCHANGED ipcVars
  BY <1>2 DEF ipcVars, PlacesInv
<1>3. ASSUME NEW t \in Thread, SystemCall(t) PROVE PlacesInv'
  <2>1. CASE EndpointCreate(t) \/ PortCreate(t) \/ IrqRegister(t) \/ ChannelCreate(t)
    BY <1>1, <2>1, MakePlaces, Zenon DEF EndpointCreate, PortCreate
  <2>2. CASE \E id \in Id, ids \in IdLists, d \in Data :
               \/ ChannelSend(t, id, ids, d) \/ PortSend(t, id, ids, d)
               \/ EndpointSend(t, id, ids, d) \/ ReplyPortSend(t, id, ids, d)
    BY <2>2, SendPlaces, Zenon DEF ChannelSend, PortSend, EndpointSend, ReplyPortSend
  <2>3. CASE \E id \in Id, bytes \in Rooms, room \in Rooms :
               \/ ChannelRecv(t, id, bytes, room) \/ PortRecv(t, id, bytes, room)
               \/ PortPoll(t, id, bytes, room) \/ EndpointRecv(t, id, bytes, room)
               \/ ReplyPortRecv(t, id, bytes, room)
    BY <2>3, RecvPlaces, Zenon
       DEF ChannelRecv, PortRecv, PortPoll, EndpointRecv, ReplyPortRecv
  <2>. QED
    BY <1>1, <1>3, <2>1, <2>2, <2>3, CapReleasePlaces,
       CapDuplicatePlaces, Zenon DEF SystemCall
<1>4. ASSUME NEW t \in Thread, KernelStep(t) PROVE PlacesInv'
  <2>1. CASE MakeReplyPort(t) \/ CapDuplicateAdd(t) \/ ChannelCreateSecond(t)
    BY <1>1, <2>1, MakePlaces, ZenonT(40)
  <2>. QED
    BY <1>1, <1>4, <2>1, TranslateGetPlaces, TranslateReleasePlaces, PushBackPlaces,
       PollCheckPlaces, PopFrontPlaces, DeliverPlaces, DeliverReplyPlaces,
       RegisterListenerPlaces, Zenon DEF KernelStep
<1>. QED
  BY <1>2, <1>3, <1>4, IrqMessagePlaces, ReleaseAllPlaces, Zenon DEF Next

(* A set whose elements are all equal has at most one. *)
LEMMA AtMostOne ==
  ASSUME NEW S, \A x, y \in S : x = y
  PROVE  Cardinality(S) <= 1
<1>1. CASE S = {}
  BY <1>1, FS_EmptySet
<1>2. CASE S # {}
  <2>1. PICK x : x \in S
    BY <1>2
  <2>2. S = {x}
    BY <2>1
  <2>. QED
    BY <2>2, FS_Singleton
<1>. QED
  BY <1>1, <1>2, Zenon

(* Sending moves a Capability object and never copies it: for any number   *)
(* of processes and threads, it is in one table entry, in one slot of one  *)
(* queued message, in one slot of the message one thread is building or    *)
(* delivering, or lost.                                                    *)
THEOREM CapabilitiesMove == Spec => []CapabilityInOnePlace
<1>1. IInv /\ PlacesInv => CapabilityInOnePlace
  <2>. SUFFICES ASSUME IInv, PlacesInv, NEW c \in 1..Len(cap)
                PROVE  \A x, y \in Places(c) : x = y
    BY AtMostOne, ZenonT(40) DEF CapabilityInOnePlace
  <2>. DEFINE InTable(x) == \E p \in Process, id \in Id :
                              x = <<"table", <<p, id>>>> /\ table[p][id] = c
              Queued(x) == \E o \in Obj, i, j \in Nat :
                             x = <<"queue", o, i, j>> /\ InQueue(queue, c, o, i, j)
              Held(x) == \E t \in Thread, j \in Nat :
                           x = <<"stack", t, j>> /\ InMessage(call[t], c, j)
  <2>1. OnePlace(c, table, queue, call)
    BY Zenon DEF PlacesInv
  <2>2. ASSUME NEW x \in Places(c) PROVE InTable(x) \/ Queued(x) \/ Held(x)
    <3>1. CASE \E y \in Process \X Id : x = <<"table", y>> /\ table[y[1]][y[2]] = c
      BY <3>1
    <3>2. ASSUME NEW o \in Obj, NEW i \in DOMAIN queue[o], NEW j \in Slots(queue[o][i], c),
                 x = <<"queue", o, i, j>>
          PROVE  Queued(x)
      <4>1. queue[o] \in Seq(MessageOf(cap))
        BY Zenon DEF IInv
      <4>2. i \in 1..Len(queue[o]) /\ i \in Nat /\ queue[o][i] \in MessageOf(cap)
        BY <4>1
      <4>3. j \in Nat /\ InMessage(queue[o][i], c, j)
        BY <4>2 DEF Slots, InMessage, Lot, MessageOf
      <4>. QED
        BY <3>2, <4>2, <4>3, Zenon DEF InQueue
    <3>3. ASSUME NEW t \in Thread, NEW j \in Slots(call[t], c), x = <<"stack", t, j>>
          PROVE  Held(x)
      <4>1. j \in Nat /\ InMessage(call[t], c, j)
        BY DEF Slots, InMessage, Lot, IInv, CallOf
      <4>. QED
        BY <3>3, <4>1
    <3>4. x \in InTables(c) \/ x \in InQueues(c) \/ x \in OnStacks(c)
      BY DEF Places
    <3>5. CASE x \in InTables(c)
      BY <3>1, <3>5, Zenon DEF InTables
    <3>6. CASE x \in InQueues(c)
      <4>1. \E o \in Obj : \E i \in DOMAIN queue[o] : \E j \in Slots(queue[o][i], c) :
              x = <<"queue", o, i, j>>
        BY <3>6 DEF InQueues
      <4>. QED
        BY <3>2, <4>1, Zenon
    <3>7. CASE x \in OnStacks(c)
      <4>1. \E t \in Thread : \E j \in Slots(call[t], c) : x = <<"stack", t, j>>
        BY <3>7, Zenon DEF OnStacks
      <4>. QED
        BY <3>3, <4>1, Zenon
    <3>. HIDE DEF InTable, Queued, Held
    <3>. QED
      BY <3>4, <3>5, <3>6, <3>7, Zenon
  <2>. SUFFICES ASSUME NEW x \in Places(c), NEW y \in Places(c) PROVE x = y
    BY Zenon
  <2>3. CASE InTable(x) /\ InTable(y)
    BY <2>1, <2>3, Zenon DEF OnePlace, OneEntry, OneQueued, OneHeld, NotBoth
  <2>4. CASE Queued(x) /\ Queued(y)
    BY <2>1, <2>4, Zenon DEF OnePlace, OneEntry, OneQueued, OneHeld, NotBoth
  <2>5. CASE Held(x) /\ Held(y)
    BY <2>1, <2>5, Zenon DEF OnePlace, OneEntry, OneQueued, OneHeld, NotBoth
  <2>6. ~(InTable(x) /\ Queued(y)) /\ ~(InTable(y) /\ Queued(x))
    BY <2>1, Zenon DEF OnePlace, OneEntry, OneQueued, OneHeld, NotBoth
  <2>7. ~(InTable(x) /\ Held(y)) /\ ~(InTable(y) /\ Held(x))
    BY <2>1, Zenon DEF OnePlace, OneEntry, OneQueued, OneHeld, NotBoth
  <2>8. ~(Queued(x) /\ Held(y)) /\ ~(Queued(y) /\ Held(x))
    BY <2>1, Zenon DEF OnePlace, OneEntry, OneQueued, OneHeld, NotBoth
  <2>. HIDE DEF InTable, Queued, Held
  <2>. QED
    BY <2>2, <2>3, <2>4, <2>5, <2>6, <2>7, <2>8, Zenon
<1>2. Init => IInv /\ PlacesInv
  BY InitHolds, InitPlaces
<1>3. IInv /\ PlacesInv /\ [Next]_ipcVars => IInv' /\ PlacesInv'
  BY NextKeeps, NextPlaces, Zenon
<1>. QED
  BY <1>1, <1>2, <1>3, PTL DEF Spec

-----------------------------------------------------------------------------
(* The rest of the types. *)

ShapeInv ==
  /\ peer \in [Obj -> Obj \cup {0}]
  /\ hasRead \subseteq hasWritten
  /\ Len(cap) <= MaxCap
  /\ driver \in [Irq -> Obj \cup {0}]

(* The objects made next are objects. *)
LEMMA SecondIsObj ==
  ASSUME Unmade \ {FreshObj} # {}
  PROVE  SecondObj \in Obj
<1>1. SecondObj \in Unmade \ {FreshObj}
  BY DEF SecondObj
<1>. QED
  BY <1>1 DEF Unmade

(* A new capability needs room for it. *)
LEMMA MadeFits ==
  ASSUME IInv, NEW p, NEW o, NEW perms, AddNewCapability(p, o, perms)
  PROVE  Len(cap') <= MaxCap
<1>1. Len(cap) \in Nat /\ Len(cap) < MaxCap /\ MaxCap \in Nat
  BY BoundsAreNat DEF IInv, AddNewCapability
<1>2. Len(cap') = Len(cap) + 1
  <2>1. cap' = Append(cap, [obj |-> o, perms |-> perms, by |-> p])
    BY Zenon DEF AddNewCapability
  <2>. QED
    BY <2>1, AppendedEntry, Zenon DEF IInv
<1>. QED
  BY <1>1, <1>2

LEMMA NextShape == IInv /\ ShapeInv /\ [Next]_ipcVars => ShapeInv'
<1>. SUFFICES ASSUME IInv, ShapeInv, [Next]_ipcVars PROVE ShapeInv'
  OBVIOUS
<1>1. CASE UNCHANGED <<peer, hasWritten, hasRead, cap, driver>>
  BY <1>1 DEF ShapeInv
<1>2. ASSUME NEW t \in Thread, SystemCall(t) PROVE ShapeInv'
  <2>1. CASE EndpointCreate(t) \/ PortCreate(t)
    BY <2>1, MadeFits, ZenonT(40) DEF ShapeInv, EndpointCreate, PortCreate, EndpointOrPortCreate
  <2>2. CASE IrqRegister(t)
    BY <2>2, MadeFits, ZenonT(40) DEF ShapeInv, IrqRegister
  <2>3. CASE ChannelCreate(t)
    <3>1. FreshObj \in Obj /\ SecondObj \in Obj
      BY <2>3, FreshIsObj, SecondIsObj, Zenon DEF ChannelCreate
    <3>2. peer' \in [Obj -> Obj \cup {0}]
      BY <2>3, <3>1, Zenon DEF ShapeInv, ChannelCreate
    <3>3. Len(cap') <= MaxCap
      BY <2>3, MadeFits, Zenon DEF ChannelCreate
    <3>. QED
      BY <2>3, <3>2, <3>3, Zenon DEF ShapeInv, ChannelCreate
  <2>4. CASE \E id \in Id : CapRelease(t, id) \/ \E mask \in Masks : CapDuplicate(t, id, mask)
    BY <1>1, <2>4, Zenon DEF CapRelease, CapDuplicate, objVars
  <2>5. CASE \E id \in Id, ids \in IdLists, d \in Data :
               \/ ChannelSend(t, id, ids, d) \/ PortSend(t, id, ids, d)
               \/ EndpointSend(t, id, ids, d) \/ ReplyPortSend(t, id, ids, d)
    BY <1>1, <2>5, ZenonT(40) DEF ChannelSend, PortSend, EndpointSend, ReplyPortSend, Send, objVars
  <2>6. CASE \E id \in Id, bytes \in Rooms, room \in Rooms :
               \/ ChannelRecv(t, id, bytes, room) \/ PortRecv(t, id, bytes, room)
               \/ PortPoll(t, id, bytes, room) \/ EndpointRecv(t, id, bytes, room)
               \/ ReplyPortRecv(t, id, bytes, room)
    BY <1>1, <2>6
       DEF ChannelRecv, PortRecv, PortPoll, EndpointRecv, ReplyPortRecv, Recv, objVars
  <2>. QED
    BY <1>2, <2>1, <2>2, <2>3, <2>4, <2>5, <2>6, Zenon DEF SystemCall
<1>3. ASSUME NEW t \in Thread, KernelStep(t) PROVE ShapeInv'
  <2>1. CASE MakeReplyPort(t)
    BY <2>1, MadeFits, ZenonT(40) DEF ShapeInv, MakeReplyPort
  <2>2. CASE CapDuplicateAdd(t)
    BY <2>2, MadeFits, Zenon DEF ShapeInv, CapDuplicateAdd, objVars
  <2>3. CASE TranslateGet(t) \/ TranslateRelease(t) \/ PollCheck(t)
    BY <1>1, <2>3 DEF TranslateGet, TranslateRelease, PollCheck, objVars
  <2>4. CASE Deliver(t) \/ DeliverReply(t)
    BY <1>1, <2>4 DEF Deliver, DeliverReply, objVars
  <2>5. CASE PushBack(t)
    <3>1. hasWritten \subseteq hasWritten' /\ UNCHANGED <<peer, hasRead, driver>>
      BY <2>5, Zenon DEF PushBack
    <3>2. Len(cap') <= MaxCap
      <4>. DEFINE r == [obj |-> call[t].port, by |-> ProcessOf[t],
                        perms |-> {"write", "transmit"}]
      <4>1. cap' = cap \/ (cap' = Append(cap, r) /\ Len(cap) < MaxCap)
        BY <2>5, Zenon DEF PushBack
      <4>. HIDE DEF r
      <4>2. Len(Append(cap, r)) = Len(cap) + 1 /\ Len(cap) \in Nat
        BY AppendedEntry, Zenon DEF IInv
      <4>. QED
        BY <4>1, <4>2, BoundsAreNat DEF ShapeInv
    <3>. QED
      BY <3>1, <3>2, Zenon DEF ShapeInv
  <2>6. CASE PopFront(t)
    <3>1. hasRead' \subseteq hasRead \cup ({call[t].obj} \cap hasWritten)
      BY <2>6, Zenon DEF PopFront
    <3>2. UNCHANGED <<peer, hasWritten, cap, driver>>
      BY <2>6, Zenon DEF PopFront
    <3>. QED
      BY <3>1, <3>2, Zenon DEF ShapeInv
  <2>7. CASE ChannelCreateSecond(t)
    BY <2>7, MadeFits, Zenon DEF ShapeInv, ChannelCreateSecond, objVars
  <2>8. ASSUME NEW irq \in Irq, RegisterListener(t, irq) PROVE ShapeInv'
    <3>1. call[t].obj \in Obj \cup {0}
      BY Zenon DEF IInv, CallOf
    <3>. QED
      BY <2>8, <3>1, Zenon DEF ShapeInv, RegisterListener
  <2>. QED
    BY <1>3, <2>1, <2>2, <2>3, <2>4, <2>5, <2>6, <2>7, <2>8, Zenon DEF KernelStep
<1>4. ASSUME NEW irq \in Irq, NEW d \in Data, IrqMessage(irq, d) PROVE ShapeInv'
  BY <1>1, <1>4, Zenon DEF IrqMessage
<1>5. ASSUME NEW p \in Process, ReleaseAll(p) PROVE ShapeInv'
  BY <1>1, <1>5, Zenon DEF ReleaseAll, objVars
<1>6. CASE UNCHANGED ipcVars
  BY <1>1, <1>6, Zenon DEF ipcVars
<1>. QED
  BY <1>2, <1>3, <1>4, <1>5, <1>6, Zenon DEF Next

(* Every variable keeps its type: object ids, capability numbers and the   *)
(* ids a table has given out stay in range, through every system call.     *)
THEOREM IpcTypeCorrect == Spec => []IpcTypeOK
<1>1. IInv /\ ShapeInv => IpcTypeOK
  <2>. SUFFICES ASSUME IInv, ShapeInv PROVE IpcTypeOK
    BY ZenonT(40)
  <2>1. Travel(cap) \subseteq Cap \cup {NoCap}
    BY BoundsAreNat DEF IInv, ShapeInv, Travel, Cap, NoCap
  <2>2. Seq(Travel(cap)) \subseteq Seq(Cap \cup {NoCap})
    BY <2>1, SeqMonotone
  <2>3. MessageOf(cap) \subseteq Message
    BY <2>1, <2>2, Zenon DEF MessageOf, Message
  <2>4. Seq(MessageOf(cap)) \subseteq Seq(Message)
    BY <2>3, SeqMonotone, Zenon
  <2>5. queue \in [Obj -> Seq(Message)]
    BY <2>4, Zenon DEF IInv
  <2>6. CallOf(cap) \subseteq Call
    BY <2>1, <2>2, Zenon DEF CallOf, Call
  <2>7. call \in [Thread -> Call]
    BY <2>6, Zenon DEF IInv
  <2>8. cap \in Seq([obj : Obj, perms : SUBSET Perms, by : Process])
    BY Zenon DEF IInv, CapRec
  <2>9. hasWritten \subseteq Obj
    BY Zenon DEF IInv, RepliesInv
  <2>. QED
    BY <2>5, <2>7, <2>8, <2>9, Zenon DEF IInv, ShapeInv, TableInv, IpcTypeOK
<1>2. Init => ShapeInv
  BY BoundsAreNat, EmptySeq DEF Init, ShapeInv
<1>. QED
  BY <1>1, <1>2, InitHolds, NextKeeps, NextShape, PTL DEF Spec
=============================================================================
