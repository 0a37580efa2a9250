---------------------------- MODULE HttpdProofs ----------------------------
(***************************************************************************)
(* The HTTP server for every table size, every number of clients and every *)
(* interleaving of its thread with start, stop and destroy: the table      *)
(* accounts for every session and socket, it is never full when a client   *)
(* is accepted, and the server lives the life Worker describes.            *)
(***************************************************************************)
EXTENDS Httpd, FiniteSetTheorems, TLAPS

USE HttpdAssumption
USE DEF tablevars, pollvars, lifevars

HttpdInv == HttpdTypeOK /\ LifeInv /\ TableInv /\ PollInv

(* The slots are finitely many, so the table's counter and "all slots are  *)
(* connected" can be compared.                                             *)
LEMMA SlotsFinite ==
  /\ IsFiniteSet(Slots) /\ Cardinality(Slots) = max_connections
  /\ IsFiniteSet(ConnectedSlots) /\ Cardinality(ConnectedSlots) \in 0 .. max_connections
  /\ Cardinality(ConnectedSlots) = max_connections => ConnectedSlots = Slots
<1>1. IsFiniteSet(Slots) /\ Cardinality(Slots) = max_connections
  BY FS_Interval DEF Slots
<1>2. ConnectedSlots \in SUBSET Slots
  BY DEF ConnectedSlots
<1>3. /\ IsFiniteSet(ConnectedSlots)
      /\ Cardinality(ConnectedSlots) <= max_connections
      /\ Cardinality(ConnectedSlots) = max_connections => ConnectedSlots = Slots
  BY <1>1, <1>2, FS_Subset
<1>4. Cardinality(ConnectedSlots) \in Nat
  BY <1>3, FS_CardinalityType
<1> QED
  BY <1>1, <1>3, <1>4

(* httpd_add_connection, given a free slot, a new socket and a new session.*)
LEMMA AddKeepsTable ==
  ASSUME HttpdTypeOK, TableInv, HasRoom,
         NEW k \in Slots, NEW fd \in Sockets \ open, NEW session \in Sessions \ live,
         AddConnection(k, fd, session)
  PROVE  /\ TableInv'
         /\ ConnectedSlots' = ConnectedSlots \cup {k} /\ k \notin ConnectedSlots
         /\ connections' \in [Slots -> Connection]
         /\ open_connections' \in 0 .. max_connections
         /\ open' \subseteq Sockets /\ live' \subseteq Sessions
<1>1. connections' \in [Slots -> Connection]
  <2>1. connections[k] \in Connection
    BY DEF HttpdTypeOK
  <2>2. [connected |-> TRUE, socket_fd |-> fd, user_data |-> session,
         request |-> connections[k].request] \in Connection
    BY <2>1 DEF Connection
  <2> QED
    BY <2>2 DEF AddConnection, HttpdTypeOK
<1>2. ConnectedSlots' = ConnectedSlots \cup {k} /\ k \notin ConnectedSlots
  BY DEF AddConnection, IsFirstFree, ConnectedSlots, HttpdTypeOK, Connection
<1>3. open_connections' = Cardinality(ConnectedSlots')
  BY <1>2, SlotsFinite, FS_AddElement DEF AddConnection, TableInv
<1>4. open_connections' \in 0 .. max_connections
  BY DEF AddConnection, HasRoom, HttpdTypeOK
<1>5. /\ connections'[k].user_data = session /\ connections'[k].socket_fd = fd
      /\ \A j \in ConnectedSlots : connections'[j] = connections[j]
  BY <1>2 DEF AddConnection, HttpdTypeOK, Connection, ConnectedSlots
<1>6. SessionsMatchTable'
  <2>0. ConnectedSlots' = ConnectedSlots \cup {k}
    BY <1>2
  <2>1. live' = {connections'[j].user_data : j \in ConnectedSlots'}
    <3>1. {connections'[j].user_data : j \in ConnectedSlots'}
            = {connections'[j].user_data : j \in ConnectedSlots} \cup {session}
      BY <2>0, <1>5
    <3>2. {connections'[j].user_data : j \in ConnectedSlots} = live
      BY <1>5 DEF TableInv, SessionsMatchTable
    <3> QED
      BY <3>1, <3>2 DEF AddConnection
  <2>2. open' = {connections'[j].socket_fd : j \in ConnectedSlots'}
    <3>1. {connections'[j].socket_fd : j \in ConnectedSlots'}
            = {connections'[j].socket_fd : j \in ConnectedSlots} \cup {fd}
      BY <2>0, <1>5
    <3>2. {connections'[j].socket_fd : j \in ConnectedSlots} = open
      BY <1>5 DEF TableInv, SessionsMatchTable
    <3> QED
      BY <3>1, <3>2 DEF AddConnection
  <2>3. \A j \in ConnectedSlots :
          connections[j].user_data # session /\ connections[j].socket_fd # fd
    BY DEF TableInv, SessionsMatchTable
  <2>4. \A j, l \in ConnectedSlots' : j # l =>
          /\ connections'[j].user_data # connections'[l].user_data
          /\ connections'[j].socket_fd # connections'[l].socket_fd
    BY <1>2, <1>5, <2>3 DEF TableInv, SessionsMatchTable
  <2> QED
    BY <2>1, <2>2, <2>4 DEF SessionsMatchTable
<1>7. FreshParser'
  BY DEF AddConnection, TableInv, FreshParser, HttpdTypeOK, Connection
<1> QED
  BY <1>1, <1>2, <1>3, <1>4, <1>6, <1>7 DEF TableInv, AddConnection, HttpdTypeOK

(* httpd_remove_connection on a connected slot.                            *)
LEMMA RemoveKeepsTable ==
  ASSUME HttpdTypeOK, TableInv, NEW k \in ConnectedSlots, RemoveConnection(k)
  PROVE  /\ TableInv'
         /\ ConnectedSlots' = ConnectedSlots \ {k}
         /\ \A j \in ConnectedSlots' : connections'[j] = connections[j]
         /\ connections' \in [Slots -> Connection]
         /\ open_connections' \in 0 .. max_connections
         /\ open' \subseteq open /\ live' \subseteq live
<1>0. k \in Slots
  BY DEF ConnectedSlots
<1>1. connections' \in [Slots -> Connection]
  BY <1>0 DEF RemoveConnection, HttpdTypeOK, Connection
<1>2. ConnectedSlots' = ConnectedSlots \ {k}
  BY <1>0 DEF RemoveConnection, ConnectedSlots, HttpdTypeOK, Connection
<1>3. open_connections' = Cardinality(ConnectedSlots')
  BY <1>2, SlotsFinite, FS_RemoveElement DEF RemoveConnection, TableInv
<1>4. open_connections' \in 0 .. max_connections
  <2>1. Cardinality(ConnectedSlots) # 0
    BY SlotsFinite, FS_EmptySet
  <2> QED
    BY <2>1, SlotsFinite DEF RemoveConnection, TableInv
<1>5. \A j \in ConnectedSlots' : connections'[j] = connections[j]
  BY <1>2 DEF RemoveConnection, HttpdTypeOK, Connection, ConnectedSlots
<1>6. SessionsMatchTable'
  <2>0. \A j \in ConnectedSlots : j # k =>
          /\ connections[j].user_data # connections[k].user_data
          /\ connections[j].socket_fd # connections[k].socket_fd
    BY DEF TableInv, SessionsMatchTable
  <2>1. live' = {connections'[j].user_data : j \in ConnectedSlots'}
    <3>1. {connections'[j].user_data : j \in ConnectedSlots'}
            = {connections[j].user_data : j \in ConnectedSlots \ {k}}
      BY <1>2, <1>5
    <3>2. {connections[j].user_data : j \in ConnectedSlots \ {k}}
            = {connections[j].user_data : j \in ConnectedSlots} \ {connections[k].user_data}
      BY <2>0
    <3> QED
      BY <3>1, <3>2 DEF RemoveConnection, TableInv, SessionsMatchTable
  <2>2. open' = {connections'[j].socket_fd : j \in ConnectedSlots'}
    <3>1. {connections'[j].socket_fd : j \in ConnectedSlots'}
            = {connections[j].socket_fd : j \in ConnectedSlots \ {k}}
      BY <1>2, <1>5
    <3>2. {connections[j].socket_fd : j \in ConnectedSlots \ {k}}
            = {connections[j].socket_fd : j \in ConnectedSlots} \ {connections[k].socket_fd}
      BY <2>0
    <3> QED
      BY <3>1, <3>2 DEF RemoveConnection, TableInv, SessionsMatchTable
  <2>3. \A j, l \in ConnectedSlots' : j # l =>
          /\ connections'[j].user_data # connections'[l].user_data
          /\ connections'[j].socket_fd # connections'[l].socket_fd
    BY <1>2, <1>5 DEF TableInv, SessionsMatchTable
  <2> QED
    BY <2>1, <2>2, <2>3 DEF SessionsMatchTable
<1>7. FreshParser'
  BY <1>0 DEF RemoveConnection, TableInv, FreshParser, HttpdTypeOK, Connection
<1> QED
  BY <1>1, <1>2, <1>3, <1>4, <1>5, <1>6, <1>7 DEF TableInv, RemoveConnection

(* Reading part of a request, or finishing one, changes only the slot's    *)
(* request field.                                                          *)
LEMMA ReadKeepsTable ==
  ASSUME HttpdTypeOK, TableInv, NEW k \in ConnectedSlots, NEW r \in BOOLEAN,
         connections' = [connections EXCEPT ![k].request = r],
         UNCHANGED <<open_connections, open, live>>
  PROVE  /\ TableInv'
         /\ ConnectedSlots' = ConnectedSlots
         /\ connections' \in [Slots -> Connection]
         /\ \A j \in Slots : /\ connections'[j].user_data = connections[j].user_data
                             /\ connections'[j].socket_fd = connections[j].socket_fd
<1>0. k \in Slots
  BY DEF ConnectedSlots
<1>1. connections' \in [Slots -> Connection]
  BY <1>0 DEF HttpdTypeOK, Connection
<1>2. \A j \in Slots : /\ connections'[j].user_data = connections[j].user_data
                       /\ connections'[j].socket_fd = connections[j].socket_fd
                       /\ connections'[j].connected = connections[j].connected
  BY <1>0 DEF HttpdTypeOK, Connection
<1>3. ConnectedSlots' = ConnectedSlots
  BY <1>2 DEF ConnectedSlots
<1>4. SessionsMatchTable'
  <2>1. \A j \in ConnectedSlots : /\ connections'[j].user_data = connections[j].user_data
                                  /\ connections'[j].socket_fd = connections[j].socket_fd
    BY <1>2 DEF ConnectedSlots
  <2> QED
    BY <1>3, <2>1 DEF TableInv, SessionsMatchTable
<1>5. FreshParser'
  BY <1>0, <1>2 DEF TableInv, FreshParser, ConnectedSlots, HttpdTypeOK, Connection
<1> QED
  BY <1>1, <1>2, <1>3, <1>4, <1>5 DEF TableInv
-----------------------------------------------------------------------------
(* What the five actions that touch the table do to it, in the terms the   *)
(* proofs below need.                                                      *)
TableStep ==
  /\ TableInv'
  /\ connections' \in [Slots -> Connection]
  /\ open_connections' \in 0 .. max_connections
  /\ open' \subseteq Sockets /\ live' \subseteq Sessions

LEMMA AcceptAddsStep ==
  ASSUME HttpdInv, AcceptAdds
  PROVE  /\ TableStep
         /\ PollInv'
<1>1. PICK k \in Slots, fd \in Sockets \ open, session \in Sessions \ live :
        AddConnection(k, fd, session)
  BY DEF AcceptAdds
<1>2. HasRoom
  BY DEF AcceptAdds, MayAccept
<1>3. /\ TableStep
      /\ ConnectedSlots' = ConnectedSlots \cup {k}
  BY <1>1, <1>2, AddKeepsTable DEF HttpdInv, TableStep
<1>4. /\ connections'[k].socket_fd = fd
      /\ \A j \in ConnectedSlots : j # k => connections'[j] = connections[j]
  BY <1>1 DEF AddConnection, HttpdInv, HttpdTypeOK, ConnectedSlots
<1>5. fd \notin rfds
  BY <1>1 DEF HttpdInv, PollInv, AcceptAdds
<1>6. PollInv'
  BY <1>3, <1>4, <1>5 DEF HttpdInv, PollInv, AcceptAdds
<1> QED
  BY <1>3, <1>6

LEMMA DroppedStep ==
  ASSUME HttpdInv, Dropped
  PROVE  TableStep /\ PollInv'
<1>1. i \in ConnectedSlots
  BY DEF Dropped, Serving, IsReady, ConnectedSlots
<1>2. RemoveConnection(i)
  BY DEF Dropped
<1>3. /\ TableStep
      /\ ConnectedSlots' = ConnectedSlots \ {i}
      /\ \A j \in ConnectedSlots' : connections'[j] = connections[j]
  BY <1>1, <1>2, RemoveKeepsTable DEF HttpdInv, TableStep, HttpdTypeOK
<1>4. PollInv'
  BY <1>3 DEF HttpdInv, PollInv, Dropped, Serving
<1> QED
  BY <1>3, <1>4

LEMMA ReadStep ==
  ASSUME HttpdInv, PartOfRequest \/ Request
  PROVE  TableStep /\ PollInv' /\ ConnectedSlots' = ConnectedSlots
<1>1. i \in ConnectedSlots
  BY DEF PartOfRequest, Request, Serving, IsReady, ConnectedSlots
<1>2. PICK r \in BOOLEAN : connections' = [connections EXCEPT ![i].request = r]
  BY DEF PartOfRequest, Request
<1>3. UNCHANGED <<open_connections, open, live>>
  BY DEF PartOfRequest, Request
<1>4. /\ TableStep
      /\ ConnectedSlots' = ConnectedSlots
      /\ \A j \in Slots : /\ connections'[j].user_data = connections[j].user_data
                          /\ connections'[j].socket_fd = connections[j].socket_fd
  BY <1>1, <1>2, <1>3, ReadKeepsTable DEF HttpdInv, TableStep, HttpdTypeOK
<1>5. PollInv'
  BY <1>4 DEF HttpdInv, PollInv, PartOfRequest, Request, Serving, ConnectedSlots
<1> QED
  BY <1>4, <1>5

LEMMA RemoveRemainingStep ==
  ASSUME HttpdInv, RemoveRemaining
  PROVE  /\ TableStep /\ PollInv'
         /\ ConnectedSlots' = ConnectedSlots \ {i}
<1>1. CASE connections[i].connected
  <2>1. i \in ConnectedSlots
    BY <1>1 DEF RemoveRemaining, ConnectedSlots
  <2>2. RemoveConnection(i)
    BY <1>1 DEF RemoveRemaining
  <2>3. TableStep /\ ConnectedSlots' = ConnectedSlots \ {i}
    BY <2>1, <2>2, RemoveKeepsTable DEF HttpdInv, TableStep, HttpdTypeOK
  <2> QED
    BY <2>3 DEF PollInv, RemoveRemaining
<1>2. CASE ~connections[i].connected
  <2>1. UNCHANGED tablevars
    BY <1>2 DEF RemoveRemaining
  <2>2. TableStep
    BY <2>1 DEF HttpdInv, TableStep, HttpdTypeOK, TableInv, SessionsMatchTable, FreshParser,
                ConnectedSlots
  <2>3. ConnectedSlots' = ConnectedSlots \ {i}
    BY <2>1, <1>2 DEF ConnectedSlots
  <2> QED
    BY <2>2, <2>3 DEF PollInv, RemoveRemaining
<1> QED
  BY <1>1, <1>2

LEMMA ZeroIsIndex == 0 \in 0 .. max_connections /\ max_connections \in Nat
OBVIOUS

LEMMA EmptySlotTyped == EmptySlot \in Connection
BY DEF EmptySlot, Connection

LEMMA FreeStep ==
  ASSUME HttpdInv, Free
  PROVE  HttpdInv'
<1>1. ConnectedSlots' = {}
  BY DEF Free, ConnectedSlots, EmptySlot
<1>2. HttpdTypeOK'
  <2>1. open_connections' \in 0 .. max_connections /\ i' \in 0 .. max_connections
    BY ZeroIsIndex DEF Free
  <2>2. connections' \in [Slots -> Connection]
    BY EmptySlotTyped DEF Free
  <2> QED
    BY <2>1, <2>2 DEF Free, HttpdTypeOK
<1>3. TableInv'
  BY <1>1, FS_EmptySet DEF Free, TableInv, SessionsMatchTable, FreshParser, EmptySlot
<1>4. LifeInv' /\ PollInv'
  BY <1>1 DEF Free, LifeInv, PollInv
<1> QED
  BY <1>2, <1>3, <1>4 DEF HttpdInv

(* The steps that leave the table alone leave what it accounts for alone.  *)
LEMMA TableUnchanged ==
  ASSUME HttpdInv, UNCHANGED tablevars
  PROVE  TableStep /\ ConnectedSlots' = ConnectedSlots
BY DEF HttpdInv, TableStep, HttpdTypeOK, TableInv, SessionsMatchTable, FreshParser, ConnectedSlots
-----------------------------------------------------------------------------
LEMMA HttpdInitInv == HttpdInit => HttpdInv
<1> SUFFICES ASSUME HttpdInit PROVE HttpdInv
  OBVIOUS
<1>1. ConnectedSlots = {}
  BY DEF HttpdInit, ConnectedSlots, EmptySlot
<1>2. HttpdTypeOK
  <2>1. open_connections \in 0 .. max_connections /\ i \in 0 .. max_connections
    BY ZeroIsIndex DEF HttpdInit
  <2>2. connections \in [Slots -> Connection]
    BY EmptySlotTyped DEF HttpdInit
  <2> QED
    BY <2>1, <2>2 DEF HttpdInit, HttpdTypeOK
<1>3. TableInv
  BY <1>1, FS_EmptySet DEF HttpdInit, TableInv, SessionsMatchTable, FreshParser, EmptySlot
<1>4. LifeInv /\ PollInv
  BY <1>1 DEF HttpdInit, LifeInv, PollInv
<1> QED
  BY <1>2, <1>3, <1>4 DEF HttpdInv

LEMMA HttpdStep == HttpdInv /\ [HttpdNext]_httpdvars => HttpdInv'
<1> SUFFICES ASSUME HttpdInv, [HttpdNext]_httpdvars
             PROVE  HttpdInv'
  OBVIOUS
<1> USE DEF HttpdInv
<1>1. CASE Free
  BY <1>1, FreeStep
<1>2. ASSUME NEW destroy \in BOOLEAN, StopBegin(destroy) PROVE HttpdInv'
  <2>1. TableStep /\ ConnectedSlots' = ConnectedSlots
    BY <1>2, TableUnchanged DEF StopBegin
  <2>2. HttpdTypeOK'
    BY <1>2, <2>1 DEF StopBegin, HttpdTypeOK, TableStep, LifeInv
  <2>3. LifeInv'
    BY <1>2, <2>1 DEF StopBegin, LifeInv, HttpdTypeOK
  <2>4. PollInv'
    BY <1>2, <2>1 DEF StopBegin, PollInv
  <2> QED
    BY <2>1, <2>2, <2>3, <2>4 DEF TableStep
<1>3. CASE StartServer
  <2>1. TableStep /\ ConnectedSlots' = ConnectedSlots
    BY <1>3, TableUnchanged DEF StartServer
  <2>2. HttpdTypeOK'
    <3>1. CASE running \/ ~joined
      BY <1>3, <2>1, <3>1 DEF StartServer, HttpdTypeOK, TableStep
    <3>2. CASE ~(running \/ ~joined)
      BY <1>3, <2>1, <3>2, ZeroIsIndex DEF StartServer, HttpdTypeOK, TableStep
    <3> QED
      BY <3>1, <3>2
  <2>3. LifeInv'
    BY <1>3, <2>1 DEF StartServer, LifeInv, HttpdTypeOK
  <2>4. PollInv'
    BY <1>3, <2>1 DEF StartServer, PollInv
  <2> QED
    BY <2>1, <2>2, <2>3, <2>4 DEF TableStep
<1>4. CASE StopJoin
  <2>1. TableStep /\ ConnectedSlots' = ConnectedSlots
    BY <1>4, TableUnchanged DEF StopJoin
  <2>2. HttpdTypeOK'
    BY <1>4, <2>1 DEF StopJoin, HttpdTypeOK, TableStep, LifeInv
  <2>3. LifeInv'
    BY <1>4, <2>1 DEF StopJoin, LifeInv, HttpdTypeOK
  <2>4. PollInv'
    BY <1>4, <2>1 DEF StopJoin, PollInv
  <2> QED
    BY <2>1, <2>2, <2>3, <2>4 DEF TableStep
<1>5. CASE StopMark
  <2>1. TableStep /\ ConnectedSlots' = ConnectedSlots
    BY <1>5, TableUnchanged DEF StopMark
  <2>2. HttpdTypeOK'
    BY <1>5, <2>1 DEF StopMark, HttpdTypeOK, TableStep, LifeInv
  <2>3. LifeInv'
    BY <1>5, <2>1 DEF StopMark, LifeInv, HttpdTypeOK
  <2>4. PollInv'
    BY <1>5, <2>1 DEF StopMark, PollInv
  <2> QED
    BY <2>1, <2>2, <2>3, <2>4 DEF TableStep
<1>6. CASE CheckRunning
  <2>1. TableStep /\ ConnectedSlots' = ConnectedSlots
    BY <1>6, TableUnchanged DEF CheckRunning
  <2>2. HttpdTypeOK'
    BY <1>6, <2>1 DEF CheckRunning, Slots, HttpdTypeOK, TableStep, LifeInv
  <2>3. LifeInv'
    BY <1>6, <2>1 DEF CheckRunning, Slots, LifeInv, HttpdTypeOK
  <2>4. PollInv'
    BY <1>6, <2>1 DEF CheckRunning, Slots, PollInv
  <2> QED
    BY <2>1, <2>2, <2>3, <2>4 DEF TableStep
<1>7. CASE Timeout
  <2>1. TableStep /\ ConnectedSlots' = ConnectedSlots
    BY <1>7, TableUnchanged DEF Timeout
  <2>2. HttpdTypeOK'
    BY <1>7, <2>1 DEF Timeout, HttpdTypeOK, TableStep, LifeInv
  <2>3. LifeInv'
    BY <1>7, <2>1 DEF Timeout, LifeInv, HttpdTypeOK
  <2>4. PollInv'
    BY <1>7, <2>1 DEF Timeout, PollInv
  <2> QED
    BY <2>1, <2>2, <2>3, <2>4 DEF TableStep
<1>8. CASE SelectFails
  <2>1. TableStep /\ ConnectedSlots' = ConnectedSlots
    BY <1>8, TableUnchanged DEF SelectFails
  <2>2. HttpdTypeOK'
    BY <1>8, <2>1 DEF SelectFails, Slots, HttpdTypeOK, TableStep, LifeInv
  <2>3. LifeInv'
    BY <1>8, <2>1 DEF SelectFails, Slots, LifeInv, HttpdTypeOK
  <2>4. PollInv'
    BY <1>8, <2>1 DEF SelectFails, Slots, PollInv
  <2> QED
    BY <2>1, <2>2, <2>3, <2>4 DEF TableStep
<1>9. CASE SelectReports
  <2>1. TableStep /\ ConnectedSlots' = ConnectedSlots
    BY <1>9, TableUnchanged DEF SelectReports
  <2>2. HttpdTypeOK'
    <3>1. \A k \in ConnectedSlots :
            connections[k].socket_fd \in Sockets /\ connections[k].user_data \in Sessions
      BY DEF TableInv, SessionsMatchTable, HttpdTypeOK
    <3>2. rfds' \subseteq Sockets \cup {SERVER} /\ readable' \subseteq Sessions
      BY <1>9, <3>1 DEF SelectReports, Polled
    <3> QED
      BY <1>9, <2>1, <3>2 DEF SelectReports, HttpdTypeOK, TableStep
  <2>3. LifeInv'
    BY <1>9, <2>1 DEF SelectReports, LifeInv, HttpdTypeOK
  <2>4. PollInv'
    <3>1. PICK ready \in SUBSET Polled :
            /\ rfds' = ready
            /\ readable' = {connections[k].user_data :
                              k \in {c \in ConnectedSlots : connections[c].socket_fd \in ready}}
      BY <1>9 DEF SelectReports
    <3>2. rfds' \subseteq open' \cup {SERVER}
      BY <1>9, <3>1 DEF SelectReports, Polled, TableInv, SessionsMatchTable
    <3>3. \A k \in ConnectedSlots :
            connections[k].socket_fd \in rfds' => connections[k].user_data \in readable'
      BY <3>1
    <3> QED
      BY <1>9, <2>1, <3>2, <3>3 DEF SelectReports, PollInv
  <2> QED
    BY <2>1, <2>2, <2>3, <2>4 DEF TableStep
<1>10. CASE AcceptFails
  <2>1. TableStep /\ ConnectedSlots' = ConnectedSlots
    BY <1>10, TableUnchanged DEF AcceptFails
  <2>2. HttpdTypeOK'
    BY <1>10, <2>1 DEF AcceptFails, HttpdTypeOK, TableStep, LifeInv
  <2>3. LifeInv'
    BY <1>10, <2>1 DEF AcceptFails, LifeInv, HttpdTypeOK
  <2>4. PollInv'
    BY <1>10, <2>1 DEF AcceptFails, PollInv
  <2> QED
    BY <2>1, <2>2, <2>3, <2>4 DEF TableStep
<1>11. CASE AcceptDropped
  <2>1. TableStep /\ ConnectedSlots' = ConnectedSlots
    BY <1>11, TableUnchanged DEF AcceptDropped
  <2>2. HttpdTypeOK'
    BY <1>11, <2>1 DEF AcceptDropped, HttpdTypeOK, TableStep, LifeInv
  <2>3. LifeInv'
    BY <1>11, <2>1 DEF AcceptDropped, LifeInv, HttpdTypeOK
  <2>4. PollInv'
    BY <1>11, <2>1 DEF AcceptDropped, PollInv
  <2> QED
    BY <2>1, <2>2, <2>3, <2>4 DEF TableStep
<1>12. CASE NoAccept
  <2>1. TableStep /\ ConnectedSlots' = ConnectedSlots
    BY <1>12, TableUnchanged DEF NoAccept
  <2>2. HttpdTypeOK'
    BY <1>12, <2>1 DEF NoAccept, HttpdTypeOK, TableStep, LifeInv
  <2>3. LifeInv'
    BY <1>12, <2>1 DEF NoAccept, LifeInv, HttpdTypeOK
  <2>4. PollInv'
    BY <1>12, <2>1 DEF NoAccept, PollInv
  <2> QED
    BY <2>1, <2>2, <2>3, <2>4 DEF TableStep
<1>13. CASE SkipSlot
  <2>1. TableStep /\ ConnectedSlots' = ConnectedSlots
    BY <1>13, TableUnchanged DEF SkipSlot
  <2>2. HttpdTypeOK'
    BY <1>13, <2>1 DEF SkipSlot, Serving, Slots, HttpdTypeOK, TableStep
  <2>3. LifeInv'
    BY <1>13, <2>1 DEF SkipSlot, Serving, LifeInv
  <2>4. PollInv'
    BY <1>13, <2>1 DEF SkipSlot, PollInv
  <2> QED
    BY <2>1, <2>2, <2>3, <2>4 DEF TableStep
<1>14. CASE PassDone
  <2>1. TableStep /\ ConnectedSlots' = ConnectedSlots
    BY <1>14, TableUnchanged DEF PassDone
  <2>2. HttpdTypeOK'
    BY <1>14, <2>1 DEF PassDone, HttpdTypeOK, TableStep, LifeInv
  <2>3. LifeInv'
    BY <1>14, <2>1 DEF PassDone, LifeInv, HttpdTypeOK
  <2>4. PollInv'
    BY <1>14, <2>1 DEF PassDone, PollInv
  <2> QED
    BY <2>1, <2>2, <2>3, <2>4 DEF TableStep
<1>15. CASE CloseServer
  <2>1. TableStep /\ ConnectedSlots' = ConnectedSlots
    BY <1>15, TableUnchanged DEF CloseServer
  <2>2. HttpdTypeOK'
    BY <1>15, <2>1 DEF CloseServer, HttpdTypeOK, TableStep, LifeInv
  <2>3. LifeInv'
    <3>1. ConnectedSlots = {}
      BY <1>15 DEF CloseServer, LifeInv, ConnectedSlots, Slots
    <3> QED
      BY <1>15, <2>1, <3>1 DEF CloseServer, LifeInv
  <2>4. PollInv'
    BY <1>15, <2>1 DEF CloseServer, PollInv
  <2> QED
    BY <2>1, <2>2, <2>3, <2>4 DEF TableStep
<1>16. CASE ClearRunning
  <2>1. TableStep /\ ConnectedSlots' = ConnectedSlots
    BY <1>16, TableUnchanged DEF ClearRunning
  <2>2. HttpdTypeOK'
    BY <1>16, <2>1 DEF ClearRunning, HttpdTypeOK, TableStep, LifeInv
  <2>3. LifeInv'
    BY <1>16, <2>1 DEF ClearRunning, LifeInv, HttpdTypeOK
  <2>4. PollInv'
    BY <1>16, <2>1 DEF ClearRunning, PollInv
  <2> QED
    BY <2>1, <2>2, <2>3, <2>4 DEF TableStep
<1>17. CASE LogAndReturn
  <2>1. TableStep /\ ConnectedSlots' = ConnectedSlots
    BY <1>17, TableUnchanged DEF LogAndReturn
  <2>2. HttpdTypeOK'
    BY <1>17, <2>1 DEF LogAndReturn, HttpdTypeOK, TableStep, LifeInv
  <2>3. LifeInv'
    BY <1>17, <2>1 DEF LogAndReturn, LifeInv, HttpdTypeOK
  <2>4. PollInv'
    BY <1>17, <2>1 DEF LogAndReturn, PollInv
  <2> QED
    BY <2>1, <2>2, <2>3, <2>4 DEF TableStep
<1>18. CASE AcceptAdds
  <2>1. TableStep /\ PollInv'
    BY <1>18, AcceptAddsStep
  <2>2. HttpdTypeOK'
    BY <1>18, <2>1 DEF AcceptAdds, Serving, Slots, TableStep, HttpdTypeOK
  <2>3. LifeInv'
    BY <1>18, AcceptAddsStep DEF AcceptAdds, Serving, LifeInv, Slots, HttpdTypeOK
  <2> QED
    BY <2>1, <2>2, <2>3 DEF TableStep
<1>19. CASE Dropped
  <2>1. TableStep /\ PollInv'
    BY <1>19, DroppedStep
  <2>2. HttpdTypeOK'
    BY <1>19, <2>1 DEF Dropped, Serving, Slots, TableStep, HttpdTypeOK
  <2>3. LifeInv'
    BY <1>19, DroppedStep DEF Dropped, Serving, LifeInv, Slots, HttpdTypeOK
  <2> QED
    BY <2>1, <2>2, <2>3 DEF TableStep
<1>20. CASE PartOfRequest
  <2>1. TableStep /\ PollInv'
    BY <1>20, ReadStep
  <2>2. HttpdTypeOK'
    BY <1>20, <2>1 DEF PartOfRequest, Serving, Slots, TableStep, HttpdTypeOK
  <2>3. LifeInv'
    BY <1>20, ReadStep DEF PartOfRequest, Serving, LifeInv, Slots, HttpdTypeOK
  <2> QED
    BY <2>1, <2>2, <2>3 DEF TableStep
<1>21. CASE Request
  <2>1. TableStep /\ PollInv'
    BY <1>21, ReadStep
  <2>2. HttpdTypeOK'
    BY <1>21, <2>1 DEF Request, Serving, Slots, TableStep, HttpdTypeOK
  <2>3. LifeInv'
    BY <1>21, ReadStep DEF Request, Serving, LifeInv, Slots, HttpdTypeOK
  <2> QED
    BY <2>1, <2>2, <2>3 DEF TableStep
<1>22. CASE RemoveRemaining
  <2>1. TableStep /\ PollInv'
    BY <1>22, RemoveRemainingStep
  <2>2. HttpdTypeOK'
    BY <1>22, <2>1 DEF RemoveRemaining, Serving, Slots, TableStep, HttpdTypeOK
  <2>3. LifeInv'
    BY <1>22, RemoveRemainingStep DEF RemoveRemaining, Serving, LifeInv, Slots, HttpdTypeOK
  <2> QED
    BY <2>1, <2>2, <2>3 DEF TableStep
<1>23. CASE UNCHANGED httpdvars
  <2>1. TableStep /\ ConnectedSlots' = ConnectedSlots
    BY <1>23, TableUnchanged DEF httpdvars
  <2>2. HttpdTypeOK'
    BY <1>23, <2>1 DEF httpdvars, HttpdTypeOK, TableStep, LifeInv
  <2>3. LifeInv'
    BY <1>23, <2>1 DEF httpdvars, LifeInv, HttpdTypeOK
  <2>4. PollInv'
    BY <1>23, <2>1 DEF httpdvars, PollInv
  <2> QED
    BY <2>1, <2>2, <2>3, <2>4 DEF TableStep
<1> QED
  BY <1>1, <1>2, <1>3, <1>4, <1>5, <1>6, <1>7, <1>8, <1>9, <1>10, <1>11, <1>12, <1>13, <1>14, <1>15, <1>16, <1>17, <1>18, <1>19, <1>20, <1>21, <1>22, <1>23
     DEF HttpdNext, MainThread, Thread
-----------------------------------------------------------------------------
(* The inductive invariant holds in every state of every run.              *)
THEOREM HttpdInvariant == HttpdSpec => []HttpdInv
BY HttpdInitInv, HttpdStep, PTL DEF HttpdSpec

(* Type correctness.                                                       *)
THEOREM HttpdTypeCorrect == HttpdSpec => []HttpdTypeOK
<1>1. HttpdInv => HttpdTypeOK
  BY DEF HttpdInv
<1> QED
  BY <1>1, HttpdInvariant, PTL

(* The branch of httpd_add_connection under "This code should never be     *)
(* reached" is never reached: there is a free slot at every accept.        *)
THEOREM TableNeverFull == HttpdSpec => []NeverFull
<1>1. HttpdInv => NeverFull
  BY SlotsFinite DEF HttpdInv, TableInv, NeverFull, MayAccept, HasRoom, HttpdTypeOK
<1> QED
  BY <1>1, HttpdInvariant, PTL

(* Every handler and socket belongs to exactly one connected slot, so      *)
(* conn_destroy and closesocket happen once for each.                      *)
THEOREM TableAccountsForAll == HttpdSpec => []SessionsMatchTable
<1>1. HttpdInv => SessionsMatchTable
  BY DEF HttpdInv, TableInv
<1> QED
  BY <1>1, HttpdInvariant, PTL

(* A slot without a connection holds no half-parsed request.               *)
THEOREM ParserIsFresh == HttpdSpec => []FreshParser
<1>1. HttpdInv => FreshParser
  BY DEF HttpdInv, TableInv
<1> QED
  BY <1>1, HttpdInvariant, PTL

(* The thread calls recv only for sessions the last select reported, so it *)
(* never blocks in it.                                                     *)
THEOREM RecvNeverBlocks == HttpdSpec => []OnlyReadableIsRead
<1>1. HttpdInv => OnlyReadableIsRead
  BY DEF HttpdInv, PollInv, OnlyReadableIsRead, Serving, IsReady, ConnectedSlots
<1> QED
  BY <1>1, HttpdInvariant, PTL

(* A server that was stopped has nothing left, whichever way it ended.     *)
THEOREM StopIsClean == HttpdSpec => []StopLeavesNothing
<1>1. HttpdInv => StopLeavesNothing
  <2> SUFFICES ASSUME HttpdInv, joined PROVE StopLeavesNothing
    BY DEF StopLeavesNothing
  <2>1. ConnectedSlots = {} /\ at = "gone" /\ server_fd4 # "open"
    BY DEF HttpdInv, LifeInv
  <2>2. open_connections = 0 /\ live = {} /\ open = {}
    BY <2>1, FS_EmptySet DEF HttpdInv, TableInv, SessionsMatchTable
  <2> QED
    BY <2>1, <2>2 DEF StopLeavesNothing
<1> QED
  BY <1>1, HttpdInvariant, PTL
-----------------------------------------------------------------------------
(* The server implements Worker: every step of it starts, asks, fails,     *)
(* ends or frees the service, or is not visible at that level.             *)
THEOREM ServerIsAWorker == HttpdSpec => ServesAsPromised
<1>1. HttpdInit => Service!Init
  BY DEF HttpdInit, Service!Init, ServerLife
<1>2. HttpdInv /\ [HttpdNext]_httpdvars => [Service!Next]_Service!wvars
  <2> SUFFICES ASSUME HttpdInv, [HttpdNext]_httpdvars
               PROVE  Service!Next \/ UNCHANGED Service!wvars
    OBVIOUS
  <2> USE DEF HttpdInv, Service!wvars
  <2>1. CASE StartServer
    BY <2>1 DEF StartServer, ServerLife, LifeInv, Service!Next, Service!Start
  <2>2. ASSUME NEW destroy \in BOOLEAN, StopBegin(destroy)
        PROVE  Service!Next \/ UNCHANGED Service!wvars
    BY <2>2 DEF StopBegin, ServerLife, LifeInv, Service!Next, Service!AskToStop
  <2>3. CASE StopJoin
    BY <2>3 DEF StopJoin, ServerLife
  <2>4. CASE StopMark
    BY <2>4 DEF StopMark, ServerLife, LifeInv, Service!Next, Service!Stopped
  <2>5. CASE Free
    BY <2>5 DEF Free, ServerLife, LifeInv, Service!Next, Service!Free
  <2>6. CASE ClearRunning
    BY <2>6 DEF ClearRunning, ServerLife, LifeInv, Service!Next, Service!Fail
  <2>7. CASE LogAndReturn
    BY <2>7 DEF LogAndReturn, ServerLife, LifeInv, Service!Next, Service!ThreadEnds
  <2>8. ASSUME at # "gone", at' # "gone", UNCHANGED lifevars
        PROVE  UNCHANGED Service!wvars
    BY <2>8 DEF ServerLife
  <2>9. CASE UNCHANGED httpdvars
    BY <2>9 DEF httpdvars, ServerLife
  <2>10. CASE CheckRunning \/ Timeout \/ SelectFails \/ SelectReports
    BY <2>8, <2>10 DEF CheckRunning, Timeout, SelectFails, SelectReports
  <2>11. CASE AcceptFails \/ AcceptDropped \/ AcceptAdds \/ NoAccept
    BY <2>8, <2>11 DEF AcceptFails, AcceptDropped, AcceptAdds, NoAccept
  <2>12. CASE SkipSlot \/ Dropped \/ PartOfRequest \/ Request \/ PassDone
    BY <2>8, <2>12 DEF SkipSlot, Dropped, PartOfRequest, Request, PassDone, Serving
  <2>13. CASE RemoveRemaining \/ CloseServer
    BY <2>8, <2>13 DEF RemoveRemaining, CloseServer
  <2> QED
    BY <2>1, <2>2, <2>3, <2>4, <2>5, <2>6, <2>7, <2>9, <2>10, <2>11, <2>12, <2>13
       DEF HttpdNext, MainThread, Thread
<1> QED
  BY <1>1, <1>2, HttpdInvariant, PTL DEF HttpdSpec, ServesAsPromised, Service!Safe
=============================================================================
