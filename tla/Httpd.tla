------------------------------- MODULE Httpd -------------------------------
(***************************************************************************)
(* The HTTP server, lib/httpd.cpp: a table of connections that one thread  *)
(* polls with select, and the start, stop and destroy of that thread by    *)
(* the program's main thread.  The handlers of lib/raop.cpp are reached    *)
(* through conn_init, conn_request and conn_destroy; here a handler is a   *)
(* session that is live from conn_init to conn_destroy.                    *)
(***************************************************************************)
EXTENDS Integers, FiniteSets

CONSTANTS
  max_connections,
  Sockets,   \* client socket numbers, reused once they are closed
  Sessions,  \* what conn_init may return, reused once it is destroyed
  SERVER     \* the listening socket

ASSUME HttpdAssumption ==
  /\ max_connections \in Nat \ {0}
  /\ SERVER \notin Sockets

VARIABLES
  running, joined,   \* guarded by run_mutex
  server_fd4,        \* "none" (-1), "open", or "closed": closed, not reset
  connections, open_connections,
  at,                \* where the thread is; "gone": not created, or returned
  i,                 \* the thread's loop index
  rfds,              \* the sockets the last select reported
  caller, destroying, \* where the main thread is in httpd_stop or httpd_destroy
  open,              \* environment: the client sockets that are open
  live,              \* history: the sessions conn_init made, not yet destroyed
  readable           \* history: the sessions whose socket that select reported

tablevars == <<connections, open_connections, open, live>>
pollvars == <<i, rfds, readable>>
lifevars == <<running, joined, caller, destroying>>
httpdvars == <<lifevars, server_fd4, tablevars, at, pollvars>>

Slots == 0 .. max_connections - 1
ConnectedSlots == {k \in Slots : connections[k].connected}

NoSession == "no session"
NoSocket == "no socket"

EmptySlot == [connected |-> FALSE, socket_fd |-> NoSocket, user_data |-> NoSession,
              request |-> FALSE]

(* httpd_init: calloc clears the table.                                    *)
HttpdInit ==
  /\ running = FALSE /\ joined = TRUE
  /\ server_fd4 = "none"
  /\ connections = [k \in Slots |-> EmptySlot] /\ open_connections = 0
  /\ at = "gone" /\ i = 0 /\ rfds = {}
  /\ caller = "idle" /\ destroying = FALSE
  /\ open = {} /\ live = {} /\ readable = {}
-----------------------------------------------------------------------------
(* The main thread.                                                        *)

(* httpd_start: nothing happens when it runs or was not joined; the socket *)
(* may not open (-1), or may not listen (-2, closed but not reset).        *)
StartServer ==
  /\ caller = "idle"
  /\ IF running \/ ~joined
       THEN UNCHANGED <<running, joined, server_fd4, at, pollvars>>
       ELSE \/ /\ server_fd4' = "open"
               /\ running' = TRUE /\ joined' = FALSE
               /\ at' = "check" /\ i' = 0 /\ rfds' = {} /\ readable' = {}
            \/ /\ server_fd4' \in {"none", "closed"}
               /\ UNCHANGED <<running, joined, at, pollvars>>
  /\ UNCHANGED <<tablevars, caller, destroying>>

StopBegin(destroy) ==
  /\ caller = "idle"
  /\ destroying' = destroy
  /\ IF ~running \/ joined
       THEN /\ caller' = IF destroy THEN "free" ELSE "idle"
            /\ UNCHANGED running
       ELSE caller' = "joining" /\ running' = FALSE
  /\ UNCHANGED <<joined, server_fd4, tablevars, at, pollvars>>

StopJoin_Skipped ==                       \* mutation: the thread is not joined
  /\ caller = "joining"
  /\ caller' = "marking"
  /\ UNCHANGED <<running, joined, destroying, server_fd4, tablevars, at, pollvars>>
StopJoin ==
  /\ caller = "joining" /\ at = "gone"
  /\ caller' = "marking"
  /\ UNCHANGED <<running, joined, destroying, server_fd4, tablevars, at, pollvars>>

StopMark ==
  /\ caller = "marking"
  /\ joined' = TRUE
  /\ caller' = IF destroying THEN "free" ELSE "idle"
  /\ UNCHANGED <<running, destroying, server_fd4, tablevars, at, pollvars>>

(* The rest of httpd_destroy, and the next server's httpd_init.            *)
Free ==
  /\ caller = "free"
  /\ running' = FALSE /\ joined' = TRUE
  /\ server_fd4' = "none"
  /\ connections' = [k \in Slots |-> EmptySlot] /\ open_connections' = 0
  /\ at' = "gone" /\ i' = 0 /\ rfds' = {}
  /\ caller' = "idle" /\ destroying' = FALSE
  /\ open' = {} /\ live' = {} /\ readable' = {}

MainThread ==
  \/ StartServer \/ StopJoin \/ StopMark \/ Free
  \/ \E destroy \in BOOLEAN : StopBegin(destroy)
-----------------------------------------------------------------------------
(* The connection table.                                                   *)

HasRoom_OffByOne == open_connections <= max_connections   \* mutation: one too many
HasRoom == open_connections < max_connections

IsFirstFree(k) == k \notin ConnectedSlots /\ 0 .. k - 1 \subseteq ConnectedSlots

(* httpd_add_connection when k is the first free slot and conn_init        *)
(* succeeds; the slot's request field is not touched.                      *)
AddConnection(k, fd, session) ==
  /\ IsFirstFree(k)
  /\ open_connections' = open_connections + 1
  /\ connections' = [connections EXCEPT ![k] =
                       [connected |-> TRUE, socket_fd |-> fd, user_data |-> session,
                        request |-> connections[k].request]]
  /\ open' = open \cup {fd}
  /\ live' = live \cup {session}

(* httpd_remove_connection; the slot keeps its old socket and session.     *)
RemoveConnection(k) ==
  /\ connections' = [connections EXCEPT ![k].request = FALSE, ![k].connected = FALSE]
  /\ live' = live \ {connections[k].user_data}
  /\ open' = open \ {connections[k].socket_fd}
  /\ open_connections' = open_connections - 1
-----------------------------------------------------------------------------
(* The server's thread.                                                    *)

CheckRunning ==
  /\ at = "check"
  /\ at' = IF running THEN "select" ELSE "removing"
  /\ i' = 0
  /\ UNCHANGED <<lifevars, server_fd4, tablevars, rfds, readable>>

Polled ==
  {connections[k].socket_fd : k \in ConnectedSlots}
    \cup {fd \in {SERVER} : HasRoom /\ server_fd4 # "none"}

Timeout_FallsThrough ==                   \* mutation: the polled set is taken for the ready one
  /\ at = "select"
  /\ at' = "accept" /\ rfds' = Polled /\ readable' = {}
  /\ UNCHANGED <<lifevars, server_fd4, tablevars, i>>
Timeout ==
  /\ at = "select"
  /\ at' = "check"
  /\ UNCHANGED <<lifevars, server_fd4, tablevars, pollvars>>

SelectFails ==
  /\ at = "select"
  /\ at' = "removing" /\ i' = 0
  /\ UNCHANGED <<lifevars, server_fd4, tablevars, rfds, readable>>

SelectReports ==
  /\ at = "select"
  /\ \E ready \in SUBSET Polled \ {{}} :
       /\ rfds' = ready
       /\ readable' = {connections[k].user_data :
                         k \in {c \in ConnectedSlots : connections[c].socket_fd \in ready}}
  /\ at' = "accept"
  /\ UNCHANGED <<lifevars, server_fd4, tablevars, i>>

MayAccept == HasRoom /\ server_fd4 # "none" /\ SERVER \in rfds

(* accept fails: the server ends.                                          *)
AcceptFails ==
  /\ at = "accept" /\ MayAccept
  /\ at' = "removing" /\ i' = 0
  /\ UNCHANGED <<lifevars, server_fd4, tablevars, rfds, readable>>

AcceptDropped_LeavingSocket ==            \* mutation: closesocket forgotten
  /\ at = "accept" /\ MayAccept
  /\ at' = "check"
  /\ \E fd \in Sockets \ open : open' = open \cup {fd}
  /\ UNCHANGED <<lifevars, server_fd4, connections, open_connections, live, pollvars>>

(* getsockname fails, the table is full, or conn_init returns NULL: the    *)
(* socket that was accepted is closed and the pass ends.                   *)
AcceptDropped ==
  /\ at = "accept" /\ MayAccept
  /\ at' = "check"
  /\ UNCHANGED <<lifevars, server_fd4, tablevars, pollvars>>

AcceptAdds ==
  /\ at = "accept" /\ MayAccept
  /\ \E k \in Slots, fd \in Sockets \ open, session \in Sessions \ live :
       AddConnection(k, fd, session)
  /\ at' = "serve" /\ i' = 0
  /\ UNCHANGED <<lifevars, server_fd4, rfds, readable>>

NoAccept ==
  /\ at = "accept" /\ ~MayAccept
  /\ at' = "serve" /\ i' = 0
  /\ UNCHANGED <<lifevars, server_fd4, tablevars, rfds, readable>>

Serving == at = "serve" /\ i \in Slots
IsReady == connections[i].connected /\ connections[i].socket_fd \in rfds

SkipSlot ==
  /\ Serving /\ ~IsReady
  /\ i' = i + 1
  /\ UNCHANGED <<lifevars, server_fd4, tablevars, at, rfds, readable>>

Dropped_Twice ==                          \* mutation: "continue" is lost after a parse error
  /\ Serving /\ IsReady
  /\ connections' = [connections EXCEPT ![i].request = FALSE, ![i].connected = FALSE]
  /\ live' = live \ {connections[i].user_data}
  /\ open' = open \ {connections[i].socket_fd}
  /\ open_connections' = open_connections - 2
  /\ i' = i + 1
  /\ UNCHANGED <<lifevars, server_fd4, at, rfds, readable>>

(* The client closed, its data does not parse, or the response to a        *)
(* complete request asks to disconnect.  A failed recv hands the parser    *)
(* the length -1; whatever it makes of that is one of the outcomes here.   *)
Dropped ==
  /\ Serving /\ IsReady
  /\ RemoveConnection(i)
  /\ i' = i + 1
  /\ UNCHANGED <<lifevars, server_fd4, at, rfds, readable>>

PartOfRequest ==
  /\ Serving /\ IsReady
  /\ connections' = [connections EXCEPT ![i].request = TRUE]
  /\ i' = i + 1
  /\ UNCHANGED <<lifevars, server_fd4, open_connections, open, live, at, rfds, readable>>

(* A complete request: conn_request, and the response, if any, is sent.    *)
Request ==
  /\ Serving /\ IsReady
  /\ connections' = [connections EXCEPT ![i].request = FALSE]
  /\ i' = i + 1
  /\ UNCHANGED <<lifevars, server_fd4, open_connections, open, live, at, rfds, readable>>

PassDone_PollsOn ==                       \* mutation: running is not looked at again
  /\ at = "serve" /\ i = max_connections
  /\ at' = "select"
  /\ UNCHANGED <<lifevars, server_fd4, tablevars, pollvars>>
PassDone ==
  /\ at = "serve" /\ i = max_connections
  /\ at' = "check"
  /\ UNCHANGED <<lifevars, server_fd4, tablevars, pollvars>>

RemoveRemaining ==
  /\ at = "removing" /\ i \in Slots
  /\ IF connections[i].connected THEN RemoveConnection(i) ELSE UNCHANGED tablevars
  /\ i' = i + 1
  /\ UNCHANGED <<lifevars, server_fd4, at, rfds, readable>>

CloseServer ==
  /\ at = "removing" /\ i = max_connections
  /\ server_fd4' = "none"
  /\ at' = "clear"
  /\ UNCHANGED <<lifevars, tablevars, pollvars>>

ClearRunning ==
  /\ at = "clear" /\ at' = "log"
  /\ running' = FALSE
  /\ UNCHANGED <<joined, caller, destroying, server_fd4, tablevars, pollvars>>

LogAndReturn ==
  /\ at = "log" /\ at' = "gone"
  /\ UNCHANGED <<lifevars, server_fd4, tablevars, pollvars>>

Thread ==
  \/ CheckRunning \/ Timeout \/ SelectFails \/ SelectReports
  \/ AcceptFails \/ AcceptDropped \/ AcceptAdds \/ NoAccept
  \/ SkipSlot \/ Dropped \/ PartOfRequest \/ Request \/ PassDone
  \/ RemoveRemaining \/ CloseServer \/ ClearRunning \/ LogAndReturn

HttpdNext == MainThread \/ Thread

(* The thread is, or may be, in conn_request, conn_destroy or send.  A     *)
(* handler may wait for a service's thread and send for the client, both   *)
(* without a limit of time.                                                *)
InHandler ==
  \/ Serving /\ IsReady
  \/ at = "removing" /\ i \in ConnectedSlots

(* The OS schedules the server's thread outside of its handlers, and the   *)
(* main thread runs on once it has entered httpd_stop.                     *)
HttpdSpec ==
  /\ HttpdInit /\ [][HttpdNext]_httpdvars
  /\ WF_httpdvars(Thread /\ ~InHandler)
  /\ WF_httpdvars(StopJoin \/ StopMark \/ Free)
-----------------------------------------------------------------------------
Connection ==
  [connected : BOOLEAN, socket_fd : Sockets \cup {NoSocket},
   user_data : Sessions \cup {NoSession}, request : BOOLEAN]

HttpdTypeOK ==
  /\ running \in BOOLEAN /\ joined \in BOOLEAN
  /\ server_fd4 \in {"none", "open", "closed"}
  /\ connections \in [Slots -> Connection]
  /\ open_connections \in 0 .. max_connections
  /\ at \in {"gone", "check", "select", "accept", "serve", "removing", "clear", "log"}
  /\ i \in 0 .. max_connections
  /\ rfds \subseteq Sockets \cup {SERVER}
  /\ caller \in {"idle", "joining", "marking", "free"} /\ destroying \in BOOLEAN
  /\ open \subseteq Sockets /\ live \subseteq Sessions /\ readable \subseteq Sessions

(* "This code should never be reached, we do not select server_fds when    *)
(* full" (httpd.cpp:115): whenever the thread goes to accept a connection, *)
(* the table has a free slot for it.                                       *)
NeverFull == at = "accept" /\ MayAccept => ConnectedSlots # Slots

(* The connected slots and only they hold a live session and an open       *)
(* socket, no two of them the same: no handler is destroyed twice, called  *)
(* after its end or forgotten, and no accepted socket is leaked, on any    *)
(* path through accept, recv, parse errors, disconnects and the shutdown.  *)
SessionsMatchTable ==
  /\ live = {connections[k].user_data : k \in ConnectedSlots}
  /\ open = {connections[k].socket_fd : k \in ConnectedSlots}
  /\ \A j, k \in ConnectedSlots : j # k =>
       /\ connections[j].user_data # connections[k].user_data
       /\ connections[j].socket_fd # connections[k].socket_fd

(* A connection never starts in the middle of a request its predecessor in *)
(* the slot left unfinished.                                               *)
FreshParser == \A k \in Slots : connections[k].request => connections[k].connected

(* recv, which would block the only thread, is called only for a session   *)
(* whose own socket the last select reported: the socket numbers left in   *)
(* rfds never stand for a connection accepted or removed since.            *)
OnlyReadableIsRead == Serving /\ IsReady => connections[i].user_data \in readable

(* After httpd_stop the table is empty, the counter is back at zero for    *)
(* the next start, and no socket is open.                                  *)
StopLeavesNothing ==
  joined => /\ at = "gone" /\ server_fd4 # "open"
            /\ ConnectedSlots = {} /\ open_connections = 0
            /\ live = {} /\ open = {}

(* The server keeps the promises every service of the program makes about  *)
(* its thread: in any order of start, stop and destroy no second thread is *)
(* made beside one that still runs, and none is left by a stop or a free.  *)
ServerLife ==
  CASE joined -> "stopped"
    [] ~joined /\ running -> "running"
    [] ~joined /\ ~running /\ caller \in {"joining", "marking"} -> "stopping"
    [] OTHER -> "failed"

Service == INSTANCE Worker WITH life <- ServerLife, active <- at # "gone"
ServesAsPromised == Service!Safe

(* httpd_stop returns unless a handler never does: wherever the thread was *)
(* when running was cleared, a stop waits for one pass of the table and    *)
(* one of its timeouts at most besides what the handlers take.             *)
StopReturns == caller = "joining" ~> (caller # "joining" \/ []InHandler)

(* The inductive invariants behind the above.  LifeInv: who may be where   *)
(* in the server's life; TableInv: the table and what it accounts for;     *)
(* PollInv: what the ready sockets of the last select still stand for.     *)
LifeInv ==
  /\ joined => ~running /\ at = "gone"
  /\ at \in {"gone", "clear", "log"} => server_fd4 # "open" /\ ConnectedSlots = {}
  /\ at = "removing" => 0 .. i - 1 \cap ConnectedSlots = {}
  /\ running => at \notin {"gone", "log"}
  /\ caller \in {"joining", "marking"} => ~running /\ ~joined
  /\ caller = "marking" => at = "gone"
  /\ caller = "free" => ~running

TableInv ==
  /\ open_connections = Cardinality(ConnectedSlots)
  /\ SessionsMatchTable
  /\ FreshParser

PollInv ==
  /\ at = "accept" => rfds \subseteq open \cup {SERVER}
  /\ at \in {"accept", "serve"} =>
       \A k \in ConnectedSlots :
         connections[k].socket_fd \in rfds => connections[k].user_data \in readable
=============================================================================
