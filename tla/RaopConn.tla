------------------------------ MODULE RaopConn ------------------------------
(***************************************************************************)
(* One RTSP connection, lib/raop.cpp and the handlers of                   *)
(* lib/raop_handlers.h that start and end its three services: the clock    *)
(* synchronisation, the audio session and the mirroring session.  The      *)
(* handlers run one after the other in the HTTP server's thread, which     *)
(* waits in them for the services' threads; a service is here what Worker  *)
(* says of it.  A connection is followed by the next one.                  *)
(***************************************************************************)
EXTENDS Pairing, Sequences

CONSTANT MaxSetups   \* bound: how many times keys are set up

ASSUME ConnAssumption == MaxSetups \in Nat

Kinds == {"ntp", "rtp", "mirror"}
Setups == 1 .. MaxSetups

VARIABLES
  phase,      \* "none": no connection, "open", or "ending": in conn_destroy
  conn,       \* the pointers of raop_conn_s: which SETUP made the service, or NULL
  state,      \* of the service of each kind that each SETUP made
  active,     \* the services' threads
  setups,     \* how many SETUPs have made services
  request,    \* the handler that runs, or "none"
  calls,      \* the stops and destroys it has left to call
  disconnect, \* a response asked the server to end the connection
  superseded, \* history: the SETUPs whose services a later one replaced in conn
  self_exit   \* history: the services whose thread ended by itself

callvars == <<request, calls>>
servicevars == <<state, active, self_exit>>
connvars == <<phase, conn, servicevars, setups, callvars, disconnect, superseded>>
vars == <<pairvars, connvars>>

NULL == 0
NoService == [k \in Kinds |-> NULL]
Services == Kinds \X Setups
Made(kind) == <<kind, conn[kind]>>

ConnInit ==
  /\ PairInit
  /\ phase = "none" /\ conn = NoService
  /\ state = [s \in Services |-> "none"] /\ active = [s \in Services |-> FALSE]
  /\ setups = 0
  /\ request = "none" /\ calls = <<>> /\ disconnect = FALSE
  /\ superseded = {} /\ self_exit = {}

NewConn_Malloc ==             \* mutation: only two of the pointers are set to NULL
  [NoService EXCEPT !["mirror"] = MaxSetups + 1]
(* calloc leaves a connection with no service.                             *)
NewConn == NoService

(* conn_init                                                               *)
Connect ==
  /\ phase = "none"
  /\ phase' = "open" /\ conn' = NewConn /\ disconnect' = FALSE
  /\ NewPairing
  /\ UNCHANGED <<servicevars, setups, callvars, superseded>>
-----------------------------------------------------------------------------
(* The handlers.                                                           *)

MayRequest == phase = "open" /\ request = "none" /\ ~disconnect

(* pair-setup, pair-verify and fp-setup.                                   *)
Pair ==
  /\ MayRequest
  /\ \E disconnects \in BOOLEAN :
       PairingHandler(disconnects) /\ disconnect' = disconnects
  /\ UNCHANGED <<phase, conn, servicevars, setups, callvars, superseded>>

(* A SETUP without eiv and ekey goes on to its streams at once.            *)
Setup ==
  /\ MayRequest
  /\ request' = "SETUP"
  /\ stage' = IF stage = SetUp THEN SetUp ELSE Astray
  /\ UNCHANGED <<status, keymsg>>
  /\ UNCHANGED <<phase, conn, servicevars, setups, calls, disconnect, superseded>>

(* One with eiv and ekey makes three services first, and starts the clock  *)
(* unless its socket does not open.  What conn points to is not looked at, *)
(* and neither is what fairplay_decrypt returns.                           *)
SetupKeys ==
  /\ MayRequest /\ setups < MaxSetups
  /\ request' = "SETUP"
  /\ Follow(SetUp) /\ UNCHANGED <<status, keymsg>>
  /\ setups' = setups + 1
  /\ conn' = [k \in Kinds |-> setups + 1]
  /\ superseded' = superseded \cup ({conn[k] : k \in Kinds} \ {NULL})
  /\ \E started \in BOOLEAN :
       /\ state' = [state EXCEPT ![<<"ntp", setups + 1>>] = IF started THEN "running" ELSE "stopped",
                                 ![<<"rtp", setups + 1>>] = "stopped",
                                 ![<<"mirror", setups + 1>>] = "stopped"]
       /\ active' = [active EXCEPT ![<<"ntp", setups + 1>>] = started]
  /\ UNCHANGED <<phase, calls, disconnect, self_exit>>

MayStart(s) == state[s] = "stopped"

(* The streams of the SETUP, in any number and order.  Type 96 or 110      *)
(* starts the session, whose socket may not open, or asks to disconnect    *)
(* when there is none; the streams that follow are set up all the same.    *)
SetupStream(kind) ==
  /\ request = "SETUP"
  /\ IF conn[kind] = NULL
       THEN disconnect' = TRUE /\ UNCHANGED <<state, active>>
       ELSE /\ \/ /\ MayStart(Made(kind))
                  /\ state' = [state EXCEPT ![Made(kind)] = "running"]
                  /\ active' = [active EXCEPT ![Made(kind)] = TRUE]
               \/ UNCHANGED <<state, active>>
            /\ UNCHANGED disconnect
  /\ UNCHANGED pairvars /\ UNCHANGED <<phase, conn, setups, callvars, superseded, self_exit>>

(* A stream of another type.                                               *)
SetupUnknown ==
  /\ request = "SETUP"
  /\ disconnect' = TRUE
  /\ UNCHANGED pairvars /\ UNCHANGED <<phase, conn, servicevars, setups, callvars, superseded>>

Stop(kind) == [kind |-> kind, destroy |-> FALSE]
Destroy(kind) == [kind |-> kind, destroy |-> TRUE]
DestroyIfMade(kind) == IF conn[kind] = NULL THEN <<>> ELSE <<Destroy(kind)>>

TeardownCalls_ClockFirst ==   \* mutation: the clock is destroyed with the sessions
  IF conn["rtp"] # NULL /\ state[Made("rtp")] = "running" THEN <<Stop("rtp")>>
  ELSE DestroyIfMade("ntp") \o DestroyIfMade("rtp") \o DestroyIfMade("mirror")
TeardownCalls_MirrorFirst ==  \* mutation: the mirroring session is looked at first
  IF conn["mirror"] # NULL THEN <<Destroy("mirror")>>
  ELSE IF conn["rtp"] # NULL THEN <<Stop("rtp")>> ELSE <<>>
(* TEARDOWN stops the audio session while it runs, and destroys both       *)
(* sessions when it does not.  (raop_rtp_destroy lets NULL pass.)          *)
TeardownCalls ==
  IF conn["rtp"] # NULL /\ state[Made("rtp")] = "running" THEN <<Stop("rtp")>>
  ELSE IF conn["mirror"] = NULL THEN <<>>
  ELSE DestroyIfMade("rtp") \o <<Destroy("mirror")>>

Teardown ==
  /\ MayRequest
  /\ request' = "TEARDOWN" /\ calls' = TeardownCalls
  /\ UNCHANGED pairvars /\ UNCHANGED <<phase, conn, servicevars, setups, disconnect, superseded>>

DestroyCalls_NotMirror ==     \* mutation: the mirroring session is forgotten
  DestroyIfMade("ntp") \o DestroyIfMade("rtp")
DestroyCalls == DestroyIfMade("ntp") \o DestroyIfMade("rtp") \o DestroyIfMade("mirror")

(* conn_destroy: the client closed, or a response asked to disconnect, or  *)
(* the server stops.                                                       *)
Disconnect ==
  /\ phase = "open" /\ request = "none"
  /\ phase' = "ending"
  /\ request' = "conn_destroy" /\ calls' = DestroyCalls
  /\ UNCHANGED pairvars /\ UNCHANGED <<conn, servicevars, setups, disconnect, superseded>>
-----------------------------------------------------------------------------
(* A handler's calls of the services' stop and destroy functions.          *)

Callee == Made(Head(calls).kind)
Stopping == state[Callee] = "stopping"

AskToStop_KeepsRunning ==     \* mutation: running stays, the thread runs on
  /\ calls # <<>> /\ state[Callee] = "running"
  /\ UNCHANGED vars
(* A running service is asked to stop.                                     *)
AskToStop ==
  /\ calls # <<>> /\ state[Callee] = "running"
  /\ state' = [state EXCEPT ![Callee] = "stopping"]
  /\ UNCHANGED pairvars /\ UNCHANGED <<phase, conn, active, self_exit, setups, callvars, disconnect, superseded>>

PointersAfter_Kept == conn                       \* mutation: the pointer stays
(* TEARDOWN clears the pointer to what it destroyed.                       *)
PointersAfter ==
  IF Head(calls).destroy /\ request = "TEARDOWN"
    THEN [conn EXCEPT ![Head(calls).kind] = NULL] ELSE conn

Finish ==
  /\ state' = [state EXCEPT ![Callee] = IF Head(calls).destroy THEN "freed"
                                        ELSE IF Stopping THEN "stopped" ELSE @]
  /\ conn' = PointersAfter
  /\ calls' = Tail(calls)
  /\ UNCHANGED pairvars /\ UNCHANGED <<phase, active, self_exit, setups, request, disconnect, superseded>>

(* It is stopped, once its thread was joined.                              *)
Joined ==
  /\ calls # <<>> /\ Stopping /\ ~active[Callee]
  /\ Finish

(* There is nothing to stop: it never ran, or its thread ended by itself.  *)
NotRunning ==
  /\ calls # <<>> /\ state[Callee] \in {"stopped", "failed"}
  /\ Finish

Return ==
  /\ request # "none" /\ calls = <<>>
  /\ request' = "none"
  /\ IF request = "conn_destroy"
       THEN phase' = "none" /\ conn' = NoService
       ELSE UNCHANGED <<phase, conn>>
  /\ UNCHANGED pairvars /\ UNCHANGED <<servicevars, setups, calls, disconnect, superseded>>

Handler == AskToStop \/ Joined \/ NotRunning \/ Return
-----------------------------------------------------------------------------
(* The services' threads.  That of the clock ends only when it is asked to *)

Fail(s) ==
  /\ s[1] # "ntp" /\ state[s] = "running"
  /\ state' = [state EXCEPT ![s] = "failed"]
  /\ \E gone \in BOOLEAN : active' = [active EXCEPT ![s] = ~gone]
  /\ self_exit' = self_exit \cup {s}
  /\ UNCHANGED pairvars /\ UNCHANGED <<phase, conn, setups, callvars, disconnect, superseded>>

ThreadEnds(s) ==
  /\ active[s] /\ state[s] # "running"
  /\ active' = [active EXCEPT ![s] = FALSE]
  /\ UNCHANGED pairvars /\ UNCHANGED <<phase, conn, state, self_exit, setups, callvars, disconnect, superseded>>

ConnNext ==
  \/ Connect \/ Pair \/ Setup \/ SetupKeys \/ SetupUnknown \/ Teardown \/ Disconnect
  \/ \E kind \in {"rtp", "mirror"} : SetupStream(kind)
  \/ Handler
  \/ \E s \in Services : Fail(s) \/ ThreadEnds(s)

(* The server's thread runs on, and a service's thread ends once it was    *)
(* asked to, except that of the mirroring session, which waits for its     *)
(* client first (see RaopRtpMirror).                                       *)
ConnSpec ==
  /\ ConnInit /\ [][ConnNext]_vars
  /\ WF_vars(Handler)
  /\ \A s \in Services : WF_vars(ThreadEnds(s) /\ (s[1] = "mirror" => s \in self_exit))
-----------------------------------------------------------------------------
Call == [kind : Kinds, destroy : BOOLEAN]

ConnTypeOK ==
  /\ PairTypeOK
  /\ phase \in {"none", "open", "ending"}
  /\ conn \in [Kinds -> Setups \cup {NULL}]
  /\ state \in [Services -> {"none", "stopped", "running", "stopping", "failed", "freed"}]
  /\ active \in [Services -> BOOLEAN]
  /\ setups \in 0 .. MaxSetups
  /\ request \in {"none", "SETUP", "TEARDOWN", "conn_destroy"}
  /\ calls \in Seq(Call)
  /\ disconnect \in BOOLEAN
  /\ superseded \subseteq Setups /\ self_exit \subseteq Services

Alive(s) == state[s] \notin {"none", "freed"}

(* No handler finds a service that was freed: until conn_destroy the       *)
(* pointers of the connection are NULL or point to live services.          *)
PointersAreLive ==
  phase # "ending" => \A k \in Kinds : conn[k] # NULL => Alive(Made(k))

(* No service is lost: once the connection is gone, or after a TEARDOWN,   *)
(* each service it made is freed, and its thread gone, unless a later      *)
(* SETUP took its place in the connection (then nobody ever stops it) or   *)
(* its thread ended by itself and may still be on its way.                 *)
NoServiceLost ==
  \A s \in Services :
    /\ Alive(s) => conn[s[1]] = s[2] \/ s[2] \in superseded
    /\ state[s] = "freed" => ~active[s] \/ s \in self_exit

(* The threads of the sessions convert timestamps with the clock of their  *)
(* SETUP: it outlives them.  conn_destroy is left out: it frees the clock  *)
(* first and joins the sessions' threads after that.                       *)
ClockOutlivesSessions ==
  phase # "ending" =>
    \A s \in Services :
      s[1] # "ntp" /\ state[s] \in {"running", "stopping"} => Alive(<<"ntp", s[2]>>)

(* After a TEARDOWN audio does not play, whichever streams were set up and *)
(* however often it came.                                                  *)
TeardownEndsAudio ==
  [][request = "TEARDOWN" /\ request' = "none"
       => conn["rtp"] = NULL \/ state[Made("rtp")] \in {"stopped", "failed"}]_vars

(* No handler, conn_destroy included, calls into a service that was not    *)
(* made or was freed, whatever SETUPs and TEARDOWNs came before it.        *)
CalleeIsLive == calls # <<>> => Alive(Callee)

(* A client that keeps the protocol's order is not disconnected before its *)
(* keys are set up, and there the key message is present, so that          *)
(* fairplay_decrypt, whose result is not looked at, makes the key.         *)
OrderlyClientIsServed ==
  stage # Astray =>
    /\ disconnect => stage = SetUp
    /\ stage = SetUp => keymsg

(* The inductive invariant behind the safety properties.  CallsInv: what a *)
(* handler has left to call is there, each service once; the connection's  *)
(* end calls everything that is still alive.  ServicesInv: which services  *)
(* there are, who points to them, and that a clock goes only at the        *)
(* connection's end.                                                       *)
CallsInv ==
  /\ request = "conn_destroy" <=> phase = "ending"
  /\ phase = "none" => conn = NoService /\ request = "none"
  /\ request \in {"none", "SETUP"} => calls = <<>>
  /\ \A i \in DOMAIN calls :
       /\ conn[calls[i].kind] # NULL /\ Alive(Made(calls[i].kind))
       /\ request = "TEARDOWN" => calls[i].kind # "ntp"
  /\ \A i, j \in DOMAIN calls : calls[i].kind = calls[j].kind => i = j
  /\ request = "TEARDOWN" /\ conn["rtp"] # NULL =>
       state[Made("rtp")] \in {"stopped", "failed"} \/ \E i \in DOMAIN calls : calls[i].kind = "rtp"
  /\ request = "conn_destroy" =>
       /\ \A i \in DOMAIN calls : calls[i].destroy
       /\ \A k \in Kinds : conn[k] # NULL /\ Alive(Made(k)) => \E i \in DOMAIN calls : calls[i].kind = k

Accounted(s) ==
  /\ state[s] = "none" <=> s[2] > setups
  /\ state[s] = "stopping" => calls # <<>> /\ s = Callee
  /\ state[s] = "failed" => s \in self_exit
  /\ s \in self_exit => state[s] \in {"failed", "freed"}
  /\ state[s] = "running" => active[s]
  /\ active[s] => state[s] \in {"running", "stopping"} \/ s \in self_exit
  /\ Alive(s) => conn[s[1]] = s[2] \/ s[2] \in superseded
  /\ Alive(s) => Alive(<<"ntp", s[2]>>) \/ (phase = "ending" /\ s[2] = setups)

ServicesInv ==
  /\ superseded \subseteq 1 .. setups - 1
  /\ \A k \in Kinds : conn[k] \in {NULL, setups}
  /\ PointersAreLive
  /\ \A s \in Services : Accounted(s)

(* Every request, and the connection's end, returns, unless it waits for   *)
(* the thread of the mirroring session.                                    *)
WaitsForMirror == calls # <<>> /\ Head(calls).kind = "mirror" /\ Stopping
HandlersReturn == request # "none" ~> request = "none" \/ WaitsForMirror
=============================================================================
