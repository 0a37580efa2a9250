--------------------------- MODULE RaopConnProofs ---------------------------
(***************************************************************************)
(* What a connection's client may rely on while it pairs, what becomes of  *)
(* the services, and that handlers come to an end, for every number of     *)
(* SETUPs.                                                                 *)
(***************************************************************************)
EXTENDS RaopConn, TLAPS

(* The status never comes to be finished, because the first pair-verify    *)
(* closes the door to the second; each stage of a client that keeps the    *)
(* order says what the handlers have done for it.                          *)
PairingInv ==
  /\ PairTypeOK
  /\ status # "finished"
  /\ stage = 1 => status = "setup"
  /\ stage = 2 => status = "handshake"
  /\ stage \in {5, SetUp} => keymsg

(* Only a handler disconnects, and the handlers of SETUP run for a client  *)
(* that has set up its keys, or has gone astray.                           *)
OrderInv ==
  /\ PairingInv
  /\ disconnect => stage \in {Astray, SetUp}
  /\ request = "SETUP" => stage \in {Astray, SetUp}
  /\ request = "SETUP" => phase = "open"

LEMMA OrderInvInit == ConnInit => OrderInv
<1> SUFFICES ASSUME ConnInit PROVE OrderInv
  OBVIOUS
<1>1. stage \in Astray .. SetUp /\ stage \notin {1, 2, 5, SetUp}
  BY DEF ConnInit, PairInit, Astray, SetUp
<1>2. QED
  BY <1>1 DEF ConnInit, PairInit, OrderInv, PairingInv, PairTypeOK

(* The messages of pairing and FairPlay keep PairingInv, whatever their    *)
(* order, and disconnect only a client that has gone astray.               *)
LEMMA PairingHandlerKeeps ==
  ASSUME PairingInv, NEW disconnects \in BOOLEAN, PairingHandler(disconnects)
  PROVE  PairingInv' /\ (disconnects => stage' = Astray)
<1> USE DEF PairingInv, PairTypeOK, Astray, SetUp, Follow
<1>1. CASE PairSetup(disconnects)
  BY <1>1 DEF PairSetup
<1>2. CASE VerifyRefused(disconnects)
  BY <1>2 DEF VerifyRefused, CheckHandshake
<1>3. CASE Malformed(disconnects)
  BY <1>3 DEF Malformed
<1>4. CASE VerifyFirst(disconnects)
  BY <1>4 DEF VerifyFirst, CheckHandshake
<1>5. CASE VerifySecond(disconnects)
  BY <1>5 DEF VerifySecond, CheckHandshake
<1>6. CASE FairplaySetup(disconnects)
  <2>1. stage' \in Astray .. SetUp /\ stage' \notin {1, 2, 5, SetUp}
    BY <1>6 DEF FairplaySetup
  <2>2. QED
    BY <1>6, <2>1 DEF FairplaySetup
<1>7. CASE FairplayHandshake(disconnects)
  BY <1>7 DEF FairplayHandshake
<1>8. QED
  BY <1>1, <1>2, <1>3, <1>4, <1>5, <1>6, <1>7 DEF PairingHandler

LEMMA OrderInvNext == OrderInv /\ [ConnNext]_vars => OrderInv'
<1> SUFFICES ASSUME OrderInv, [ConnNext]_vars PROVE OrderInv'
  OBVIOUS
<1>1. ASSUME UNCHANGED pairvars PROVE PairingInv' /\ stage' = stage
  <2>1. status' = status /\ keymsg' = keymsg /\ stage' = stage
    BY <1>1 DEF pairvars
  <2>2. QED
    BY <2>1, Zenon DEF OrderInv, PairingInv, PairTypeOK
<1>2. CASE Connect
  <2>1. stage' \in Astray .. SetUp /\ stage' \notin {1, 2, 5, SetUp}
    BY <1>2 DEF Connect, NewPairing, Astray, SetUp
  <2>2. QED
    BY <1>2, <2>1 DEF Connect, NewPairing, callvars, OrderInv, PairingInv, PairTypeOK
<1>3. CASE Pair
  <2>1. PICK disconnects \in BOOLEAN : PairingHandler(disconnects) /\ disconnect' = disconnects
    BY <1>3 DEF Pair
  <2>2. PairingInv' /\ (disconnect' => stage' = Astray)
    BY <2>1, PairingHandlerKeeps DEF OrderInv
  <2>3. QED
    BY <1>3, <2>2 DEF Pair, MayRequest, callvars, OrderInv
<1>4. CASE Setup
  BY <1>4 DEF Setup, MayRequest, OrderInv, PairingInv, PairTypeOK, Astray, SetUp
<1>5. CASE SetupKeys
  BY <1>5 DEF SetupKeys, MayRequest, Follow, OrderInv, PairingInv, PairTypeOK, Astray, SetUp
<1>6. CASE SetupUnknown \/ \E kind \in {"rtp", "mirror"} : SetupStream(kind)
  BY <1>1, <1>6 DEF SetupUnknown, SetupStream, callvars, OrderInv
<1>7. CASE Teardown \/ Disconnect
  BY <1>1, <1>7 DEF Teardown, Disconnect, OrderInv
<1>8. CASE Handler
  BY <1>1, <1>8 DEF Handler, AskToStop, Joined, NotRunning, Finish, Return, callvars, OrderInv
<1>9. CASE \E s \in Services : Fail(s) \/ ThreadEnds(s)
  BY <1>1, <1>9 DEF Fail, ThreadEnds, callvars, OrderInv
<1>10. CASE UNCHANGED vars
  BY <1>1, <1>10 DEF vars, connvars, callvars, OrderInv
<1>11. QED
  BY <1>2, <1>3, <1>4, <1>5, <1>6, <1>7, <1>8, <1>9, <1>10 DEF ConnNext

LEMMA OrderInvAlways == ConnSpec => []OrderInv
BY OrderInvInit, OrderInvNext, PTL DEF ConnSpec

(* A client that keeps the order of the protocol is not disconnected       *)
(* before its keys are set up, and fairplay_decrypt then finds the key     *)
(* message.                                                                *)
THEOREM OrderlyClientAlwaysServed == ConnSpec => []OrderlyClientIsServed
<1>1. OrderInv => OrderlyClientIsServed
  BY DEF OrderInv, PairingInv, OrderlyClientIsServed
<1>2. QED
  BY <1>1, OrderInvAlways, PTL
-----------------------------------------------------------------------------
(* The services of a connection: what exists, who points to it, and which  *)
(* calls are left.                                                         *)
ConnVarsOK ==
  /\ phase \in {"none", "open", "ending"}
  /\ conn \in [Kinds -> Setups \cup {NULL}]
  /\ state \in [Services -> {"none", "stopped", "running", "stopping", "failed", "freed"}]
  /\ active \in [Services -> BOOLEAN]
  /\ setups \in 0 .. MaxSetups
  /\ request \in {"none", "SETUP", "TEARDOWN", "conn_destroy"}
  /\ calls \in Seq(Call)
  /\ disconnect \in BOOLEAN
  /\ superseded \subseteq Setups /\ self_exit \subseteq Services

ConnInv == ConnVarsOK /\ CallsInv /\ ServicesInv

LEMMA ServiceParts ==
  ASSUME NEW s \in Services
  PROVE  s[1] \in Kinds /\ s[2] \in Setups /\ s = <<s[1], s[2]>>
BY DEF Services

LEMMA ConnInvInit == ConnInit => ConnInv
<1> SUFFICES ASSUME ConnInit PROVE ConnInv
  OBVIOUS
<1> USE DEF ConnInit, NoService, NULL
<1>1. ConnVarsOK
  <2>1. /\ active \in [Services -> BOOLEAN]
        /\ state \in [Services -> {"none", "stopped", "running", "stopping", "failed", "freed"}]
    OBVIOUS
  <2>2. conn \in [Kinds -> Setups \cup {NULL}] /\ calls \in Seq(Call)
    OBVIOUS
  <2>3. /\ phase = "none" /\ request = "none" /\ setups \in 0 .. MaxSetups
        /\ superseded \subseteq Setups /\ self_exit \subseteq Services
    BY ConnAssumption
  <2>4. disconnect \in BOOLEAN
    BY Zenon
  <2>5. QED
    BY <2>1, <2>2, <2>3, <2>4 DEF ConnVarsOK
<1>2. CallsInv
  BY DEF CallsInv, Kinds
<1>3. PointersAreLive
  BY DEF PointersAreLive
<1>4. ASSUME NEW s \in Services PROVE Accounted(s)
  <2>1. s[2] > 0 /\ state[s] = "none" /\ ~active[s]
    BY ServiceParts, ConnAssumption DEF Setups
  <2>2. QED
    BY <2>1 DEF Accounted, Alive
<1>5. QED
  BY <1>1, <1>2, <1>3, <1>4, ConnAssumption DEF ConnInv, ServicesInv

(* Steps that change neither the services nor the calls.                   *)
LEMMA FrameKeeps ==
  ASSUME ConnInv, UNCHANGED <<phase, conn, servicevars, setups, calls, superseded>>,
         UNCHANGED request \/ (request = "none" /\ request' = "SETUP" /\ phase = "open")
                           \/ (request \in {"SETUP", "TEARDOWN"} /\ request' = "none" /\ calls = <<>>),
         disconnect' \in BOOLEAN
  PROVE  ConnInv'
<1> USE DEF ConnInv, servicevars
<1>1. ConnVarsOK'
  BY DEF ConnVarsOK
<1>2. CallsInv'
  BY DEF CallsInv, Alive, Made
<1>3. PointersAreLive'
  BY DEF ServicesInv, PointersAreLive, Alive, Made
<1>4. ASSUME NEW s \in Services PROVE Accounted(s)'
  BY DEF ServicesInv, Accounted, Alive, Made, Callee
<1>5. QED
  BY <1>1, <1>2, <1>3, <1>4 DEF ServicesInv

LEMMA ConnectKeeps == ASSUME ConnInv, Connect PROVE ConnInv'
<1> USE DEF Connect, callvars, servicevars
<1>1. conn = NoService /\ conn' = conn
  BY DEF ConnInv, CallsInv, NewConn
<1>2. ConnVarsOK'
  BY <1>1 DEF ConnInv, ConnVarsOK
<1>3. CallsInv'
  BY <1>1 DEF ConnInv, CallsInv, NoService, NULL
<1>4. PointersAreLive'
  BY <1>1 DEF PointersAreLive, NoService
<1>5. ASSUME NEW s \in Services PROVE Accounted(s)'
  BY <1>1 DEF ConnInv, ServicesInv, Accounted, Alive, Made, Callee
<1>6. QED
  BY <1>1, <1>2, <1>3, <1>4, <1>5 DEF ConnInv, ServicesInv

(* A SETUP with keys: three new services, and the old pointers are gone.   *)
LEMMA SetupKeysKeeps == ASSUME ConnInv, SetupKeys PROVE ConnInv'
<1> DEFINE n == setups + 1
<1>1. /\ n \in Setups /\ setups' = n /\ conn' = [k \in Kinds |-> n]
      /\ request' = "SETUP" /\ calls' = calls /\ phase' = phase
      /\ phase = "open" /\ request = "none" /\ calls = <<>>
      /\ UNCHANGED <<disconnect, self_exit>>
      /\ superseded' = superseded \cup ({conn[k] : k \in Kinds} \ {NULL})
  BY ConnAssumption
     DEF SetupKeys, MayRequest, ConnInv, ConnVarsOK, CallsInv, Setups
<1>2. PICK started \in BOOLEAN :
        /\ state' = [state EXCEPT ![<<"ntp", n>>] = IF started THEN "running" ELSE "stopped",
                                  ![<<"rtp", n>>] = "stopped",
                                  ![<<"mirror", n>>] = "stopped"]
        /\ active' = [active EXCEPT ![<<"ntp", n>>] = started]
  BY DEF SetupKeys
<1>3. ASSUME NEW k \in Kinds PROVE <<k, n>> \in Services /\ state[<<k, n>>] = "none"
  <2>1. <<k, n>> \in Services /\ <<k, n>>[2] = n
    BY <1>1 DEF Services
  <2>2. n > setups
    BY ConnAssumption DEF ConnInv, ConnVarsOK
  <2>3. QED
    BY <2>1, <2>2 DEF ConnInv, ServicesInv, Accounted
<1>4. ASSUME NEW k \in Kinds
      PROVE  /\ state'[<<k, n>>] \in {"running", "stopped"}
             /\ active'[<<k, n>>] <=> state'[<<k, n>>] = "running"
             /\ <<k, n>> \notin self_exit
  <2>1. ~active[<<k, n>>] /\ <<k, n>> \notin self_exit
    BY <1>3 DEF ConnInv, ServicesInv, Accounted
  <2>2. CASE k = "ntp"
    BY <1>2, <1>3, <2>1, <2>2 DEF ConnInv, ConnVarsOK
  <2>3. CASE k # "ntp"
    <3>1. state'[<<k, n>>] = "stopped"
      BY <1>2, <1>3, <2>3 DEF ConnInv, ConnVarsOK, Kinds
    <3>2. active'[<<k, n>>] = active[<<k, n>>]
      BY <1>2, <1>3, <2>3 DEF ConnInv, ConnVarsOK, Kinds
    <3>3. QED
      BY <2>1, <3>1, <3>2
  <2>4. QED
    BY <2>2, <2>3
<1>5. ASSUME NEW s \in Services, s[2] # n
      PROVE  state'[s] = state[s] /\ active'[s] = active[s]
  <2>1. s # <<"ntp", n>> /\ s # <<"rtp", n>> /\ s # <<"mirror", n>>
    BY <1>5
  <2>2. QED
    BY <1>2, <2>1 DEF ConnInv, ConnVarsOK
<1>6. ConnVarsOK'
  <2>1. /\ state' \in [Services -> {"none", "stopped", "running", "stopping", "failed", "freed"}]
        /\ active' \in [Services -> BOOLEAN]
    BY <1>2, <1>3 DEF ConnInv, ConnVarsOK, Kinds
  <2>2. superseded' \subseteq Setups
    BY <1>1 DEF ConnInv, ConnVarsOK
  <2>3. QED
    BY <1>1, <2>1, <2>2 DEF ConnInv, ConnVarsOK, Setups
<1>7. CallsInv'
  BY <1>1 DEF CallsInv
<1>8. superseded' \subseteq 1 .. setups' - 1 /\ \A k \in Kinds : conn'[k] = setups'
  <2>1. \A k \in Kinds : conn'[k] = setups'
    BY <1>1
  <2>2. setups \in Nat /\ superseded \subseteq 1 .. setups - 1
    BY ConnAssumption DEF ConnInv, ConnVarsOK, ServicesInv
  <2>3. \A m \in superseded' : m \in superseded \/ (m = setups /\ m # 0)
    BY <1>1 DEF ConnInv, ServicesInv, NULL
  <2>4. ASSUME NEW m \in superseded' PROVE m \in 1 .. setups' - 1
    <3>1. setups' - 1 = setups
      BY <1>1, <2>2
    <3>2. CASE m \in superseded
      BY <2>2, <3>1, <3>2
    <3>3. CASE m = setups /\ m # 0
      BY <2>2, <3>1, <3>3
    <3>4. QED
      BY <2>3, <3>2, <3>3
  <2>5. QED
    BY <2>1, <2>4
<1>9. PointersAreLive'
  BY <1>1, <1>4, <1>8 DEF PointersAreLive, Alive, Made
<1>10. ASSUME NEW s \in Services PROVE Accounted(s)'
  <2>1. s[1] \in Kinds /\ s[2] \in Setups /\ s = <<s[1], s[2]>> /\ "ntp" \in Kinds
    BY ServiceParts DEF Kinds
  <2>2. CASE s[2] = n
    BY <1>1, <1>4, <1>8, <2>1, <2>2 DEF Accounted, Alive, Setups
  <2>3. CASE s[2] # n
    <3>1. <<"ntp", s[2]>> \in Services /\ <<"ntp", s[2]>>[2] # n
      BY <2>1, <2>3 DEF Services
    <3>2. state'[s] = state[s] /\ active'[s] = active[s]
          /\ state'[<<"ntp", s[2]>>] = state[<<"ntp", s[2]>>]
      BY <1>5, <2>3, <3>1
    <3>3. state[s] # "stopping"
      BY <1>1 DEF ConnInv, ServicesInv, Accounted
    <3>4. Alive(s) => s[2] \in superseded'
      <4>1. Alive(s) => conn[s[1]] = s[2] \/ s[2] \in superseded
        BY DEF ConnInv, ServicesInv, Accounted
      <4>2. conn[s[1]] = s[2] => s[2] \in {conn[k] : k \in Kinds} \ {NULL}
        BY <2>1, ConnAssumption DEF NULL, Setups
      <4>3. QED
        BY <1>1, <4>1, <4>2
    <3>5. state[s] = "none" <=> s[2] > n
      <4>1. state[s] = "none" <=> s[2] > setups
        BY DEF ConnInv, ServicesInv, Accounted
      <4>2. setups \in Nat /\ s[2] \in Nat
        BY <2>1, ConnAssumption DEF ConnInv, ConnVarsOK, Setups
      <4>3. s[2] > setups <=> s[2] > n
        BY <2>3, <4>2
      <4>4. QED
        BY <4>1, <4>3
    <3>6. QED
      BY <1>1, <3>2, <3>3, <3>4, <3>5 DEF ConnInv, ServicesInv, Accounted, Alive
  <2>4. QED
    BY <2>2, <2>3
<1>11. QED
  BY <1>6, <1>7, <1>8, <1>9, <1>10 DEF ConnInv, ServicesInv

LEMMA StreamKeeps ==
  ASSUME ConnInv, NEW kind \in {"rtp", "mirror"}, SetupStream(kind)
  PROVE  ConnInv'
<1> USE DEF SetupStream, callvars
<1>1. CASE UNCHANGED <<state, active>>
  <2>1. disconnect' \in BOOLEAN
    BY Zenon DEF ConnInv, ConnVarsOK
  <2>2. QED
    BY <1>1, <2>1, FrameKeeps DEF servicevars
<1>2. CASE /\ conn[kind] # NULL /\ MayStart(Made(kind))
           /\ state' = [state EXCEPT ![Made(kind)] = "running"]
           /\ active' = [active EXCEPT ![Made(kind)] = TRUE]
           /\ UNCHANGED disconnect
  <2> DEFINE m == Made(kind)
  <2>1. kind \in Kinds /\ m \in Services /\ m[1] = kind /\ m[2] = conn[kind] /\ conn[kind] = setups
    BY <1>2 DEF ConnInv, ConnVarsOK, ServicesInv, Kinds, Services, Made
  <2>2. /\ state'[m] = "running" /\ active'[m] = TRUE /\ state[m] = "stopped"
        /\ \A s \in Services : s # m => state'[s] = state[s] /\ active'[s] = active[s]
    BY <1>2, <2>1 DEF ConnInv, ConnVarsOK, MayStart
  <2>3. \A s \in Services : Alive(s)' <=> Alive(s)
    BY <2>1, <2>2 DEF Alive
  <2>4. calls = <<>> /\ calls' = calls /\ UNCHANGED <<phase, conn, setups, request, superseded, self_exit>>
    BY DEF ConnInv, CallsInv
  <2>5. ConnVarsOK'
    BY <1>2, <2>1, <2>4 DEF ConnInv, ConnVarsOK
  <2>6. CallsInv'
    BY <2>4 DEF ConnInv, CallsInv
  <2>7. PointersAreLive'
    <3>1. \A k \in Kinds : conn[k] # NULL => Made(k) \in Services
      BY DEF ConnInv, ConnVarsOK, Made, Services
    <3>2. QED
      BY <2>3, <2>4, <3>1 DEF ConnInv, ServicesInv, PointersAreLive, Made
  <2>8. ASSUME NEW s \in Services PROVE Accounted(s)'
    <3>1. <<"ntp", s[2]>> \in Services
      BY ServiceParts DEF Services, Kinds
    <3>2. state[s] # "stopping"
      BY <2>4 DEF ConnInv, ServicesInv, Accounted
    <3>3. CASE s = m
      BY <2>1, <2>2, <2>3, <2>4, <3>1, <3>3 DEF ConnInv, ServicesInv, Accounted
    <3>4. CASE s # m
      BY <2>2, <2>3, <2>4, <3>1, <3>2, <3>4 DEF ConnInv, ServicesInv, Accounted
    <3>5. QED
      BY <3>3, <3>4
  <2>9. QED
    BY <2>4, <2>5, <2>6, <2>7, <2>8 DEF ConnInv, ServicesInv
<1>3. QED
  BY <1>1, <1>2

(* The calls of a handler cover a set of kinds: each made service once.    *)
Covers(q, K) ==
  /\ q \in Seq(Call)
  /\ \A i \in DOMAIN q : q[i].destroy /\ q[i].kind \in K /\ conn[q[i].kind] # NULL
  /\ \A i, j \in DOMAIN q : q[i].kind = q[j].kind => i = j
  /\ \A k \in K : conn[k] # NULL => \E i \in DOMAIN q : q[i].kind = k

LEMMA OneMoreCall ==
  ASSUME NEW q, NEW K \in SUBSET Kinds, Covers(q, K), NEW k \in Kinds, k \notin K
  PROVE  Covers(q \o DestroyIfMade(k), K \cup {k})
<1>1. q \in Seq(Call) /\ Len(q) \in Nat /\ DOMAIN q = 1 .. Len(q)
  BY DEF Covers
<1>2. CASE conn[k] = NULL
  <2>1. q \o DestroyIfMade(k) = q
    BY <1>1, <1>2 DEF DestroyIfMade
  <2>2. QED
    BY <1>2, <2>1 DEF Covers
<1>3. CASE conn[k] # NULL
  <2> DEFINE r == q \o <<Destroy(k)>>
  <2>1. Destroy(k) \in Call /\ Destroy(k).kind = k /\ Destroy(k).destroy = TRUE
    BY DEF Destroy, Call
  <2>2. /\ r \in Seq(Call) /\ DOMAIN r = 1 .. Len(q) + 1
        /\ r[Len(q) + 1] = Destroy(k)
        /\ \A i \in DOMAIN q : r[i] = q[i]
    BY <1>1, <2>1
  <2> HIDE DEF r
  <2>3. \A i \in DOMAIN r : i = Len(q) + 1 \/ (i \in DOMAIN q /\ i # Len(q) + 1)
    BY <1>1, <2>2
  <2>4. Covers(r, K \cup {k})
    <3>1. \A i \in DOMAIN r : r[i].destroy /\ r[i].kind \in K \cup {k} /\ conn[r[i].kind] # NULL
      BY <1>3, <2>1, <2>2, <2>3 DEF Covers
    <3>2. ASSUME NEW i \in DOMAIN r, NEW j \in DOMAIN r, r[i].kind = r[j].kind PROVE i = j
      BY <2>1, <2>2, <2>3, <3>2 DEF Covers
    <3>3. ASSUME NEW m \in K \cup {k}, conn[m] # NULL PROVE \E i \in DOMAIN r : r[i].kind = m
      <4>1. CASE m = k
        BY <1>1, <2>1, <2>2, <4>1
      <4>2. CASE m \in K
        BY <1>1, <2>2, <3>3, <4>2 DEF Covers
      <4>3. QED
        BY <4>1, <4>2
    <3>4. QED
      BY <2>2, <3>1, <3>2, <3>3 DEF Covers
  <2>5. QED
    BY <1>3, <2>4 DEF DestroyIfMade, r
<1>4. QED
  BY <1>2, <1>3

LEMMA CallsCover ==
  /\ Covers(DestroyCalls, Kinds)
  /\ conn["mirror"] # NULL => Covers(DestroyIfMade("rtp") \o <<Destroy("mirror")>>, {"rtp", "mirror"})
<1>1. Covers(<<>>, {})
  BY DEF Covers
<1>2. ASSUME NEW k \in Kinds PROVE <<>> \o DestroyIfMade(k) = DestroyIfMade(k)
  <2>1. Destroy(k) \in Call
    BY DEF Destroy, Call
  <2>2. <<>> \in Seq(Call) /\ <<Destroy(k)>> \in Seq(Call)
    BY <2>1
  <2>3. DestroyIfMade(k) = <<>> \/ DestroyIfMade(k) = <<Destroy(k)>>
    BY DEF DestroyIfMade
  <2>4. QED
    BY <2>2, <2>3
<1>3. Covers(DestroyIfMade("ntp"), {"ntp"}) /\ Covers(DestroyIfMade("rtp"), {"rtp"})
  <2>1. ASSUME NEW k \in Kinds PROVE Covers(DestroyIfMade(k), {k})
    <3>1. Covers(<<>> \o DestroyIfMade(k), {} \cup {k})
      BY <1>1, OneMoreCall
    <3>2. QED
      BY <1>2, <3>1
  <2>2. QED
    BY <2>1 DEF Kinds
<1>4. Covers(DestroyIfMade("ntp") \o DestroyIfMade("rtp"), {"ntp"} \cup {"rtp"})
  BY <1>3, OneMoreCall DEF Kinds
<1>5. Covers(DestroyCalls, ({"ntp"} \cup {"rtp"}) \cup {"mirror"})
  BY <1>4, OneMoreCall DEF Kinds, DestroyCalls
<1>6. Covers(DestroyIfMade("rtp") \o DestroyIfMade("mirror"), {"rtp"} \cup {"mirror"})
  BY <1>3, OneMoreCall DEF Kinds
<1>7. ({"ntp"} \cup {"rtp"}) \cup {"mirror"} = Kinds /\ {"rtp"} \cup {"mirror"} = {"rtp", "mirror"}
  BY DEF Kinds
<1>8. conn["mirror"] # NULL => DestroyIfMade("mirror") = <<Destroy("mirror")>>
  BY DEF DestroyIfMade
<1>9. QED
  BY <1>5, <1>6, <1>7, <1>8

LEMMA TeardownCallsAre ==
  /\ TeardownCalls \in Seq(Call)
  /\ \A i \in DOMAIN TeardownCalls :
       conn[TeardownCalls[i].kind] # NULL /\ TeardownCalls[i].kind \in {"rtp", "mirror"}
  /\ \A i, j \in DOMAIN TeardownCalls : TeardownCalls[i].kind = TeardownCalls[j].kind => i = j
<1>1. CASE conn["rtp"] # NULL /\ state[Made("rtp")] = "running"
  <2>1. TeardownCalls = <<Stop("rtp")>> /\ Stop("rtp") \in Call /\ Stop("rtp").kind = "rtp"
    BY <1>1 DEF TeardownCalls, Stop, Call, Kinds
  <2>2. QED
    BY <1>1, <2>1
<1>2. CASE ~(conn["rtp"] # NULL /\ state[Made("rtp")] = "running") /\ conn["mirror"] = NULL
  <2>1. TeardownCalls = <<>>
    BY <1>2 DEF TeardownCalls
  <2>2. QED
    BY <2>1
<1>3. CASE ~(conn["rtp"] # NULL /\ state[Made("rtp")] = "running") /\ conn["mirror"] # NULL
  <2>1. TeardownCalls = DestroyIfMade("rtp") \o <<Destroy("mirror")>>
    BY <1>3 DEF TeardownCalls
  <2>2. Covers(TeardownCalls, {"rtp", "mirror"})
    BY <1>3, <2>1, CallsCover
  <2>3. QED
    BY <2>2 DEF Covers
<1>4. QED
  BY <1>1, <1>2, <1>3

LEMMA TeardownKeeps == ASSUME ConnInv, Teardown PROVE ConnInv'
<1>1. /\ phase = "open" /\ request = "none" /\ calls = <<>>
      /\ request' = "TEARDOWN" /\ calls' = TeardownCalls
      /\ UNCHANGED <<phase, conn, state, active, self_exit, setups, disconnect, superseded>>
  BY DEF Teardown, MayRequest, servicevars, ConnInv, CallsInv
<1>2. PointersAreLive /\ PointersAreLive'
  BY <1>1 DEF ConnInv, ServicesInv, PointersAreLive, Alive, Made
<1>3. ConnVarsOK'
  BY <1>1, TeardownCallsAre DEF ConnInv, ConnVarsOK
<1>4. CallsInv'
  <2>1. \A k \in Kinds : conn[k] # NULL => Alive(Made(k))
    BY <1>1, <1>2 DEF PointersAreLive
  <2>2. \A i \in DOMAIN TeardownCalls : TeardownCalls[i].kind \in Kinds /\ TeardownCalls[i].kind # "ntp"
    BY TeardownCallsAre DEF Kinds
  <2>3. \A k \in Kinds : Alive(Made(k))' <=> Alive(Made(k))
    BY <1>1 DEF Alive, Made
  <2>4. conn["rtp"] # NULL => \/ state[Made("rtp")] \in {"stopped", "failed"}
                             \/ \E i \in DOMAIN TeardownCalls : TeardownCalls[i].kind = "rtp"
    <3>1. CASE state[Made("rtp")] = "running" /\ conn["rtp"] # NULL
      <4>1. TeardownCalls = <<Stop("rtp")>> /\ Stop("rtp").kind = "rtp"
        BY <3>1 DEF TeardownCalls, Stop
      <4>2. QED
        BY <4>1
    <3>2. CASE state[Made("rtp")] # "running" /\ conn["rtp"] # NULL
      <4>1. Made("rtp") \in Services /\ Alive(Made("rtp"))
        BY <2>1, <3>2 DEF Made, Services, Kinds, ConnInv, ConnVarsOK
      <4>2. state[Made("rtp")] # "stopping"
        BY <1>1, <4>1 DEF ConnInv, ServicesInv, Accounted
      <4>3. QED
        BY <3>2, <4>1, <4>2 DEF ConnInv, ConnVarsOK, Alive
    <3>3. QED
      BY <3>1, <3>2
  <2>5. QED
    BY <1>1, <2>1, <2>2, <2>3, <2>4, TeardownCallsAre DEF CallsInv, Made
<1>5. ASSUME NEW s \in Services PROVE Accounted(s)'
  BY <1>1 DEF ConnInv, ServicesInv, Accounted, Alive
<1>6. QED
  BY <1>1, <1>2, <1>3, <1>4, <1>5 DEF ConnInv, ServicesInv

LEMMA DisconnectKeeps == ASSUME ConnInv, Disconnect PROVE ConnInv'
<1>1. /\ phase = "open" /\ request = "none" /\ calls = <<>>
      /\ phase' = "ending" /\ request' = "conn_destroy" /\ calls' = DestroyCalls
      /\ UNCHANGED <<conn, state, active, self_exit, setups, disconnect, superseded>>
  BY DEF Disconnect, servicevars, ConnInv, CallsInv
<1>2. \A k \in Kinds : conn[k] # NULL => Alive(Made(k))
  BY <1>1 DEF ConnInv, ServicesInv, PointersAreLive
<1>3. PointersAreLive'
  BY <1>1 DEF PointersAreLive
<1>4. ConnVarsOK'
  BY <1>1, CallsCover DEF ConnInv, ConnVarsOK, Covers
<1>5. CallsInv'
  <2>1. \A k \in Kinds : Alive(Made(k))' <=> Alive(Made(k))
    BY <1>1 DEF Alive, Made
  <2>2. QED
    BY <1>1, <1>2, <2>1, CallsCover DEF CallsInv, Covers
<1>6. ASSUME NEW s \in Services PROVE Accounted(s)'
  BY <1>1 DEF ConnInv, ServicesInv, Accounted, Alive
<1>7. QED
  BY <1>1, <1>3, <1>4, <1>5, <1>6 DEF ConnInv, ServicesInv

(* What a handler calls next.                                              *)
LEMMA CalleeFacts ==
  ASSUME ConnInv, calls # <<>>
  PROVE  /\ Head(calls) = calls[1] /\ 1 \in DOMAIN calls /\ Head(calls) \in Call
         /\ Tail(calls) \in Seq(Call)
         /\ \A i \in DOMAIN Tail(calls) : /\ i + 1 \in DOMAIN calls /\ i + 1 # 1
                                          /\ Tail(calls)[i] = calls[i + 1]
         /\ \A i \in DOMAIN calls : i = 1 \/ (i - 1 \in DOMAIN Tail(calls) /\ i - 1 + 1 = i)
         /\ Head(calls).kind \in Kinds /\ conn[Head(calls).kind] = setups /\ setups # NULL
         /\ Callee \in Services /\ Callee = <<Head(calls).kind, setups>> /\ Alive(Callee)
         /\ request \in {"TEARDOWN", "conn_destroy"}
<1>1. calls \in Seq(Call)
  BY DEF ConnInv, ConnVarsOK
<1>2. /\ Head(calls) = calls[1] /\ 1 \in DOMAIN calls /\ Head(calls) \in Call
      /\ Tail(calls) \in Seq(Call)
      /\ \A i \in DOMAIN Tail(calls) : /\ i + 1 \in DOMAIN calls /\ i + 1 # 1
                                       /\ Tail(calls)[i] = calls[i + 1]
      /\ \A i \in DOMAIN calls : i = 1 \/ (i - 1 \in DOMAIN Tail(calls) /\ i - 1 + 1 = i)
  BY <1>1
<1>3. /\ Head(calls).kind \in Kinds
      /\ conn[Head(calls).kind] # NULL /\ Alive(Made(Head(calls).kind))
  BY <1>2 DEF ConnInv, CallsInv, Call
<1>4. conn[Head(calls).kind] = setups /\ conn[Head(calls).kind] \in Setups
  BY <1>3 DEF ConnInv, ConnVarsOK, ServicesInv
<1>5. request \in {"TEARDOWN", "conn_destroy"}
  BY DEF ConnInv, ConnVarsOK, CallsInv
<1>6. QED
  BY <1>2, <1>3, <1>4, <1>5 DEF Callee, Made, Services

LEMMA CallKinds == \A q \in Seq(Call) : \A i \in DOMAIN q : q[i].kind \in Kinds
<1>1. ASSUME NEW q \in Seq(Call), NEW i \in DOMAIN q PROVE q[i].kind \in Kinds
  <2>1. q[i] \in Call
    OBVIOUS
  <2>2. QED
    BY <2>1 DEF Call
<1>2. QED
  BY <1>1

LEMMA FinishKeeps ==
  ASSUME ConnInv, calls # <<>>, state[Callee] \in {"stopping", "stopped", "failed"},
         Stopping => ~active[Callee], Finish
  PROVE  ConnInv'
<1>a. PICK k \in Kinds, c \in Services, d \in BOOLEAN :
         k = Head(calls).kind /\ c = Callee /\ d = Head(calls).destroy
  BY CalleeFacts DEF Call
<1>1. /\ k \in Kinds /\ conn[k] = setups /\ setups # NULL /\ d \in BOOLEAN
      /\ c \in Services /\ c[1] = k /\ c[2] = setups /\ Alive(c)
      /\ request \in {"TEARDOWN", "conn_destroy"}
      /\ request = "conn_destroy" <=> phase = "ending"
      /\ request = "conn_destroy" => d
      /\ request = "TEARDOWN" => k # "ntp"
  BY <1>a, CalleeFacts DEF ConnInv, CallsInv, Call
<1>2. /\ c \in DOMAIN state
      /\ \A s \in Services : s # c => state'[s] = state[s]
      /\ d => state'[c] = "freed"
      /\ ~d => state'[c] \in {"stopped", "failed"} /\ (state'[c] = "failed" <=> state[c] = "failed")
  BY <1>a, <1>1 DEF Finish, ConnInv, ConnVarsOK, Stopping
<1>3. /\ UNCHANGED <<phase, active, self_exit, setups, request, disconnect, superseded>>
      /\ calls' = Tail(calls)
  BY DEF Finish
<1>4. /\ \A j \in Kinds : j # k => conn'[j] = conn[j]
      /\ d /\ request = "TEARDOWN" => conn'[k] = NULL
      /\ ~(d /\ request = "TEARDOWN") => conn' = conn
      /\ conn' \in [Kinds -> Setups \cup {NULL}]
  BY <1>a, <1>1 DEF Finish, PointersAfter, ConnInv, ConnVarsOK
<1>5. ASSUME NEW j \in Kinds, j # k, conn[j] # NULL
      PROVE  Made(j) \in Services /\ Made(j) # c /\ Made(j)' = Made(j) /\ (Alive(Made(j))' <=> Alive(Made(j)))
  BY <1>1, <1>2, <1>4, <1>5 DEF Made, Services, ConnInv, ConnVarsOK, Alive
<1>6. ConnVarsOK'
  <2>1. state' \in [Services -> {"none", "stopped", "running", "stopping", "failed", "freed"}]
    BY DEF Finish, ConnInv, ConnVarsOK
  <2>2. calls' \in Seq(Call)
    BY <1>3, CalleeFacts
  <2>3. QED
    BY <1>3, <1>4, <2>1, <2>2 DEF ConnInv, ConnVarsOK
<1>7. CallsInv'
  <2>1. ASSUME NEW i \in DOMAIN calls'
        PROVE  /\ i + 1 \in DOMAIN calls /\ calls'[i] = calls[i + 1]
               /\ calls'[i].kind \in Kinds /\ calls'[i].kind # k
    <3>1. i + 1 \in DOMAIN calls /\ i + 1 # 1 /\ calls'[i] = calls[i + 1] /\ calls[1].kind = k /\ 1 \in DOMAIN calls
      BY <1>a, <1>3, CalleeFacts
    <3>2. calls[i + 1].kind \in Kinds
      BY <3>1, CallKinds DEF ConnInv, ConnVarsOK
    <3>3. QED
      BY <3>1, <3>2 DEF ConnInv, CallsInv
  <2>2. ASSUME NEW i \in DOMAIN calls'
        PROVE  /\ conn'[calls'[i].kind] # NULL /\ Alive(Made(calls[i].kind))'
               /\ request = "TEARDOWN" => calls'[i].kind # "ntp"
               /\ request = "conn_destroy" => calls'[i].destroy
    <3>1. /\ conn[calls'[i].kind] # NULL /\ Alive(Made(calls'[i].kind))
          /\ request = "TEARDOWN" => calls'[i].kind # "ntp"
          /\ request = "conn_destroy" => calls'[i].destroy
      BY <2>1 DEF ConnInv, CallsInv
    <3>2. QED
      BY <1>4, <1>5, <2>1, <3>1
  <2>3. ASSUME NEW i \in DOMAIN calls', NEW j \in DOMAIN calls', calls'[i].kind = calls'[j].kind
        PROVE  i = j
    <3>1. i + 1 = j + 1
      BY <2>1, <2>3 DEF ConnInv, CallsInv
    <3>2. i \in Int /\ j \in Int
      BY <1>6 DEF ConnVarsOK
    <3>3. QED
      BY <3>1, <3>2
  <2>4. ASSUME request = "conn_destroy", NEW j \in Kinds, conn'[j] # NULL, Alive(Made(j))'
        PROVE  \E i \in DOMAIN calls' : calls'[i].kind = j
    <3>1. conn' = conn
      BY <1>4, <2>4
    <3>2. j # k
      <4>1. Made(k)' = c
        BY <1>a, <3>1 DEF Callee, Made
      <4>2. QED
        BY <1>1, <1>2, <2>4, <4>1 DEF Alive
    <3>3. PICK i \in DOMAIN calls : calls[i].kind = j
      BY <1>5, <2>4, <3>1, <3>2 DEF ConnInv, CallsInv
    <3>4. i # 1
      BY <1>a, <3>2, <3>3, CalleeFacts
    <3>5. QED
      BY <1>3, <3>3, <3>4, CalleeFacts
  <2>5. phase # "none" /\ request \notin {"none", "SETUP"}
    BY <1>1 DEF ConnInv, CallsInv
  <2>6. ASSUME request = "TEARDOWN", conn'["rtp"] # NULL
        PROVE  state'[Made("rtp")'] \in {"stopped", "failed"} \/ \E i \in DOMAIN calls' : calls'[i].kind = "rtp"
    <3>1. "rtp" \in Kinds
      BY DEF Kinds
    <3>2. CASE k = "rtp"
      <4>1. ~d /\ conn' = conn
        BY <1>4, <2>6, <3>2
      <4>2. Made("rtp")' = c
        BY <1>a, <3>2, <4>1 DEF Callee, Made
      <4>3. QED
        BY <1>2, <4>1, <4>2 DEF Made
    <3>3. CASE k # "rtp" /\ state[Made("rtp")] \in {"stopped", "failed"}
      BY <1>2, <1>4, <1>5, <2>6, <3>1, <3>3 DEF Made
    <3>4. CASE k # "rtp" /\ \E i \in DOMAIN calls : calls[i].kind = "rtp"
      <4>1. PICK i \in DOMAIN calls : calls[i].kind = "rtp"
        BY <3>4
      <4>2. i # 1
        BY <1>a, <3>4, <4>1, CalleeFacts
      <4>3. QED
        BY <1>3, <4>1, <4>2, CalleeFacts
    <3>5. QED
      BY <1>4, <2>6, <3>1, <3>2, <3>3, <3>4 DEF ConnInv, CallsInv
  <2>7. QED
    BY <1>1, <1>3, <2>2, <2>3, <2>4, <2>5, <2>6 DEF CallsInv, Made
<1>8. PointersAreLive'
  <2>1. ASSUME phase # "ending", NEW j \in Kinds, conn'[j] # NULL PROVE Alive(Made(j))'
    <3>1. request = "TEARDOWN"
      BY <1>1, <2>1
    <3>2. CASE j = k
      <4>1. ~d /\ conn' = conn
        BY <1>4, <2>1, <3>1, <3>2
      <4>2. Made(k)' = c
        BY <1>a, <4>1 DEF Callee, Made
      <4>3. QED
        BY <1>2, <3>2, <4>1, <4>2 DEF Alive
    <3>3. CASE j # k
      BY <1>4, <1>5, <2>1, <3>3 DEF ConnInv, ServicesInv, PointersAreLive
    <3>4. QED
      BY <3>2, <3>3
  <2>2. QED
    BY <1>3, <2>1 DEF PointersAreLive
<1>9. ASSUME NEW s \in Services PROVE Accounted(s)'
  <2> DEFINE t == <<"ntp", s[2]>>
  <2>1. s[1] \in Kinds /\ s = <<s[1], s[2]>> /\ c = <<k, setups>> /\ t \in Services
    BY <1>a, ServiceParts, CalleeFacts DEF Services, Kinds
  <2>2. Accounted(s) /\ Accounted(c)
    BY <1>1 DEF ConnInv, ServicesInv
  <2>3. Alive(t) => Alive(t)' \/ (phase = "ending" /\ s[2] = setups)
    BY <1>1, <1>2, <2>1 DEF Alive
  <2>4. CASE s # c
    <3>1. state[s] # "stopping"
      BY <1>a, <2>2, <2>4 DEF Accounted
    <3>2. Alive(s) => conn'[s[1]] = s[2] \/ s[2] \in superseded
      <4>1. conn[s[1]] = s[2] => s[1] # k
        BY <1>1, <2>1, <2>4
      <4>2. QED
        BY <1>4, <2>1, <2>2, <4>1 DEF Accounted
    <3>3. QED
      BY <1>2, <1>3, <2>2, <2>3, <2>4, <3>1, <3>2 DEF Accounted, Alive
  <2>5. CASE s = c
    <3>1. active[c] => c \in self_exit
      BY <1>a, <2>2 DEF Accounted, Stopping
    <3>2. ~d => conn'[k] = setups /\ Alive(c) /\ Alive(c)'
      BY <1>1, <1>2, <1>4 DEF Alive
    <3>3. state[c] # "none"
      BY <1>1 DEF Alive
    <3>4. QED
      BY <1>1, <1>2, <1>3, <2>2, <2>3, <2>5, <3>1, <3>2, <3>3 DEF Accounted, Alive
  <2>6. QED
    BY <2>4, <2>5
<1>10. superseded' \subseteq 1 .. setups' - 1 /\ \A j \in Kinds : conn'[j] \in {NULL, setups'}
  BY <1>1, <1>3, <1>4 DEF ConnInv, ServicesInv
<1>11. QED
  BY <1>6, <1>7, <1>8, <1>9, <1>10 DEF ConnInv, ServicesInv

LEMMA AskToStopKeeps == ASSUME ConnInv, AskToStop PROVE ConnInv'
<1>a. PICK c \in Services : c = Callee /\ Alive(c) /\ c[2] = setups
  BY CalleeFacts DEF AskToStop
<1>1. /\ calls # <<>> /\ state[c] = "running" /\ state'[c] = "stopping"
      /\ \A s \in Services : s # c => state'[s] = state[s]
      /\ UNCHANGED <<phase, conn, active, self_exit, setups, request, calls, disconnect, superseded>>
  BY <1>a DEF AskToStop, callvars, ConnInv, ConnVarsOK
<1>2. \A s \in Services : Alive(s)' <=> Alive(s)
  BY <1>1 DEF Alive
<1>3. \A k \in Kinds : conn[k] # NULL => Made(k) \in Services
  BY DEF ConnInv, ConnVarsOK, Made, Services
<1>4. ConnVarsOK'
  BY <1>1 DEF AskToStop, ConnInv, ConnVarsOK
<1>5. CallsInv'
  <2>1. \A i \in DOMAIN calls : calls[i].kind \in Kinds
    BY CallKinds DEF ConnInv, ConnVarsOK
  <2>2. \A k \in Kinds : conn[k] # NULL => (Alive(Made(k))' <=> Alive(Made(k)))
    BY <1>1, <1>2, <1>3 DEF Made
  <2>3. ASSUME request = "TEARDOWN", conn["rtp"] # NULL
        PROVE  state'[Made("rtp")] \in {"stopped", "failed"} \/ \E i \in DOMAIN calls : calls[i].kind = "rtp"
    <3>1. Made("rtp") \in Services
      BY <1>3, <2>3 DEF Kinds
    <3>2. CASE Made("rtp") = c
      BY <1>a, <1>1, <3>2, CalleeFacts DEF Made
    <3>3. CASE Made("rtp") # c
      BY <1>1, <2>3, <3>1, <3>3 DEF ConnInv, CallsInv
    <3>4. QED
      BY <3>2, <3>3
  <2>4. QED
    BY <1>1, <2>1, <2>2, <2>3 DEF ConnInv, CallsInv, Made
<1>6. PointersAreLive'
  BY <1>1, <1>2, <1>3 DEF ConnInv, ServicesInv, PointersAreLive, Made
<1>7. ASSUME NEW s \in Services PROVE Accounted(s)'
  <2>1. <<"ntp", s[2]>> \in Services /\ Accounted(s)
    BY ServiceParts DEF Services, Kinds, ConnInv, ServicesInv
  <2>2. Callee' = c
    BY <1>a, <1>1 DEF Callee, Made
  <2>3. state[s] # "stopping" \/ s = c
    BY <1>a, <2>1 DEF Accounted
  <2>4. QED
    BY <1>a, <1>1, <1>2, <2>1, <2>2, <2>3 DEF Accounted
<1>8. QED
  BY <1>1, <1>4, <1>5, <1>6, <1>7 DEF ConnInv, ServicesInv

(* The connection's end is complete: nothing it pointed to is alive.       *)
LEMMA ReturnKeeps == ASSUME ConnInv, Return PROVE ConnInv'
<1> USE DEF servicevars
<1>1. CASE request # "conn_destroy"
  <2>1. request \in {"SETUP", "TEARDOWN"} /\ disconnect' \in BOOLEAN
    BY <1>1, Zenon DEF Return, ConnInv, ConnVarsOK
  <2>2. QED
    BY <1>1, <2>1, FrameKeeps DEF Return
<1>2. CASE request = "conn_destroy"
  <2>1. /\ phase = "ending" /\ calls = <<>> /\ phase' = "none" /\ conn' = NoService /\ request' = "none"
        /\ UNCHANGED <<state, active, self_exit, setups, calls, disconnect, superseded>>
    BY <1>2 DEF Return, ConnInv, CallsInv
  <2>2. \A k \in Kinds : conn[k] # NULL => ~Alive(Made(k))
    BY <1>2, <2>1 DEF ConnInv, CallsInv
  <2>3. ConnVarsOK'
    BY <2>1 DEF ConnInv, ConnVarsOK, NoService
  <2>4. CallsInv'
    BY <2>1 DEF CallsInv
  <2>5. PointersAreLive' /\ \A k \in Kinds : conn'[k] = NULL
    BY <2>1 DEF PointersAreLive, NoService
  <2>6. ASSUME NEW s \in Services PROVE Accounted(s)'
    <3>1. Accounted(s) /\ s[1] \in Kinds /\ s[2] \in Setups /\ s = <<s[1], s[2]>>
      BY ServiceParts DEF ConnInv, ServicesInv
    <3>2. s[2] # NULL
      BY <3>1, ConnAssumption DEF Setups, NULL
    <3>3. Alive(s) => s[2] \in superseded
      BY <2>2, <3>1, <3>2 DEF Accounted, Made
    <3>4. s[2] \in superseded => s[2] # setups
      BY ConnAssumption DEF ConnInv, ServicesInv, ConnVarsOK
    <3>5. QED
      BY <2>1, <3>1, <3>3, <3>4 DEF Accounted, Alive
  <2>7. QED
    BY <2>1, <2>3, <2>4, <2>5, <2>6 DEF ConnInv, ServicesInv
<1>3. QED
  BY <1>1, <1>2

LEMMA FailKeeps == ASSUME ConnInv, NEW f \in Services, Fail(f) PROVE ConnInv'
<1>1. /\ state[f] = "running" /\ state'[f] = "failed"
      /\ \A s \in Services : s # f => state'[s] = state[s] /\ active'[s] = active[s]
      /\ self_exit' = self_exit \cup {f}
      /\ UNCHANGED <<phase, conn, setups, request, calls, disconnect, superseded>>
  BY DEF Fail, callvars, ConnInv, ConnVarsOK
<1>2. \A s \in Services : Alive(s)' <=> Alive(s)
  BY <1>1 DEF Alive
<1>3. \A k \in Kinds : conn[k] # NULL => Made(k) \in Services
  BY DEF ConnInv, ConnVarsOK, Made, Services
<1>4. ConnVarsOK'
  <2>1. active' \in [Services -> BOOLEAN]
    BY DEF Fail, ConnInv, ConnVarsOK
  <2>2. state' \in [Services -> {"none", "stopped", "running", "stopping", "failed", "freed"}]
    BY DEF Fail, ConnInv, ConnVarsOK
  <2>3. QED
    BY <1>1, <2>1, <2>2 DEF ConnInv, ConnVarsOK
<1>5. CallsInv'
  <2>1. \A i \in DOMAIN calls : calls[i].kind \in Kinds
    BY CallKinds DEF ConnInv, ConnVarsOK
  <2>2. \A k \in Kinds : conn[k] # NULL => (Alive(Made(k))' <=> Alive(Made(k)))
    BY <1>1, <1>2, <1>3 DEF Made
  <2>3. ASSUME request = "TEARDOWN", conn["rtp"] # NULL
        PROVE  state'[Made("rtp")] \in {"stopped", "failed"} \/ \E i \in DOMAIN calls : calls[i].kind = "rtp"
    <3>1. Made("rtp") \in Services
      BY <1>3, <2>3 DEF Kinds
    <3>2. QED
      BY <1>1, <2>3, <3>1 DEF ConnInv, CallsInv
  <2>4. QED
    BY <1>1, <2>1, <2>2, <2>3 DEF ConnInv, CallsInv, Made
<1>6. PointersAreLive'
  BY <1>1, <1>2, <1>3 DEF ConnInv, ServicesInv, PointersAreLive, Made
<1>7. ASSUME NEW s \in Services PROVE Accounted(s)'
  <2>1. <<"ntp", s[2]>> \in Services /\ Accounted(s) /\ Accounted(f)
    BY ServiceParts DEF Services, Kinds, ConnInv, ServicesInv
  <2>2. Callee' = Callee
    BY <1>1 DEF Callee, Made
  <2>3. QED
    BY <1>1, <1>2, <2>1, <2>2 DEF Accounted
<1>8. QED
  BY <1>1, <1>4, <1>5, <1>6, <1>7 DEF ConnInv, ServicesInv

LEMMA ThreadEndsKeeps == ASSUME ConnInv, NEW e \in Services, ThreadEnds(e) PROVE ConnInv'
<1>1. /\ active' = [active EXCEPT ![e] = FALSE]
      /\ UNCHANGED <<phase, conn, state, self_exit, setups, request, calls, disconnect, superseded>>
  BY DEF ThreadEnds, callvars
<1>2. ConnVarsOK'
  BY <1>1 DEF ConnInv, ConnVarsOK
<1>3. CallsInv' /\ PointersAreLive'
  BY <1>1 DEF ConnInv, CallsInv, ServicesInv, PointersAreLive, Alive, Made
<1>4. ASSUME NEW s \in Services PROVE Accounted(s)'
  <2>1. /\ active'[s] => active[s]
        /\ state[s] = "running" => active'[s] = active[s]
    BY <1>1 DEF ThreadEnds, ConnInv, ConnVarsOK
  <2>2. QED
    BY <1>1, <2>1 DEF ConnInv, ServicesInv, Accounted, Alive, Callee, Made
<1>5. QED
  BY <1>1, <1>2, <1>3, <1>4 DEF ConnInv, ServicesInv

LEMMA ConnInvNext == ConnInv /\ [ConnNext]_vars => ConnInv'
<1> SUFFICES ASSUME ConnInv, [ConnNext]_vars PROVE ConnInv'
  OBVIOUS
<1> USE DEF callvars, servicevars
<1>1. disconnect \in BOOLEAN /\ TRUE \in BOOLEAN
  BY Zenon DEF ConnInv, ConnVarsOK
<1>2. CASE Pair
  BY <1>1, <1>2, FrameKeeps DEF Pair
<1>3. CASE Setup
  BY <1>1, <1>3, FrameKeeps DEF Setup, MayRequest
<1>4. CASE SetupUnknown
  BY <1>1, <1>4, FrameKeeps DEF SetupUnknown
<1>5. CASE UNCHANGED vars
  BY <1>1, <1>5, FrameKeeps DEF vars, connvars
<1>6. CASE Joined
  <2>1. state[Callee] = "stopping" /\ ~active[Callee] /\ calls # <<>> /\ Finish
    BY <1>6 DEF Joined, Stopping
  <2>2. QED
    BY <2>1, FinishKeeps
<1>7. CASE NotRunning
  <2>1. state[Callee] \in {"stopped", "failed"} /\ calls # <<>> /\ Finish /\ ~Stopping
    BY <1>7 DEF NotRunning, Stopping
  <2>2. QED
    BY <2>1, FinishKeeps
<1>8. QED
  BY <1>2, <1>3, <1>4, <1>5, <1>6, <1>7, ConnectKeeps, SetupKeysKeeps, StreamKeeps, TeardownKeeps,
     DisconnectKeeps, AskToStopKeeps, ReturnKeeps, FailKeeps, ThreadEndsKeeps
     DEF ConnNext, Handler

LEMMA ConnInvAlways == ConnSpec => []ConnInv
BY ConnInvInit, ConnInvNext, PTL DEF ConnSpec

(* Every variable of the connection keeps its type.                        *)
THEOREM ConnTypeCorrect == ConnSpec => []ConnTypeOK
<1>1. ConnInv /\ OrderInv => ConnTypeOK
  BY DEF ConnInv, ConnVarsOK, OrderInv, PairingInv, ConnTypeOK
<1>2. QED
  BY <1>1, ConnInvAlways, OrderInvAlways, PTL

(* No handler finds a freed service behind a pointer of the connection.    *)
THEOREM PointersAlwaysLive == ConnSpec => []PointersAreLive
<1>1. ConnInv => PointersAreLive
  BY DEF ConnInv, ServicesInv
<1>2. QED
  BY <1>1, ConnInvAlways, PTL

(* Unless a later SETUP replaced it, no service outlives its connection,   *)
(* and its thread is gone when it is freed.                                *)
THEOREM ServicesNeverLost == ConnSpec => []NoServiceLost
<1>1. ConnInv => NoServiceLost
  <2> SUFFICES ASSUME ConnInv, NEW s \in Services
               PROVE  /\ Alive(s) => conn[s[1]] = s[2] \/ s[2] \in superseded
                      /\ state[s] = "freed" => ~active[s] \/ s \in self_exit
    BY DEF NoServiceLost
  <2>1. QED
    BY DEF ConnInv, ServicesInv, Accounted
<1>2. QED
  BY <1>1, ConnInvAlways, PTL

(* A session's clock outlives it, until the connection ends.               *)
THEOREM ClockAlwaysOutlives == ConnSpec => []ClockOutlivesSessions
<1>1. ConnInv => ClockOutlivesSessions
  <2> SUFFICES ASSUME ConnInv, phase # "ending", NEW s \in Services, state[s] \in {"running", "stopping"}
               PROVE  Alive(<<"ntp", s[2]>>)
    BY DEF ClockOutlivesSessions
  <2>1. QED
    BY DEF ConnInv, ServicesInv, Accounted, Alive
<1>2. QED
  BY <1>1, ConnInvAlways, PTL
(* After a TEARDOWN the audio session is stopped, destroyed or had failed. *)
THEOREM TeardownAlwaysEndsAudio == ConnSpec => TeardownEndsAudio
<1>1. ConnInv /\ [ConnNext]_vars =>
        [request = "TEARDOWN" /\ request' = "none"
           => conn["rtp"] = NULL \/ state[Made("rtp")] \in {"stopped", "failed"}]_vars
  <2> SUFFICES ASSUME ConnInv, ConnNext, request = "TEARDOWN", request' = "none", conn["rtp"] # NULL
               PROVE  state[Made("rtp")] \in {"stopped", "failed"}
    OBVIOUS
  <2>1. calls = <<>>
    <3>1. Return
      BY DEF ConnNext, Connect, Pair, Setup, SetupKeys, SetupUnknown, SetupStream, Teardown,
         Disconnect, MayRequest, Handler, AskToStop, Joined, NotRunning, Finish, Fail, ThreadEnds,
         callvars
    <3>2. QED
      BY <3>1 DEF Return
  <2>2. QED
    BY <2>1 DEF ConnInv, CallsInv
<1>2. QED
  BY <1>1, ConnInvAlways, PTL DEF ConnSpec, TeardownEndsAudio
-----------------------------------------------------------------------------
(* What does not need fairness of the promise that handlers return.        *)

(* The calls a handler has left are at most one of each kind of service.   *)
LEMMA ThreeCallsAtMost == ASSUME ConnInv PROVE Len(calls) \in Nat /\ Len(calls) <= 3
<1>1. calls \in Seq(Call) /\ Len(calls) \in Nat
  BY DEF ConnInv, ConnVarsOK
<1>2. ASSUME Len(calls) >= 4 PROVE FALSE
  <2>1. {1, 2, 3, 4} \subseteq DOMAIN calls
    BY <1>1, <1>2
  <2>2. \A i \in {1, 2, 3, 4} : calls[i].kind \in {"ntp", "rtp", "mirror"}
    BY <1>1, <2>1, CallKinds DEF Kinds
  <2>3. \A i, j \in {1, 2, 3, 4} : calls[i].kind = calls[j].kind => i = j
    BY <2>1 DEF ConnInv, CallsInv
  <2>4. QED
    BY <2>2, <2>3
<1> DEFINE n == Len(calls)
<1>3. n \in Nat /\ ~(n >= 4)
  BY <1>1, <1>2
<1> HIDE DEF n
<1>4. n <= 3
  BY <1>3
<1>5. QED
  BY <1>3, <1>4 DEF n

(* No handler, conn_destroy included, ever calls stop or destroy for a     *)
(* service that was not made or was freed, so that one of AskToStop,       *)
(* Joined and NotRunning is at hand, or a thread that was asked to end.    *)
THEOREM CallsOnlyLiveServices == ConnSpec => []CalleeIsLive
<1>1. ConnInv => CalleeIsLive
  BY CalleeFacts DEF CalleeIsLive
<1>2. QED
  BY <1>1, ConnInvAlways, PTL

(* The steps that a handler has left at most.                              *)
StepsLeft ==
  IF request = "none" THEN 0
  ELSE IF calls # <<>> /\ state[Callee] = "running" THEN 2 * Len(calls) + 1
  ELSE IF calls # <<>> THEN 2 * Len(calls)
  ELSE 1

LEMMA StepsAre == ASSUME ConnInv PROVE StepsLeft \in 0 .. 7
<1> DEFINE n == Len(calls)
<1>1. n \in Nat /\ n <= 3
  BY ThreeCallsAtMost
<1>2. StepsLeft \in {0, 1, 2 * n, 2 * n + 1}
  BY DEF StepsLeft
<1> HIDE DEF n
<1>3. QED
  BY <1>1, <1>2

LEMMA FinishComesCloser ==
  ASSUME ConnInv, calls # <<>>, Finish PROVE StepsLeft' < StepsLeft
<1>1. request # "none" /\ request' = request
  BY CalleeFacts DEF Finish
<1>2. calls' = Tail(calls) /\ calls \in Seq(Call)
  BY DEF Finish, ConnInv, ConnVarsOK
<1>3. Len(calls') = Len(calls) - 1 /\ Len(calls) \in Nat /\ Len(calls) >= 1
  BY <1>2
<1>4. StepsLeft >= 2 * Len(calls)
  BY <1>1, <1>3 DEF StepsLeft
<1>5. calls' # <<>> => StepsLeft' <= 2 * Len(calls') + 1
  BY <1>1, <1>3 DEF StepsLeft
<1>6. calls' = <<>> => StepsLeft' = 1
  BY <1>1 DEF StepsLeft
<1>7. StepsLeft \in Int /\ StepsLeft' \in Int
  BY <1>1, <1>3 DEF StepsLeft
<1>8. QED
  BY <1>3, <1>4, <1>5, <1>6, <1>7

(* What the services' threads and SETUP's streams do takes no handler      *)
(* further from its end.                                                   *)
LEMMA OthersKeepDistance ==
  ASSUME ConnInv, request # "none", UNCHANGED callvars, UNCHANGED conn,
         calls # <<>> => (state'[Callee] = "running" => state[Callee] = "running")
  PROVE  StepsLeft' <= StepsLeft
<1>1. Len(calls) \in Nat
  BY ThreeCallsAtMost
<1>2. UNCHANGED <<request, calls>> /\ Callee' = IF calls = <<>> THEN Callee' ELSE Callee
  BY DEF callvars, Callee, Made
<1>3. CASE calls = <<>>
  BY <1>2, <1>3 DEF StepsLeft
<1>4. CASE calls # <<>>
  <2>1. Callee' = Callee
    BY <1>2, <1>4
  <2>2. state[Callee]' = state'[Callee]
    BY <2>1
  <2>3. QED
    BY <1>1, <1>2, <1>4, <2>2 DEF StepsLeft
<1>5. QED
  BY <1>3, <1>4

LEMMA StepsComeCloser ==
  ASSUME ConnInv, [ConnNext]_vars, request # "none"
  PROVE  StepsLeft' <= StepsLeft /\ (Handler => StepsLeft' < StepsLeft)
<1> USE DEF callvars, servicevars
<1>1. StepsLeft \in Int /\ StepsLeft' \in Int
  <2>1. ConnInv'
    BY ConnInvNext
  <2>2. StepsLeft \in 0 .. 7 /\ (StepsLeft \in 0 .. 7)'
    BY <2>1, StepsAre, PTL
  <2>3. QED
    BY <2>2
<1>2. ASSUME AskToStop PROVE StepsLeft' < StepsLeft
  <2>1. /\ calls # <<>> /\ state[Callee] = "running" /\ UNCHANGED <<calls, request, conn>>
        /\ state' = [state EXCEPT ![Callee] = "stopping"]
    BY <1>2 DEF AskToStop
  <2>2. Callee \in Services /\ state'[Callee] = "stopping" /\ Callee' = Callee
    BY <2>1, CalleeFacts DEF ConnInv, ConnVarsOK, Callee, Made
  <2>3. Len(calls) \in Nat /\ state[Callee]' = "stopping"
    BY <2>2, ThreeCallsAtMost
  <2>4. QED
    BY <2>1, <2>3 DEF StepsLeft
<1>3. ASSUME Joined \/ NotRunning PROVE StepsLeft' < StepsLeft
  BY <1>3, FinishComesCloser DEF Joined, NotRunning
<1>4. ASSUME Return PROVE StepsLeft' < StepsLeft
  BY <1>4 DEF Return, StepsLeft
<1>5. ASSUME Handler PROVE StepsLeft' < StepsLeft
  BY <1>2, <1>3, <1>4, <1>5 DEF Handler
<1>6. ASSUME ~Handler PROVE StepsLeft' <= StepsLeft
  <2>1. CASE \E s \in Services : Fail(s)
    <3>1. PICK s \in Services : Fail(s)
      BY <2>1
    <3>2. UNCHANGED <<callvars, conn>> /\ state' = [state EXCEPT ![s] = "failed"]
      BY <3>1 DEF Fail
    <3>3. calls # <<>> => (state'[Callee] = "running" => state[Callee] = "running")
      BY <3>2, CalleeFacts DEF ConnInv, ConnVarsOK
    <3>4. QED
      BY <3>2, <3>3, OthersKeepDistance
  <2>2. CASE \E s \in Services : ThreadEnds(s)
    BY <2>2, OthersKeepDistance DEF ThreadEnds
  <2>3. CASE SetupUnknown
    BY <2>3, OthersKeepDistance DEF SetupUnknown
  <2>4. CASE \E kind \in {"rtp", "mirror"} : SetupStream(kind)
    <3>1. request = "SETUP" /\ UNCHANGED <<callvars, conn>>
      BY <2>4 DEF SetupStream
    <3>2. calls = <<>>
      BY <3>1 DEF ConnInv, CallsInv
    <3>3. QED
      BY <3>1, <3>2, OthersKeepDistance
  <2>5. CASE UNCHANGED vars
    BY <2>5, OthersKeepDistance DEF vars, connvars
  <2>6. ~(Connect \/ Pair \/ Setup \/ SetupKeys \/ Teardown \/ Disconnect)
    BY DEF Connect, Pair, Setup, SetupKeys, Teardown, Disconnect, MayRequest, ConnInv, CallsInv
  <2>7. QED
    BY <1>6, <2>1, <2>2, <2>3, <2>4, <2>5, <2>6 DEF ConnNext
<1>7. CASE Handler
  BY <1>1, <1>5, <1>7
<1>8. CASE ~Handler
  BY <1>6, <1>8
<1>9. QED
  BY <1>7, <1>8

(* Seven steps of its own bring every handler, conn_destroy included, to   *)
(* its end, and nothing the services' threads or the client do meanwhile   *)
(* takes it further away: it can only wait for a thread.                   *)
THEOREM HandlersComeToAnEnd ==
  ConnSpec =>
    /\ [](StepsLeft \in 0 .. 7)
    /\ [][request # "none" => StepsLeft' <= StepsLeft /\ (Handler => StepsLeft' < StepsLeft)]_vars
<1>1. ConnInv => StepsLeft \in 0 .. 7
  BY StepsAre
<1>2. ConnInv /\ [ConnNext]_vars =>
        [request # "none" => StepsLeft' <= StepsLeft /\ (Handler => StepsLeft' < StepsLeft)]_vars
  BY StepsComeCloser
<1>3. QED
  BY <1>1, <1>2, ConnInvAlways, PTL DEF ConnSpec
=============================================================================
