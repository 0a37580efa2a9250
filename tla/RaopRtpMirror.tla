--------------------------- MODULE RaopRtpMirror ---------------------------
(***************************************************************************)
(* One mirroring session, lib/raop_rtp_mirror.cpp, composed with its       *)
(* decryption.  A thread takes one TCP connection after the other from its *)
(* listening socket and cuts what it receives into frames, a header of     *)
(* fixed length and a payload of the length the header names, across       *)
(* partial reads; its caller, the HTTP server's thread, sets the key,      *)
(* starts and destroys the session.  A recv of n bytes is n steps here:    *)
(* the loops around recv look at nothing in between.                       *)
(***************************************************************************)
EXTENDS MirrorBuffer, FiniteSets

CONSTANTS
  HeaderLength,  \* 128
  Sizes,         \* payload lengths the client may send
  Numbers,       \* bound: frames of a connection are numbered modulo this
  NULL           \* the null pointer

ASSUME MirrorAssumption ==
  /\ HeaderLength \in Nat \ {0}
  /\ Sizes \subseteq Nat
  /\ Numbers \in Nat \ {0}
  /\ NULL \notin Seq([number : 0 .. Numbers - 1, place : Nat])

VARIABLES
  running, joined,     \* guarded by run_mutex
  listening,           \* mirror_data_sock is open
  at,                  \* where the thread is; "gone": not created, or returned
  stream,              \* stream_fd is open; closed is -1
  packet, payload,     \* the frame so far; payload is NULL before its header came
  readstart,
  caller,              \* where the caller is in SETUP or raop_rtp_mirror_destroy
  frame, sent,         \* environment: the frame the client sends, its bytes sent
  expected,            \* history: the number of the frame to be processed next
  self_exit            \* history: the thread ended without being asked to

framevars == <<stream, packet, payload, readstart, expected>>
clientvars == <<frame, sent>>
lifevars == <<running, joined, listening, caller, self_exit>>
sessionvars == <<mirrorvars, lifevars, at, framevars, clientvars>>

Types == {"video", "other"}   \* payload_type 0, and the rest
Frame == [number : 0 .. Numbers - 1, type : Types, size : Sizes]

(* A byte of a frame, by its place; Zero is what memset leaves, and stands *)
(* for what malloc leaves.                                                 *)
Zero == [number |-> 0, place |-> 0]
FrameByte(number, place) == [number |-> number, place |-> place]
NoHeader == [k \in 1 .. HeaderLength |-> Zero]

ThreadInit ==
  /\ stream = FALSE /\ packet = NoHeader /\ payload = NULL /\ readstart = 0

(* raop_rtp_mirror_init                                                    *)
MirrorInit ==
  /\ next_block = 0 /\ nextDecryptCount = 0 /\ og_block = 0
  /\ key_used = <<>> /\ decrypted = 0 /\ short = FALSE
  /\ running = FALSE /\ joined = TRUE /\ listening = FALSE
  /\ at = "gone" /\ ThreadInit
  /\ caller = "idle"
  /\ frame \in {f \in Frame : f.number = 0} /\ sent = 0
  /\ expected = 0 /\ self_exit = FALSE
-----------------------------------------------------------------------------
(* The caller.                                                             *)

(* The SETUP of a mirroring stream sets the key and then starts the        *)
(* session, which does nothing when it runs already.                       *)
SetKey ==
  /\ caller = "idle" /\ caller' = "starting"
  /\ InitAes
  /\ UNCHANGED <<running, joined, listening, self_exit, at, framevars, clientvars>>

StartMirror ==
  /\ caller = "starting" /\ caller' = "idle"
  /\ \/ /\ ~running /\ joined
        /\ running' = TRUE /\ joined' = FALSE /\ listening' = TRUE
        /\ at' = "check" /\ self_exit' = FALSE
        /\ stream' = FALSE /\ packet' = NoHeader /\ payload' = NULL /\ readstart' = 0
     \/ UNCHANGED <<running, joined, listening, at, self_exit, stream, packet, payload,
                    readstart>>
  /\ UNCHANGED <<mirrorvars, clientvars, expected>>

(* raop_rtp_mirror_stop, as raop_rtp_mirror_destroy calls it.              *)
StopBegin ==
  /\ caller = "idle"
  /\ IF ~running \/ joined
       THEN caller' = "free" /\ UNCHANGED running
       ELSE caller' = "closing" /\ running' = FALSE
  /\ UNCHANGED <<mirrorvars, joined, listening, self_exit, at, framevars, clientvars>>

StopClose ==
  /\ caller = "closing" /\ caller' = "joining"
  /\ listening' = FALSE
  /\ UNCHANGED <<mirrorvars, running, joined, self_exit, at, framevars, clientvars>>

StopJoin ==
  /\ caller = "joining" /\ at = "gone"
  /\ caller' = "marking"
  /\ UNCHANGED <<mirrorvars, running, joined, listening, self_exit, at, framevars, clientvars>>

StopMark ==
  /\ caller = "marking" /\ caller' = "free"
  /\ joined' = TRUE
  /\ UNCHANGED <<mirrorvars, running, listening, self_exit, at, framevars, clientvars>>

(* The rest of raop_rtp_mirror_destroy; then the next raop_rtp_mirror_init *)
Free ==
  /\ caller = "free" /\ caller' = "idle"
  /\ InitAes
  /\ running' = FALSE /\ joined' = TRUE /\ listening' = FALSE
  /\ at' = "gone" /\ self_exit' = FALSE
  /\ stream' = FALSE /\ packet' = NoHeader /\ payload' = NULL /\ readstart' = 0
  /\ UNCHANGED <<clientvars, expected>>

Caller == SetKey \/ StartMirror \/ StopBegin \/ StopClose \/ StopJoin \/ StopMark \/ Free
-----------------------------------------------------------------------------
(* The thread.                                                             *)

Leave == at' = "close" /\ self_exit' = TRUE

CheckRunning ==
  /\ at = "check"
  /\ at' = IF running THEN "select" ELSE "close"
  /\ UNCHANGED <<mirrorvars, lifevars, framevars, clientvars>>

(* Nothing within 5 ms.                                                    *)
Timeout ==
  /\ at = "select" /\ at' = "check"
  /\ UNCHANGED <<mirrorvars, lifevars, framevars, clientvars>>

(* Among others because raop_rtp_mirror_stop closed the listening socket.  *)
SelectFails ==
  /\ at = "select"
  /\ Leave
  /\ UNCHANGED <<mirrorvars, running, joined, listening, caller, framevars, clientvars>>

(* A client connects; its first frame is number 0.  The rest of the pass   *)
(* does nothing: the new socket is not in rfds.                            *)
Accept_KeepsReadstart ==      \* mutation: readstart is not reset
  /\ at = "select" /\ ~stream /\ listening
  /\ stream' = TRUE
  /\ expected' = 0 /\ frame' \in {f \in Frame : f.number = 0} /\ sent' = 0
  /\ at' = "check"
  /\ UNCHANGED <<mirrorvars, lifevars, packet, payload, readstart>>
Accept ==
  /\ at = "select" /\ ~stream /\ listening
  /\ stream' = TRUE /\ readstart' = 0
  /\ expected' = 0 /\ frame' \in {f \in Frame : f.number = 0} /\ sent' = 0
  /\ at' = "check"
  /\ UNCHANGED <<mirrorvars, lifevars, packet, payload>>

(* accept fails, or the receive timeout cannot be set.                     *)
AcceptFails ==
  /\ at = "select" /\ ~stream /\ listening
  /\ stream' \in BOOLEAN
  /\ Leave
  /\ UNCHANGED <<mirrorvars, running, joined, listening, caller, packet, payload, readstart,
                 expected, clientvars>>

(* The stream is readable: the header is read, or still to be completed,   *)
(* or the payload of the header that an earlier pass read.                 *)
StreamReady ==
  /\ at = "select" /\ stream
  /\ at' = IF payload = NULL THEN "header" ELSE "payload"
  /\ UNCHANGED <<mirrorvars, lifevars, framevars, clientvars>>

(* The next byte the client sends; its next frame begins when it has sent  *)
(* the one before.                                                         *)
Send ==
  IF sent < HeaderLength + frame.size
    THEN sent' = sent + 1 /\ UNCHANGED frame
    ELSE /\ frame' \in {f \in Frame : f.number = (frame.number + 1) % Numbers}
         /\ sent' = 1

HeaderByte ==
  /\ at = "header" /\ readstart < HeaderLength
  /\ Send
  /\ packet' = [packet EXCEPT ![readstart + 1] = FrameByte(frame'.number, sent')]
  /\ readstart' = readstart + 1
  /\ UNCHANGED <<mirrorvars, lifevars, at, stream, payload, expected>>

(* The client closed, perhaps in the middle of a header: the next one may  *)
(* connect.  The old socket is not closed.                                 *)
HeaderClosed ==
  /\ at = "header" /\ readstart < HeaderLength
  /\ stream' = FALSE /\ at' = "check"
  /\ UNCHANGED <<mirrorvars, lifevars, packet, payload, readstart, expected, clientvars>>

(* recv fails.  The thread goes on when errno, which Winsock does not set, *)
(* happens to be EAGAIN.                                                   *)
RecvFails ==
  /\ \/ at = "header" /\ readstart < HeaderLength
     \/ at = "payload" /\ readstart < Len(payload)
  /\ \/ at' = "check" /\ UNCHANGED self_exit
     \/ Leave
  /\ UNCHANGED <<mirrorvars, running, joined, listening, caller, framevars, clientvars>>

(* What byteutils_get_int and _get_short make of the header: the fields of *)
(* a frame when the header is that frame's, and anything when it is not.   *)
IsHeaderOf(f) == \A k \in 1 .. HeaderLength : packet[k] = FrameByte(f.number, k)
Fields == IF IsHeaderOf(frame) THEN {frame} ELSE Frame

HeaderComplete ==
  /\ at = "header" /\ readstart = HeaderLength
  /\ \E f \in Fields : payload' = [k \in 1 .. f.size |-> Zero]
  /\ readstart' = 0
  /\ at' = "payload"
  /\ UNCHANGED <<mirrorvars, lifevars, stream, packet, expected, clientvars>>

PayloadByte ==
  /\ at = "payload" /\ readstart < Len(payload)
  /\ Send
  /\ payload' = [payload EXCEPT ![readstart + 1] = FrameByte(frame'.number, sent')]
  /\ readstart' = readstart + 1
  /\ UNCHANGED <<mirrorvars, lifevars, at, stream, packet, expected>>

PayloadClosed ==
  /\ at = "payload" /\ readstart < Len(payload)
  /\ Leave
  /\ UNCHANGED <<mirrorvars, running, joined, listening, caller, framevars, clientvars>>

PayloadComplete ==
  /\ at = "payload" /\ readstart = Len(payload)
  /\ at' = "process"
  /\ UNCHANGED <<mirrorvars, lifevars, framevars, clientvars>>

(* A complete frame: a video frame is decrypted and shown, the rest shown  *)
(* as it is or ignored; then everything is reset for the next one.         *)
Process ==
  /\ at = "process" /\ at' = "check"
  /\ \E f \in Fields : IF f.type = "video" THEN Decrypt(Len(payload)) ELSE UNCHANGED mirrorvars
  /\ payload' = NULL /\ packet' = NoHeader /\ readstart' = 0
  /\ expected' = (expected + 1) % Numbers
  /\ UNCHANGED <<lifevars, stream, clientvars>>

CloseStream ==
  /\ at = "close" /\ at' = "clear"
  /\ stream' = FALSE
  /\ UNCHANGED <<mirrorvars, lifevars, packet, payload, readstart, expected, clientvars>>

ClearRunning_Forgotten ==     \* mutation: the flag does not reflect the actual state
  /\ at = "clear" /\ at' = "log"
  /\ UNCHANGED <<mirrorvars, lifevars, framevars, clientvars>>
ClearRunning ==
  /\ at = "clear" /\ at' = "log"
  /\ running' = FALSE
  /\ UNCHANGED <<mirrorvars, joined, listening, caller, self_exit, framevars, clientvars>>

LogAndReturn ==
  /\ at = "log" /\ at' = "gone"
  /\ UNCHANGED <<mirrorvars, lifevars, framevars, clientvars>>

(* What the thread does by itself, and what takes a client to happen: recv *)
(* waits for it without end, because Winsock reads the timeval given as    *)
(* SO_RCVTIMEO as a number of milliseconds, its tv_sec of 0: "no timeout". *)
OwnStep ==
  \/ CheckRunning \/ Timeout \/ SelectFails \/ HeaderComplete \/ PayloadComplete
  \/ Process \/ CloseStream \/ ClearRunning \/ LogAndReturn
ClientStep ==
  \/ Accept \/ AcceptFails \/ StreamReady \/ HeaderByte \/ HeaderClosed \/ RecvFails
  \/ PayloadByte \/ PayloadClosed

MirrorNext == Caller \/ OwnStep \/ ClientStep

(* The OS schedules the thread, and the caller runs on once it has begun   *)
(* to start or to destroy the session; clients need not do anything.       *)
MirrorSpec ==
  /\ MirrorInit /\ [][MirrorNext]_sessionvars
  /\ WF_sessionvars(OwnStep)
  /\ WF_sessionvars(StartMirror \/ StopClose \/ StopJoin \/ StopMark \/ Free)
-----------------------------------------------------------------------------
Byte == [number : 0 .. Numbers - 1, place : Nat]

MirrorTypeOK ==
  /\ MirrorBufferTypeOK
  /\ running \in BOOLEAN /\ joined \in BOOLEAN /\ listening \in BOOLEAN
  /\ at \in {"gone", "check", "select", "header", "payload", "process", "close", "clear", "log"}
  /\ stream \in BOOLEAN
  /\ packet \in [1 .. HeaderLength -> Byte]
  /\ payload = NULL \/ payload \in Seq(Byte)
  /\ readstart \in Nat
  /\ caller \in {"idle", "starting", "closing", "joining", "marking", "free"}
  /\ frame \in Frame /\ sent \in Nat
  /\ expected \in 0 .. Numbers - 1 /\ self_exit \in BOOLEAN

(* Whatever pieces the stream arrives in, and wherever earlier connections *)
(* broke off, what the thread processes is a whole frame, header and       *)
(* payload, and the next one the client of this connection sent.           *)
WholeFramesInOrder ==
  at = "process" =>
    /\ frame.number = expected /\ IsHeaderOf(frame)
    /\ payload = [k \in 1 .. frame.size |-> FrameByte(frame.number, HeaderLength + k)]

(* The inductive invariant behind it: between connections nothing is left  *)
(* of a frame, and within one what was read is the start of the frame the  *)
(* client is sending, wherever the reads were cut.                         *)
AtBoundary ==
  \/ sent = 0 /\ frame.number = expected
  \/ sent = HeaderLength + frame.size /\ (frame.number + 1) % Numbers = expected

ReadingHeader ==
  /\ readstart <= HeaderLength
  /\ IF readstart = 0 THEN AtBoundary
     ELSE /\ frame.number = expected /\ sent = readstart
          /\ \A k \in 1 .. readstart : packet[k] = FrameByte(frame.number, k)

ReadingPayload ==
  /\ IsHeaderOf(frame) /\ frame.number = expected
  /\ Len(payload) = frame.size /\ readstart <= frame.size
  /\ sent = HeaderLength + readstart
  /\ \A k \in 1 .. readstart : payload[k] = FrameByte(frame.number, HeaderLength + k)

FrameInv ==
  /\ at \in {"header", "payload", "process"} => stream
  /\ at = "header" => payload = NULL
  /\ at \in {"payload", "process"} => payload # NULL
  /\ at = "process" => readstart = Len(payload)
  /\ at \in {"check", "select"} /\ ~stream => payload = NULL
  /\ at \in {"check", "select", "header", "payload", "process"} /\ stream =>
       IF payload = NULL THEN ReadingHeader ELSE ReadingPayload

(* A session is freed with its thread gone and its listening socket        *)
(* closed, as long as the thread did not end by itself (then               *)
(* raop_rtp_mirror_stop returns at once and neither joins nor closes).     *)
FreedAfterThread == caller = "free" /\ ~self_exit => at = "gone" /\ ~listening

(* The session keeps the safety part of what every service of the program  *)
(* promises about its thread.                                              *)
MirrorLife ==
  CASE joined -> "stopped"
    [] ~joined /\ running -> "running"
    [] ~joined /\ ~running /\ caller \in {"closing", "joining", "marking"} -> "stopping"
    [] OTHER -> "failed"

Service == INSTANCE Worker WITH life <- MirrorLife, active <- at # "gone"
MirrorsAsPromised == Service!Safe

(* The inductive invariant behind the last two: who may still be using the *)
(* session at each point of its life.                                      *)
MirrorLifeInv ==
  /\ joined => ~running /\ at = "gone" /\ ~listening
  /\ at \in {"gone", "log"} => ~running
  /\ at \in {"close", "clear"} /\ running => self_exit
  /\ caller \in {"closing", "joining", "marking"} => ~running /\ ~joined
  /\ caller \in {"joining", "marking"} => ~listening
  /\ caller = "marking" => at = "gone"
  /\ caller \in {"idle", "starting", "free"} /\ ~running => joined \/ self_exit
  /\ caller = "free" => ~running

(* "We're calling recv for a certain amount of data, so we need a timeout" *)
(* (raop_rtp_mirror.cpp:220): a session that is destroyed does not wait    *)
(* for its client.                                                         *)
StopReturns == caller # "idle" ~> caller = "idle"
=============================================================================
