------------------------------ MODULE RaopNtp ------------------------------
(***************************************************************************)
(* The clock synchronisation service, lib/raop_ntp.cpp: a thread that asks *)
(* the client for its time every three seconds over UDP and keeps the      *)
(* offset between the two clocks, and the start, stop and destroy of that  *)
(* thread by its caller, the HTTP server's thread.  The network may delay, *)
(* lose, duplicate and reorder responses.  What the clocks show is left    *)
(* open: any time in Times, here as there (see LocalClock).                *)
(***************************************************************************)
EXTENDS NtpClock, Sequences, FiniteSets

CONSTANTS
  RAOP_NTP_DATA_COUNT,  \* samples kept, 8
  RAOP_NTP_MAX_DISP,    \* the delay of a sample that was never taken
  Times,                \* what the local and the remote clock may show
  SocketBuffer          \* bound: responses that wait in the socket

ASSUME NtpAssumption ==
  /\ RAOP_NTP_DATA_COUNT \in Nat \ {0}
  /\ RAOP_NTP_MAX_DISP \in Nat
  /\ Times \subseteq 0 .. Width - 1
  /\ SocketBuffer \in Nat

VARIABLES
  running, joined,     \* guarded by run_mutex
  tsock,               \* the socket is open; closed is -1
  data, data_index,    \* the ring of samples
  sync_offset, sync_delay, \* guarded by sync_params_mutex
  at,                  \* where the thread is; "gone": not created, or returned
  woken,               \* wait_cond was signalled while the thread waits on it
  caller, destroying,  \* where the caller is in raop_ntp_stop or _destroy
  asked,               \* environment: times sent whose echo may yet arrive
  queue,               \* environment: the echoed times in the socket's buffer
  recent               \* history: the last samples, newest first

syncvars == <<data, data_index, sync_offset, sync_delay, recent>>
callervars == <<caller, destroying>>
netvars == <<asked, queue>>
ntpvars == <<running, joined, tsock, syncvars, at, woken, callervars, netvars>>

Indices == 0 .. RAOP_NTP_DATA_COUNT - 1
NoSample == [offset |-> 0, delay |-> RAOP_NTP_MAX_DISP]

(* raop_ntp_init *)
NtpInit ==
  /\ running = FALSE /\ joined = TRUE /\ tsock = FALSE
  /\ data = [k \in Indices |-> NoSample] /\ data_index = 0
  /\ sync_offset = 0 /\ sync_delay = 0
  /\ at = "gone" /\ woken = FALSE
  /\ caller = "idle" /\ destroying = FALSE
  /\ asked = {} /\ queue = <<>>
  /\ recent = <<>>
-----------------------------------------------------------------------------
(* The caller.                                                             *)

(* raop_ntp_start; nothing happens when it runs, was not joined or the     *)
(* socket cannot be opened.  A new socket starts with an empty buffer.     *)
StartTime ==
  /\ caller = "idle"
  /\ \/ /\ ~running /\ joined
        /\ running' = TRUE /\ joined' = FALSE /\ tsock' = TRUE
        /\ at' = "check" /\ woken' = FALSE
        /\ asked' = {} /\ queue' = <<>>
     \/ UNCHANGED <<running, joined, tsock, at, woken, netvars>>
  /\ UNCHANGED <<syncvars, callervars>>

StopBegin(destroy) ==
  /\ caller = "idle"
  /\ destroying' = destroy
  /\ IF ~running \/ joined
       THEN /\ caller' = IF destroy THEN "free" ELSE "idle"
            /\ UNCHANGED running
       ELSE caller' = "signalling" /\ running' = FALSE
  /\ UNCHANGED <<joined, tsock, syncvars, at, woken, netvars>>

(* The signal reaches the thread only if it waits already.                 *)
StopSignal ==
  /\ caller = "signalling" /\ caller' = "closing"
  /\ woken' = (at = "wait")
  /\ UNCHANGED <<running, joined, tsock, syncvars, at, destroying, netvars>>

(* The socket is closed under the thread, to end its recvfrom.             *)
StopClose ==
  /\ caller = "closing" /\ caller' = "joining"
  /\ tsock' = FALSE /\ queue' = <<>>
  /\ UNCHANGED <<running, joined, syncvars, at, woken, destroying, asked>>

StopJoin ==
  /\ caller = "joining" /\ at = "gone"
  /\ caller' = "marking"
  /\ UNCHANGED <<running, joined, tsock, syncvars, at, woken, destroying, netvars>>

StopMark ==
  /\ caller = "marking"
  /\ joined' = TRUE
  /\ caller' = IF destroying THEN "free" ELSE "idle"
  /\ UNCHANGED <<running, tsock, syncvars, at, woken, destroying, netvars>>

(* The rest of raop_ntp_destroy; then the next session's raop_ntp_init.    *)
Free ==
  /\ caller = "free"
  /\ running' = FALSE /\ joined' = TRUE /\ tsock' = FALSE
  /\ data' = [k \in Indices |-> NoSample] /\ data_index' = 0
  /\ sync_offset' = 0 /\ sync_delay' = 0
  /\ at' = "gone" /\ woken' = FALSE
  /\ caller' = "idle" /\ destroying' = FALSE
  /\ asked' = {} /\ queue' = <<>>
  /\ recent' = <<>>

Caller ==
  \/ StartTime \/ StopSignal \/ StopClose \/ StopJoin \/ StopMark \/ Free
  \/ \E destroy \in BOOLEAN : StopBegin(destroy)
-----------------------------------------------------------------------------
(* The thread.                                                             *)

CheckRunning ==
  /\ at = "check"
  /\ at' = IF running THEN "send" ELSE "clear"
  /\ UNCHANGED <<running, joined, tsock, syncvars, woken, callervars, netvars>>

(* raop_ntp_flush_socket, whose body is commented out.                     *)
FlushedQueue == queue

(* The request carries the local time t as an ntp timestamp.               *)
SendAt(t) ==
  /\ at = "send" /\ tsock
  /\ asked' = asked \cup {PutTimestamp(t)}
  /\ queue' = FlushedQueue
  /\ at' = "receive"
  /\ UNCHANGED <<running, joined, tsock, syncvars, woken, callervars>>

SendRequest == \E t \in Times : SendAt(t)

SendFails ==
  /\ at = "send"
  /\ at' = "wait"
  /\ UNCHANGED <<running, joined, tsock, syncvars, woken, callervars, netvars>>

IsBest_OfReversed(ring, j) ==                 \* mutation: the comparison is turned around
  \A k \in Indices : ring[j].delay >= ring[k].delay
(* qsort by delay: samples that may come first and last.                   *)
IsBest(ring, j) == \A k \in Indices : ring[j].delay <= ring[k].delay
IsWorst(ring, j) == \A k \in Indices : ring[j].delay >= ring[k].delay

NextIndex_NoWrap == data_index + 1            \* mutation: the ring does not wrap
NextIndex == (data_index + 1) % RAOP_NTP_DATA_COUNT

Newest(samples) == SubSeq(samples, 1, IF Len(samples) < RAOP_NTP_DATA_COUNT
                                        THEN Len(samples) ELSE RAOP_NTP_DATA_COUNT)

(* The response says itself when the request it answers was sent.          *)
OriginTime == GetTimestamp(Head(queue))

(* A response, to this or to an earlier request, is read, timed and put    *)
(* into the ring, and the offset of the sample with the least delay        *)
(* becomes the clocks' offset.                                             *)
ReceiveAt(t1, t2, t3) ==
  /\ at = "receive" /\ tsock /\ queue # <<>>
  /\ queue' = Tail(queue)
  /\ LET sample == [offset |-> Offset(OriginTime, t1, t2, t3),
                    delay |-> Delay(OriginTime, t1, t2, t3)]
     IN  /\ data' = [data EXCEPT ![NextIndex] = sample]
         /\ recent' = Newest(<<sample>> \o recent)
  /\ data_index' = NextIndex
  /\ \E best, worst \in Indices :
       /\ IsBest(data', best) /\ sync_offset' = data'[best].offset
       /\ IsWorst(data', worst) /\ sync_delay' = data'[worst].delay
  /\ at' = "wait"
  /\ UNCHANGED <<running, joined, tsock, woken, callervars, asked>>

ReceiveResponse == \E t1, t2, t3 \in Times : ReceiveAt(t1, t2, t3)

(* recvfrom fails: the socket was closed, or reports an error of the       *)
(* network.  Time alone does not end it: Winsock takes SO_RCVTIMEO for a   *)
(* DWORD of milliseconds, and the first one of the timeval that            *)
(* raop_ntp_init_socket passes is its tv_sec, 0, for "no timeout".         *)
ReceiveFails ==
  /\ at = "receive" /\ at' = "wait"
  /\ UNCHANGED <<running, joined, tsock, syncvars, woken, callervars, netvars>>

Wait_Untimed ==                               \* mutation: pthread_cond_wait
  /\ at = "wait" /\ woken
  /\ at' = "check" /\ woken' = FALSE
  /\ UNCHANGED <<running, joined, tsock, syncvars, callervars, netvars>>
(* pthread_cond_timedwait returns after three seconds or on the signal.    *)
Wait ==
  /\ at = "wait"
  /\ at' = "check" /\ woken' = FALSE
  /\ UNCHANGED <<running, joined, tsock, syncvars, callervars, netvars>>

ClearRunning ==
  /\ at = "clear" /\ at' = "log"
  /\ running' = FALSE
  /\ UNCHANGED <<joined, tsock, syncvars, woken, callervars, netvars>>

LogAndReturn ==
  /\ at = "log" /\ at' = "gone"
  /\ UNCHANGED <<running, joined, tsock, syncvars, woken, callervars, netvars>>

(* The steps that take no time from a clock.                               *)
Untimed == CheckRunning \/ SendFails \/ ReceiveFails \/ Wait \/ ClearRunning \/ LogAndReturn

Thread == SendRequest \/ ReceiveResponse \/ Untimed

(* The client answers any request that reached it, at any time and more    *)
(* than once; what the network or a full socket buffer drops never comes.  *)
Deliver ==
  /\ tsock /\ Len(queue) < SocketBuffer
  /\ \E stamp \in asked : queue' = Append(queue, stamp)
  /\ UNCHANGED <<running, joined, tsock, syncvars, at, woken, callervars, asked>>

NtpNext == Caller \/ Thread \/ Deliver

(* recvfrom waits while the socket is open and nothing came.               *)
Blocked == at = "receive" /\ tsock /\ queue = <<>>

(* The OS schedules the thread, and the caller runs on once it has entered *)
(* raop_ntp_stop; the network need not deliver anything.                   *)
NtpSpec ==
  /\ NtpInit /\ [][NtpNext]_ntpvars
  /\ WF_ntpvars(Thread /\ ~Blocked)
  /\ WF_ntpvars(StopSignal \/ StopClose \/ StopJoin \/ StopMark \/ Free)
-----------------------------------------------------------------------------
Sample == [offset : Int, delay : Int]
Stamp == [seconds : 0 .. Word - 1, fraction : 0 .. Word - 1]

NtpTypeOK ==
  /\ running \in BOOLEAN /\ joined \in BOOLEAN /\ tsock \in BOOLEAN
  /\ data \in [Indices -> Sample] /\ data_index \in Indices
  /\ sync_offset \in Int /\ sync_delay \in Int
  /\ at \in {"gone", "check", "send", "receive", "wait", "clear", "log"}
  /\ woken \in BOOLEAN
  /\ caller \in {"idle", "signalling", "closing", "joining", "marking", "free"}
  /\ destroying \in BOOLEAN
  /\ asked \subseteq Stamp /\ queue \in Seq(Stamp)
  /\ recent \in Seq(Sample) /\ Len(recent) <= RAOP_NTP_DATA_COUNT

(* The offset the other threads convert timestamps with is that of a least *)
(* delayed one of the last RAOP_NTP_DATA_COUNT samples: the ring forgets   *)
(* exactly the oldest, and no older sample lingers in sync_offset.         *)
LastSamples == {recent[k] : k \in DOMAIN recent}
                 \cup {s \in {NoSample} : Len(recent) < RAOP_NTP_DATA_COUNT}
SyncedToBestRecent ==
  \E s \in LastSamples :
    /\ sync_offset = s.offset
    /\ \A other \in LastSamples : s.delay <= other.delay

(* "Flush the socket in case a super delayed response arrived or           *)
(* something" (raop_ntp.cpp:344): no response that came before a request   *)
(* was sent is left to be read as the answer to it.                        *)
SocketIsFlushed == [][at = "send" /\ at' = "receive" => queue' = <<>>]_ntpvars

(* After raop_ntp_stop no thread and no socket is left.                    *)
StopLeavesNothing == joined => at = "gone" /\ ~tsock

(* The service keeps the promises every service of the program makes about *)
(* its thread, raop_ntp_stop's return included, although the signal may    *)
(* come before the thread waits for it.                                    *)
TimeLife ==
  CASE joined -> "stopped"
    [] ~joined /\ running -> "running"
    [] ~joined /\ ~running /\ caller \in {"signalling", "closing", "joining", "marking"}
         -> "stopping"
    [] OTHER -> "failed"

Service == INSTANCE Worker WITH life <- TimeLife, active <- at # "gone"
KeepsTimeAsPromised == Service!Spec

(* The inductive invariants behind the above.  LifeInv: who may be where   *)
(* in the service's life; RingInv: where in the ring each of the last      *)
(* samples is.                                                             *)
IndexOfAge(k) == IF data_index >= k - 1 THEN data_index - (k - 1)
                                       ELSE data_index - (k - 1) + RAOP_NTP_DATA_COUNT
RingInv ==
  /\ \A k \in 1 .. RAOP_NTP_DATA_COUNT :
       data[IndexOfAge(k)] = IF k <= Len(recent) THEN recent[k] ELSE NoSample
  /\ \E best \in Indices : IsBest(data, best) /\ sync_offset = data[best].offset

LifeInv ==
  /\ joined => ~running /\ at = "gone" /\ ~tsock
  /\ running => at \notin {"gone", "clear", "log"}
  /\ caller \in {"signalling", "closing", "joining", "marking"} => ~running /\ ~joined
  /\ caller \in {"idle", "free"} => running \/ joined
  /\ caller = "free" => ~running
  /\ caller \in {"joining", "marking"} => ~tsock
  /\ caller = "marking" => at = "gone"
=============================================================================
