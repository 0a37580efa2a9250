------------------------------ MODULE RaopRtp ------------------------------
(***************************************************************************)
(* One audio session, lib/raop_rtp.cpp, composed with its jitter buffer.   *)
(* Two actors share it: the caller, which is the one thread of the HTTP    *)
(* server (it runs every RTSP handler, so the interface functions never    *)
(* overlap), and the RTP thread that raop_rtp_start_audio creates.  They   *)
(* meet in the variables guarded by run_mutex: running, joined and the     *)
(* mailbox of requests the thread picks up once per loop.  A critical      *)
(* section is one step.                                                    *)
(***************************************************************************)
EXTENDS RaopBuffer

CONSTANTS
  control_rport,  \* the client's control port; 0 switches resends off
  Volumes,        \* what raop_rtp_set_volume may be given
  FlushSeqs,      \* what raop_rtp_flush may be given
  Notices,        \* metadata, cover art, DACP ids, progress
  NO_FLUSH,       \* the mailbox value "no flush requested", -42
  NoVolume        \* the volume raop_rtp_init leaves

ASSUME SessionAssumption ==
  /\ control_rport \in Nat
  /\ FlushSeqs \subseteq Seqnums \cup {-1}
  /\ NO_FLUSH \in Int /\ NO_FLUSH < -1

VARIABLES
  running, joined,
  volume, volume_changed, flush, posted,  \* the mailbox
  thread,     \* where the RTP thread is; "gone": not created, or returned
  local,      \* the thread's copy of the mailbox
  data_ready, \* FD_ISSET(dsock) of the last select
  caller,     \* where the caller is in raop_rtp_stop or raop_rtp_destroy
  destroying, \* the stop was called by raop_rtp_destroy
  sockets,    \* csock and dsock are open
  set_volume, \* the volume the renderer was last given
  self_exit   \* history: the thread ended without being asked to

mailbox == <<volume, volume_changed, flush, posted>>
threadvars == <<thread, local, data_ready>>
callervars == <<caller, destroying>>
history == <<set_volume, self_exit>>
rtpvars == <<bufvars, running, joined, mailbox, threadvars, callervars, sockets, history>>

no_resend == control_rport = 0

Nothing == [volume_changed |-> FALSE, volume |-> NoVolume, flush |-> NO_FLUSH, notices |-> {}]

(* raop_rtp_init *)
SessionInit ==
  /\ BufInit
  /\ running = FALSE /\ joined = TRUE
  /\ volume = NoVolume /\ volume_changed = FALSE /\ flush = NO_FLUSH /\ posted = {}
  /\ thread = "gone" /\ local = Nothing /\ data_ready = FALSE
  /\ caller = "idle" /\ destroying = FALSE
  /\ sockets = FALSE
  /\ set_volume = NoVolume /\ self_exit = FALSE
-----------------------------------------------------------------------------
(* The caller's side.                                                      *)

MayStart_IgnoringJoined == ~running   \* mutation: joined is not looked at
MayStart == ~running /\ joined

(* raop_rtp_start_audio; it returns with nothing done when the session     *)
(* runs, was not joined, or a socket cannot be opened.                     *)
StartAudio ==
  /\ caller = "idle"
  /\ \/ /\ MayStart
        /\ running' = TRUE /\ joined' = FALSE
        /\ sockets' = TRUE
        /\ thread' = "events"
        /\ local' = Nothing /\ data_ready' = FALSE
        /\ self_exit' = FALSE
     \/ UNCHANGED <<running, joined, sockets, threadvars, self_exit>>
  /\ UNCHANGED <<bufvars, mailbox, callervars, set_volume>>

SetVolume(v) ==
  /\ caller = "idle"
  /\ volume' = v /\ volume_changed' = TRUE
  /\ UNCHANGED <<bufvars, running, joined, flush, posted, threadvars, callervars, sockets, history>>

Flush(next_seq) ==
  /\ caller = "idle"
  /\ flush' = next_seq
  /\ UNCHANGED <<bufvars, running, joined, volume, volume_changed, posted, threadvars,
                 callervars, sockets, history>>

(* raop_rtp_set_metadata, _set_coverart, _remote_control_id, _set_progress *)
Post(n) ==
  /\ caller = "idle"
  /\ posted' = posted \cup {n}
  /\ UNCHANGED <<bufvars, running, joined, volume, volume_changed, flush, threadvars,
                 callervars, sockets, history>>

(* raop_rtp_stop up to the join, also as the start of raop_rtp_destroy.    *)
StopBegin(destroy) ==
  /\ caller = "idle"
  /\ destroying' = destroy
  /\ IF ~running \/ joined
       THEN /\ caller' = IF destroy THEN "free" ELSE "idle"
            /\ UNCHANGED running
       ELSE caller' = "joining" /\ running' = FALSE
  /\ UNCHANGED <<bufvars, joined, mailbox, threadvars, sockets, history>>

StopJoin_NotWaiting ==                \* mutation: the join does not wait
  /\ caller = "joining" /\ caller' = "closing"
  /\ UNCHANGED <<bufvars, running, joined, mailbox, threadvars, destroying, sockets, history>>
StopJoin ==
  /\ caller = "joining" /\ thread = "gone"
  /\ caller' = "closing"
  /\ UNCHANGED <<bufvars, running, joined, mailbox, threadvars, destroying, sockets, history>>

StopClose ==
  /\ caller = "closing"
  /\ sockets' = FALSE
  /\ FlushBuffer(-1)
  /\ caller' = "marking"
  /\ UNCHANGED <<running, joined, mailbox, threadvars, destroying, history>>

StopMark ==
  /\ caller = "marking"
  /\ joined' = TRUE
  /\ caller' = IF destroying THEN "free" ELSE "idle"
  /\ UNCHANGED <<bufvars, running, mailbox, threadvars, destroying, sockets, history>>

(* The rest of raop_rtp_destroy; then the next session's raop_rtp_init.    *)
(* What a thread that is still there does to the freed session is not      *)
(* followed: NeverFreedUnderThread looks at the state before.              *)
Free ==
  /\ caller = "free"
  /\ Recreate
  /\ running' = FALSE /\ joined' = TRUE
  /\ volume' = NoVolume /\ volume_changed' = FALSE /\ flush' = NO_FLUSH /\ posted' = {}
  /\ thread' = "gone" /\ local' = Nothing /\ data_ready' = FALSE
  /\ caller' = "idle" /\ destroying' = FALSE
  /\ sockets' = FALSE
  /\ set_volume' = NoVolume /\ self_exit' = FALSE

Caller ==
  \/ StartAudio \/ StopJoin \/ StopClose \/ StopMark \/ Free
  \/ \E v \in Volumes : SetVolume(v)
  \/ \E s \in FlushSeqs : Flush(s)
  \/ \E n \in Notices : Post(n)
  \/ \E destroy \in BOOLEAN : StopBegin(destroy)
-----------------------------------------------------------------------------
(* The RTP thread.                                                         *)

(* raop_rtp_process_events, the critical section: the mailbox is copied    *)
(* and emptied, unless the thread is to stop.                              *)
TakeMailbox ==
  /\ thread = "events"
  /\ IF running
       THEN /\ local' = [volume_changed |-> volume_changed, volume |-> volume,
                         flush |-> flush, notices |-> posted]
            /\ volume_changed' = FALSE /\ flush' = NO_FLUSH /\ posted' = {}
            /\ thread' = "callbacks"
            /\ UNCHANGED volume
       ELSE thread' = "exit" /\ UNCHANGED <<local, mailbox>>
  /\ UNCHANGED <<bufvars, running, joined, data_ready, callervars, sockets, history>>

MailboxCallbacks_ClearsFlag ==        \* mutation: the flag is reset too late
  /\ thread = "callbacks"
  /\ IF local.volume_changed
       THEN FlushBuffer(local.flush) /\ set_volume' = local.volume /\ volume_changed' = FALSE
       ELSE UNCHANGED <<bufvars, set_volume, volume_changed>>
  /\ local' = Nothing /\ thread' = "select"
  /\ UNCHANGED <<running, joined, volume, flush, posted, data_ready, callervars, sockets,
                 self_exit>>

(* The rest of it.  The buffer is flushed when the volume changed, with    *)
(* whatever the flush value is, NO_FLUSH included.                         *)
MailboxCallbacks ==
  /\ thread = "callbacks"
  /\ IF local.volume_changed
       THEN FlushBuffer(local.flush) /\ set_volume' = local.volume
       ELSE UNCHANGED <<bufvars, set_volume>>
  /\ local' = Nothing
  /\ thread' = "select"
  /\ UNCHANGED <<running, joined, mailbox, data_ready, callervars, sockets, self_exit>>

Timeout ==
  /\ thread = "select" /\ thread' = "events"
  /\ UNCHANGED <<bufvars, running, joined, mailbox, local, data_ready, callervars, sockets, history>>

SelectFails ==
  /\ thread = "select" /\ thread' = "exit"
  /\ self_exit' = TRUE
  /\ UNCHANGED <<bufvars, running, joined, mailbox, local, data_ready, callervars, sockets,
                 set_volume>>

SocketsReady ==
  /\ thread = "select"
  /\ \E ready \in SUBSET {"control", "data"} \ {{}} :
       /\ thread' = IF "control" \in ready THEN "control" ELSE "data"
       /\ data_ready' = ("data" \in ready)
  /\ UNCHANGED <<bufvars, running, joined, mailbox, local, callervars, sockets, history>>

(* raop_buffer_enqueue, and the AAC decoder for what it stored.  A decoder *)
(* error (an empty payload, a decoder that refuses the data, or the value  *)
(* FDKAACDecoder::enqueue happens to return when it falls off its end)     *)
(* ends the thread there and then.                                         *)
Receive(seq, then) ==
  \/ Ignore(seq) /\ thread' = then /\ UNCHANGED <<running, self_exit>>
  \/ /\ \E data \in Data : Store(seq, data)
     /\ \/ thread' = then /\ UNCHANGED <<running, self_exit>>
        \/ thread' = "gone" /\ running' = FALSE /\ self_exit' = TRUE

AfterControl_DrainsSocket ==          \* mutation: control packets first
  IF data_ready THEN "data" ELSE "control"
AfterControl == IF data_ready THEN "data" ELSE "events"

(* A resent packet (0x56); the other control packets touch only the clock. *)
ControlPacket ==
  /\ thread = "control"
  /\ \/ \E seq \in Seqnums : Receive(seq, AfterControl)
     \/ thread' = AfterControl /\ UNCHANGED <<bufvars, running, self_exit>>
  /\ UNCHANGED <<joined, mailbox, local, data_ready, callervars, sockets, set_volume>>

(* A packet too short for an RTP header is dropped; one the buffer refuses *)
(* (a wrong length, the no-data marker) still lets the buffer be played.   *)
DataPacket ==
  /\ thread = "data"
  /\ \/ \E seq \in Seqnums : Receive(seq, "play")
     \/ thread' \in {"events", "play"} /\ UNCHANGED <<bufvars, running, self_exit>>
  /\ UNCHANGED <<joined, mailbox, local, data_ready, callervars, sockets, set_volume>>

PlayNext ==
  /\ thread = "play"
  /\ \/ TakeFirst(no_resend) /\ UNCHANGED thread
     \/ /\ SkipFirst(no_resend) \/ DequeueNothing(no_resend)
        /\ thread' = IF no_resend THEN "events" ELSE "resend"
  /\ UNCHANGED <<running, joined, mailbox, local, data_ready, callervars, sockets, set_volume,
                 self_exit>>

(* raop_buffer_handle_resends only sends; see ResendCount.                 *)
AskResends ==
  /\ thread = "resend" /\ thread' = "events"
  /\ UNCHANGED <<bufvars, running, joined, mailbox, local, data_ready, callervars, sockets, history>>

(* After the loop: running is cleared, and only then the thread logs.      *)
ClearRunning ==
  /\ thread = "exit" /\ thread' = "log"
  /\ running' = FALSE
  /\ UNCHANGED <<bufvars, joined, mailbox, local, data_ready, callervars, sockets, history>>

LogAndReturn ==
  /\ thread = "log" /\ thread' = "gone"
  /\ UNCHANGED <<bufvars, running, joined, mailbox, local, data_ready, callervars, sockets, history>>

Thread ==
  \/ TakeMailbox \/ MailboxCallbacks \/ Timeout \/ SelectFails \/ SocketsReady
  \/ ControlPacket \/ DataPacket \/ PlayNext \/ AskResends
  \/ ClearRunning \/ LogAndReturn

SessionNext == Caller \/ Thread

(* The OS schedules the RTP thread, and the caller runs on once it has     *)
(* entered raop_rtp_stop; nobody has to make a request.                    *)
SessionSpec ==
  /\ SessionInit /\ [][SessionNext]_rtpvars
  /\ WF_rtpvars(Thread)
  /\ WF_rtpvars(StopJoin \/ StopClose \/ StopMark \/ Free)
-----------------------------------------------------------------------------
Request == [volume_changed : BOOLEAN, volume : Volumes \cup {NoVolume},
            flush : FlushSeqs \cup {NO_FLUSH}, notices : SUBSET Notices]

SessionTypeOK ==
  /\ BufTypeOK
  /\ running \in BOOLEAN /\ joined \in BOOLEAN
  /\ volume \in Volumes \cup {NoVolume} /\ volume_changed \in BOOLEAN
  /\ flush \in FlushSeqs \cup {NO_FLUSH} /\ posted \subseteq Notices
  /\ thread \in {"gone", "events", "callbacks", "select", "control", "data", "play",
                  "resend", "exit", "log"}
  /\ local \in Request /\ data_ready \in BOOLEAN
  /\ caller \in {"idle", "joining", "closing", "marking", "free"} /\ destroying \in BOOLEAN
  /\ sockets \in BOOLEAN
  /\ set_volume \in Volumes \cup {NoVolume}
  /\ self_exit \in BOOLEAN

(* The buffer has no lock of its own.  raop_rtp_stop may flush it, and     *)
(* close the sockets, only because it has joined the RTP thread.           *)
BufferHasOneUser == caller \in {"closing", "marking"} => thread = "gone"

(* A start that goes ahead finds neither a live thread nor open sockets of *)
(* an earlier start, which it would overwrite: that is what joined is for. *)
StartFindsNothing == caller = "idle" /\ MayStart => thread = "gone" /\ ~sockets

(* A session is freed with its thread gone and its sockets closed, as long *)
(* as the thread did not end by itself (then raop_rtp_stop returns at once *)
(* and neither joins nor closes, although the thread may still use the     *)
(* session for its last log line).                                         *)
NeverFreedUnderThread == caller = "free" /\ ~self_exit => thread = "gone" /\ ~sockets

(* No volume change is lost between the handler that posts it and the      *)
(* thread that applies it: when none is pending in the mailbox or in the   *)
(* thread's copy, the renderer has the last volume that was set.           *)
NoVolumeLost == ~volume_changed /\ ~local.volume_changed => set_volume = volume

(* While the RTP thread plays, the window only moves forward, so that a    *)
(* packet that is too late stays too late, whatever arrives and whatever   *)
(* flushes are asked for.  Only a volume change that reaches the thread    *)
(* opens a new window: it flushes the buffer with whatever flush value the *)
(* mailbox held, NO_FLUSH included.                                        *)
WindowMovesForward ==
  [][thread # "gone" /\ caller # "free" /\ ~is_empty /\ ~local.volume_changed
       => ~is_empty' /\ Wrap(first_seqnum' - first_seqnum) \in 0 .. HalfMod - 1]_rtpvars

(* A running thread empties its mailbox again and again, however many      *)
(* packets keep both sockets ready.                                        *)
Pending == volume_changed \/ flush # NO_FLUSH \/ posted # {}
MailboxIsServed == Pending /\ running ~> ~Pending \/ ~running

(* The session keeps the promises every service of the program makes about *)
(* its thread, raop_rtp_stop's return included.                            *)
SessionLife ==
  CASE joined -> "stopped"
    [] ~joined /\ running -> "running"
    [] ~joined /\ ~running /\ caller \in {"joining", "closing", "marking"} -> "stopping"
    [] OTHER -> "failed"

Service == INSTANCE Worker WITH life <- SessionLife, active <- thread # "gone"
PlaysAsPromised == Service!Spec

(* The inductive invariants behind the above.  LifeInv: who may still be   *)
(* using the session at each point of its life.  MailboxInv: a volume that *)
(* left the mailbox is in the thread's copy until it is applied.           *)
LifeInv ==
  /\ joined => ~running /\ thread = "gone" /\ ~sockets
  /\ thread # "gone" => sockets
  /\ running => thread \notin {"gone", "log"}
  /\ thread = "exit" /\ running => self_exit
  /\ caller \in {"joining", "closing", "marking"} => ~running /\ ~joined
  /\ caller \in {"closing", "marking"} => thread = "gone"
  /\ caller = "marking" => ~sockets
  /\ caller \in {"idle", "free"} /\ ~running => joined \/ self_exit
  /\ caller = "free" => ~running

MailboxInv ==
  /\ thread # "callbacks" => local = Nothing
  /\ local.volume_changed /\ ~volume_changed => local.volume = volume
  /\ NoVolumeLost
-----------------------------------------------------------------------------
(* "Call flush in thread instead" (raop_rtp.cpp:684): once the thread has  *)
(* handled a flush request, nothing queued before it is left to play.      *)
FlushRequestEmptiesBuffer ==
  [][MailboxCallbacks /\ local.flush # NO_FLUSH
       => \A i \in Slots : ~entries'[i].filled]_rtpvars
=============================================================================
