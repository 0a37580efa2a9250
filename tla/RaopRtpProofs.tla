--------------------------- MODULE RaopRtpProofs ---------------------------
(***************************************************************************)
(* The audio session, for every buffer size, every set of requests and     *)
(* every interleaving of the HTTP server's thread and the RTP thread: who  *)
(* may use the session when, that no volume change is lost, and that the   *)
(* session uses its buffer only through the buffer's own operations, so    *)
(* that the buffer's theorems hold inside it.                              *)
(***************************************************************************)
EXTENDS RaopRtp, RaopBufferProofs

USE DEF mailbox, threadvars, callervars, history

LEMMA LifeInit == SessionInit => LifeInv
BY DEF SessionInit, LifeInv

LEMMA LifeStep == LifeInv /\ [SessionNext]_rtpvars => LifeInv'
<1> SUFFICES ASSUME LifeInv, [SessionNext]_rtpvars
             PROVE  LifeInv'
  OBVIOUS
<1>1. CASE StartAudio
  BY <1>1 DEF StartAudio, MayStart, LifeInv
<1>2. ASSUME NEW v \in Volumes, SetVolume(v) PROVE LifeInv'
  BY <1>2 DEF SetVolume, LifeInv
<1>3. ASSUME NEW s \in FlushSeqs, Flush(s) PROVE LifeInv'
  BY <1>3 DEF Flush, LifeInv
<1>4. ASSUME NEW n \in Notices, Post(n) PROVE LifeInv'
  BY <1>4 DEF Post, LifeInv
<1>5. ASSUME NEW destroy \in BOOLEAN, StopBegin(destroy) PROVE LifeInv'
  BY <1>5 DEF StopBegin, LifeInv
<1>6. CASE StopJoin
  BY <1>6 DEF StopJoin, LifeInv
<1>7. CASE StopClose
  BY <1>7 DEF StopClose, LifeInv
<1>8. CASE StopMark
  BY <1>8 DEF StopMark, LifeInv
<1>9. CASE Free
  BY <1>9 DEF Free, LifeInv
<1>10. CASE TakeMailbox
  BY <1>10 DEF TakeMailbox, LifeInv
<1>11. CASE MailboxCallbacks
  BY <1>11 DEF MailboxCallbacks, LifeInv
<1>12. CASE Timeout
  BY <1>12 DEF Timeout, LifeInv
<1>13. CASE SelectFails
  BY <1>13 DEF SelectFails, LifeInv
<1>14. CASE SocketsReady
  BY <1>14 DEF SocketsReady, LifeInv
<1>15. CASE ControlPacket
  BY <1>15 DEF ControlPacket, Receive, AfterControl, LifeInv
<1>16. CASE DataPacket
  BY <1>16 DEF DataPacket, Receive, LifeInv
<1>17. CASE PlayNext
  BY <1>17 DEF PlayNext, LifeInv
<1>18. CASE AskResends
  BY <1>18 DEF AskResends, LifeInv
<1>19. CASE ClearRunning
  BY <1>19 DEF ClearRunning, LifeInv
<1>20. CASE LogAndReturn
  BY <1>20 DEF LogAndReturn, LifeInv
<1>21. CASE UNCHANGED rtpvars
  BY <1>21 DEF rtpvars, LifeInv
<1>22. QED
  BY <1>1, <1>2, <1>3, <1>4, <1>5, <1>6, <1>7, <1>8, <1>9, <1>10, <1>11, <1>12, <1>13,
     <1>14, <1>15, <1>16, <1>17, <1>18, <1>19, <1>20, <1>21
     DEF SessionNext, Caller, Thread

(* The phases of raop_rtp_start and raop_rtp_stop, the flags they set and   *)
(* the thread's life go together as LifeInv says.                          *)
THEOREM SessionLifeKept == SessionSpec => []LifeInv
BY LifeInit, LifeStep, PTL DEF SessionSpec

(* raop_rtp_stop flushes the buffer and closes the sockets only after the  *)
(* RTP thread is gone.                                                     *)
THEOREM StopHasBufferAlone == SessionSpec => []BufferHasOneUser
<1>1. LifeInv => BufferHasOneUser
  BY DEF LifeInv, BufferHasOneUser
<1>2. QED
  BY <1>1, SessionLifeKept, PTL

(* raop_rtp_start_audio never overwrites a live thread or open sockets.    *)
THEOREM StartOverwritesNothing == SessionSpec => []StartFindsNothing
<1>1. LifeInv => StartFindsNothing
  BY DEF LifeInv, StartFindsNothing, MayStart
<1>2. QED
  BY <1>1, SessionLifeKept, PTL

(* Unless its thread ended by itself, a session is freed after its thread. *)
THEOREM FreedAfterThread == SessionSpec => []NeverFreedUnderThread
<1>1. LifeInv => NeverFreedUnderThread
  BY DEF LifeInv, NeverFreedUnderThread
<1>2. QED
  BY <1>1, SessionLifeKept, PTL
-----------------------------------------------------------------------------
LEMMA MailboxInit == SessionInit => MailboxInv
BY DEF SessionInit, MailboxInv, NoVolumeLost, Nothing

LEMMA MailboxStep == LifeInv /\ MailboxInv /\ [SessionNext]_rtpvars => MailboxInv'
<1> SUFFICES ASSUME LifeInv, MailboxInv, [SessionNext]_rtpvars
             PROVE  MailboxInv'
  OBVIOUS
<1> USE DEF MailboxInv, NoVolumeLost
<1> Nothing.volume_changed = FALSE
  BY DEF Nothing
<1>1. CASE StartAudio
  <2>1. CASE UNCHANGED <<running, joined, sockets, threadvars, self_exit>>
    BY <1>1, <2>1 DEF StartAudio
  <2>2. CASE MayStart /\ thread' = "events" /\ local' = Nothing
    <3>1. thread = "gone"
      BY <2>2 DEF MayStart, LifeInv
    <3>2. QED
      BY <1>1, <2>2, <3>1 DEF StartAudio
  <2>3. QED
    BY <1>1, <2>1, <2>2 DEF StartAudio
<1>2. ASSUME NEW v \in Volumes, SetVolume(v) PROVE MailboxInv'
  BY <1>2 DEF SetVolume
<1>3. ASSUME NEW s \in FlushSeqs, Flush(s) PROVE MailboxInv'
  BY <1>3 DEF Flush
<1>4. ASSUME NEW n \in Notices, Post(n) PROVE MailboxInv'
  BY <1>4 DEF Post
<1>5. ASSUME NEW destroy \in BOOLEAN, StopBegin(destroy) PROVE MailboxInv'
  BY <1>5 DEF StopBegin
<1>6. CASE StopJoin
  BY <1>6 DEF StopJoin
<1>7. CASE StopClose
  BY <1>7 DEF StopClose
<1>8. CASE StopMark
  BY <1>8 DEF StopMark
<1>9. CASE Free
  BY <1>9 DEF Free
<1>10. CASE TakeMailbox
  BY <1>10 DEF TakeMailbox
<1>11. CASE MailboxCallbacks
  BY <1>11 DEF MailboxCallbacks
<1>12. CASE Timeout
  BY <1>12 DEF Timeout
<1>13. CASE SelectFails
  BY <1>13 DEF SelectFails
<1>14. CASE SocketsReady
  BY <1>14 DEF SocketsReady
<1>15. CASE ControlPacket
  BY <1>15 DEF ControlPacket, Receive, AfterControl
<1>16. CASE DataPacket
  BY <1>16 DEF DataPacket, Receive
<1>17. CASE PlayNext
  BY <1>17 DEF PlayNext
<1>18. CASE AskResends
  BY <1>18 DEF AskResends
<1>19. CASE ClearRunning
  BY <1>19 DEF ClearRunning
<1>20. CASE LogAndReturn
  BY <1>20 DEF LogAndReturn
<1>21. CASE UNCHANGED rtpvars
  BY <1>21 DEF rtpvars
<1>22. QED
  BY <1>1, <1>2, <1>3, <1>4, <1>5, <1>6, <1>7, <1>8, <1>9, <1>10, <1>11, <1>12, <1>13,
     <1>14, <1>15, <1>16, <1>17, <1>18, <1>19, <1>20, <1>21
     DEF SessionNext, Caller, Thread

(* No volume change is lost between the handler and the renderer.          *)
THEOREM VolumeNeverLost == SessionSpec => []NoVolumeLost
<1>1. MailboxInv => NoVolumeLost
  BY DEF MailboxInv
<1>2. QED
  BY <1>1, MailboxInit, MailboxStep, SessionLifeKept, PTL DEF SessionSpec
-----------------------------------------------------------------------------
(* The flush value NO_FLUSH is negative, so it clears the buffer as -1.    *)
LEMMA FlushByMailbox ==
  ASSUME NEW next_seq \in FlushSeqs \cup {NO_FLUSH}, FlushBuffer(next_seq)
  PROVE  BufNext
<1>1. CASE next_seq \in Seqnums \cup {-1}
  BY <1>1 DEF BufNext
<1>2. CASE next_seq = NO_FLUSH
  <2>1. FlushBuffer(-1)
    BY <1>2, SessionAssumption DEF FlushBuffer
  <2>2. QED
    BY <2>1 DEF BufNext
<1>3. QED
  BY <1>1, <1>2, SessionAssumption

LocalFlushOK == local.flush \in FlushSeqs \cup {NO_FLUSH} /\ flush \in FlushSeqs \cup {NO_FLUSH}

LEMMA LocalFlushInit == SessionInit => LocalFlushOK
BY DEF SessionInit, LocalFlushOK, Nothing

LEMMA LocalFlushStep == LocalFlushOK /\ [SessionNext]_rtpvars => LocalFlushOK'
<1> SUFFICES ASSUME LocalFlushOK, [SessionNext]_rtpvars
             PROVE  LocalFlushOK'
  OBVIOUS
<1> USE DEF LocalFlushOK
<1> Nothing.flush = NO_FLUSH
  BY DEF Nothing
<1>1. CASE Caller
  BY <1>1 DEF Caller, StartAudio, SetVolume, Flush, Post, StopBegin, StopJoin, StopClose,
       StopMark, Free
<1>2. CASE TakeMailbox \/ MailboxCallbacks
  BY <1>2 DEF TakeMailbox, MailboxCallbacks
<1>3. CASE \/ Timeout \/ SelectFails \/ SocketsReady \/ ControlPacket \/ DataPacket
           \/ PlayNext \/ AskResends \/ ClearRunning \/ LogAndReturn
  BY <1>3 DEF Timeout, SelectFails, SocketsReady, ControlPacket, DataPacket, Receive,
       PlayNext, AskResends, ClearRunning, LogAndReturn
<1>4. CASE UNCHANGED rtpvars
  BY <1>4 DEF rtpvars
<1>5. QED
  BY <1>1, <1>2, <1>3, <1>4 DEF SessionNext, Thread

(* Every step of the session is a step of the buffer or leaves it alone.   *)
LEMMA SessionUsesBuffer == LocalFlushOK /\ [SessionNext]_rtpvars => [BufNext]_bufvars
<1> SUFFICES ASSUME LocalFlushOK, [SessionNext]_rtpvars
             PROVE  [BufNext]_bufvars
  OBVIOUS
<1>1. CASE UNCHANGED bufvars
  BY <1>1
<1>2. CASE StopClose
  BY <1>2 DEF StopClose, BufNext
<1>3. CASE Free
  BY <1>3 DEF Free, BufNext
<1>4. CASE MailboxCallbacks
  <2>1. CASE UNCHANGED bufvars
    BY <2>1
  <2>2. CASE FlushBuffer(local.flush)
    BY <2>2, FlushByMailbox DEF LocalFlushOK
  <2>3. QED
    BY <1>4, <2>1, <2>2 DEF MailboxCallbacks, bufvars
<1>5. ASSUME NEW seq \in Seqnums, NEW then, Receive(seq, then)
      PROVE  BufNext
  <2>1. PICK data \in Data : TRUE
    BY BufferAssumption
  <2>2. CASE Ignore(seq)
    BY <2>1, <2>2 DEF BufNext, Enqueue
  <2>3. CASE \E d \in Data : Store(seq, d)
    BY <2>3 DEF BufNext, Enqueue
  <2>4. QED
    BY <1>5, <2>2, <2>3 DEF Receive
<1>6. CASE ControlPacket
  BY <1>5, <1>6 DEF ControlPacket, bufvars
<1>7. CASE DataPacket
  BY <1>5, <1>7 DEF DataPacket, bufvars
<1>8. CASE PlayNext
  BY <1>8 DEF PlayNext, BufNext, Dequeue, no_resend
<1>9. CASE \/ StartAudio \/ StopJoin \/ StopMark
           \/ \E v \in Volumes : SetVolume(v)
           \/ \E s \in FlushSeqs : Flush(s)
           \/ \E n \in Notices : Post(n)
           \/ \E destroy \in BOOLEAN : StopBegin(destroy)
           \/ TakeMailbox \/ Timeout \/ SelectFails \/ SocketsReady
           \/ AskResends \/ ClearRunning \/ LogAndReturn
           \/ UNCHANGED rtpvars
  <2>1. UNCHANGED bufvars
    BY <1>9 DEF StartAudio, SetVolume, Flush, Post, StopBegin, StopJoin, StopMark,
         TakeMailbox, Timeout, SelectFails, SocketsReady, AskResends, ClearRunning,
         LogAndReturn, rtpvars
  <2>2. QED
    BY <2>1
<1>10. QED
  BY <1>2, <1>3, <1>4, <1>6, <1>7, <1>8, <1>9 DEF SessionNext, Caller, Thread

LEMMA SessionIsBuffer == SessionSpec => BufSpec
<1>1. SessionInit => BufInit
  BY DEF SessionInit
<1>2. QED
  BY <1>1, LocalFlushInit, LocalFlushStep, SessionUsesBuffer, PTL DEF SessionSpec, BufSpec

(* So the buffer's theorems hold in the session: whatever the network and  *)
(* the client do, each slot in use holds the live payload of its place in  *)
(* the window, and no packet the session stores overwrites one.            *)
THEOREM SessionKeepsRing == SessionSpec => [](RingMatchesWindow /\ NoPayloadLost)
BY SessionIsBuffer, RingAlwaysMatchesWindow, NeverLosesPayload, PTL

(* And so does what it promises: the session plays through a window that   *)
(* gives packets out in order, each with its own content.                  *)
THEOREM SessionPlaysThroughWindow == SessionSpec => ImplementsWindow
BY SessionIsBuffer, RingImplementsWindow, PTL
-----------------------------------------------------------------------------
(* Types: the buffer's from the buffer's theorem, the session's own here.  *)
SessionVarsOK ==
  /\ running \in BOOLEAN /\ joined \in BOOLEAN
  /\ volume \in Volumes \cup {NoVolume} /\ volume_changed \in BOOLEAN
  /\ flush \in FlushSeqs \cup {NO_FLUSH} /\ posted \subseteq Notices
  /\ thread \in {"gone", "events", "callbacks", "select", "control", "data", "play",
                  "resend", "exit", "log"}
  /\ local \in Request /\ data_ready \in BOOLEAN
  /\ caller \in {"idle", "joining", "closing", "marking", "free"} /\ destroying \in BOOLEAN
  /\ sockets \in BOOLEAN
  /\ set_volume \in Volumes \cup {NoVolume}
  /\ self_exit \in BOOLEAN

LEMMA NothingIsRequest == Nothing \in Request
BY DEF Nothing, Request

LEMMA VarsInit == SessionInit => SessionVarsOK
BY NothingIsRequest DEF SessionInit, SessionVarsOK

LEMMA VarsStep == SessionVarsOK /\ [SessionNext]_rtpvars => SessionVarsOK'
<1> SUFFICES ASSUME SessionVarsOK, [SessionNext]_rtpvars
             PROVE  SessionVarsOK'
  OBVIOUS
<1> USE DEF SessionVarsOK
<1>1. CASE StartAudio
  <2>1. CASE UNCHANGED <<running, joined, sockets, threadvars, self_exit>>
    BY <1>1, <2>1 DEF StartAudio
  <2>2. CASE /\ running' = TRUE /\ joined' = FALSE /\ sockets' = TRUE /\ self_exit' = FALSE
             /\ thread' = "events" /\ local' = Nothing /\ data_ready' = FALSE
    BY <1>1, <2>2, NothingIsRequest DEF StartAudio
  <2>3. QED
    BY <1>1, <2>1, <2>2 DEF StartAudio
<1>2. ASSUME NEW v \in Volumes, SetVolume(v) PROVE SessionVarsOK'
  BY <1>2 DEF SetVolume
<1>3. ASSUME NEW s \in FlushSeqs, Flush(s) PROVE SessionVarsOK'
  BY <1>3 DEF Flush
<1>4. ASSUME NEW n \in Notices, Post(n) PROVE SessionVarsOK'
  BY <1>4 DEF Post
<1>5. ASSUME NEW destroy \in BOOLEAN, StopBegin(destroy) PROVE SessionVarsOK'
  <2>1. /\ UNCHANGED <<joined, mailbox, threadvars, sockets, history>>
        /\ destroying' = destroy
        /\ running' = running \/ running' = FALSE
        /\ caller' \in {"free", "idle", "joining"}
    BY <1>5 DEF StopBegin
  <2>2. running' \in BOOLEAN /\ destroying' \in BOOLEAN
    BY <2>1, Zenon
  <2>3. QED
    BY <2>1, <2>2
<1>6. CASE StopJoin
  BY <1>6 DEF StopJoin
<1>7. CASE StopClose
  <2>1. /\ UNCHANGED <<running, joined, mailbox, threadvars, destroying, history>>
        /\ sockets' = FALSE /\ caller' = "marking"
    BY <1>7 DEF StopClose
  <2>2. joined' \in BOOLEAN /\ sockets' \in BOOLEAN
    BY <2>1, Zenon
  <2>3. QED
    BY <2>1, <2>2
<1>8. CASE StopMark
  BY <1>8 DEF StopMark
<1>9. CASE Free
  BY <1>9, NothingIsRequest DEF Free
<1>10. CASE TakeMailbox
  <2>1. [volume_changed |-> volume_changed, volume |-> volume,
         flush |-> flush, notices |-> posted] \in Request
    BY DEF Request
  <2>2. CASE running
    BY <1>10, <2>1, <2>2 DEF TakeMailbox
  <2>3. CASE ~running
    BY <1>10, <2>3 DEF TakeMailbox
  <2>4. QED
    BY <2>2, <2>3
<1>11. CASE MailboxCallbacks
  <2>1. local.volume \in Volumes \cup {NoVolume}
    BY DEF Request
  <2>2. /\ UNCHANGED <<running, joined, mailbox, data_ready, callervars, sockets, self_exit>>
        /\ local' = Nothing /\ thread' = "select"
        /\ set_volume' \in {local.volume, set_volume}
    BY <1>11 DEF MailboxCallbacks
  <2>3. QED
    BY <2>1, <2>2, NothingIsRequest
<1>12. CASE Timeout
  BY <1>12 DEF Timeout
<1>13. CASE SelectFails
  BY <1>13 DEF SelectFails
<1>14. CASE SocketsReady
  BY <1>14 DEF SocketsReady
<1>15. CASE ControlPacket
  <2>1. /\ UNCHANGED <<joined, mailbox, local, data_ready, callervars, sockets, set_volume>>
        /\ thread' \in {"data", "events", "gone"}
        /\ running' = running \/ running' = FALSE
        /\ self_exit' = self_exit \/ self_exit' = TRUE
    BY <1>15 DEF ControlPacket, Receive, AfterControl
  <2>2. running' \in BOOLEAN /\ self_exit' \in BOOLEAN
    BY <2>1, Zenon
  <2>3. QED
    BY <2>1, <2>2
<1>16. CASE DataPacket
  <2>1. /\ UNCHANGED <<joined, mailbox, local, data_ready, callervars, sockets, set_volume>>
        /\ thread' \in {"play", "events", "gone"}
        /\ running' = running \/ running' = FALSE
        /\ self_exit' = self_exit \/ self_exit' = TRUE
    BY <1>16 DEF DataPacket, Receive
  <2>2. running' \in BOOLEAN /\ self_exit' \in BOOLEAN
    BY <2>1, Zenon
  <2>3. QED
    BY <2>1, <2>2
<1>17. CASE PlayNext
  BY <1>17 DEF PlayNext
<1>18. CASE AskResends
  BY <1>18 DEF AskResends
<1>19. CASE ClearRunning
  BY <1>19 DEF ClearRunning
<1>20. CASE LogAndReturn
  BY <1>20 DEF LogAndReturn
<1>21. CASE UNCHANGED rtpvars
  BY <1>21 DEF rtpvars
<1>22. QED
  BY <1>1, <1>2, <1>3, <1>4, <1>5, <1>6, <1>7, <1>8, <1>9, <1>10, <1>11, <1>12, <1>13,
     <1>14, <1>15, <1>16, <1>17, <1>18, <1>19, <1>20, <1>21
     DEF SessionNext, Caller, Thread

(* Every variable of a session, its buffer's included, keeps its type.     *)
THEOREM SessionTypeCorrect == SessionSpec => []SessionTypeOK
<1>1. BufTypeOK /\ SessionVarsOK => SessionTypeOK
  BY DEF SessionVarsOK, SessionTypeOK
<1>2. QED
  BY <1>1, SessionIsBuffer, BufferTypeCorrect, VarsInit, VarsStep, PTL DEF SessionSpec
-----------------------------------------------------------------------------
(* How far a step moves the start of the window.                           *)
Moved == Wrap(first_seqnum' - first_seqnum)

LEMMA StandsStill ==
  ASSUME BufInv, UNCHANGED first_seqnum
  PROVE  Moved \in 0 .. HalfMod - 1
BY ConstantFacts DEF BufInv, BufTypeOK, Moved, Wrap, Seqnums

(* A packet is stored at most half the numbers ahead of the start.         *)
LEMMA StoreMovesForward ==
  ASSUME BufInv, NEW seq \in Seqnums, NEW data \in Data, Store(seq, data), ~is_empty
  PROVE  Moved \in 0 .. HalfMod - 1
<1>1. seqnum_cmp(seq, first_seqnum) >= 0
  BY ConstantFacts DEF Store, Accepts, TooLate, BufInv, BufTypeOK, seqnum_cmp, Seqnums
<1>2. first_seqnum' \in {seq, first_seqnum}
  BY DEF Store
<1>3. CASE first_seqnum' = first_seqnum
  BY <1>3, StandsStill
<1>4. CASE first_seqnum' = seq
  <2>1. Moved = Wrap(seq - first_seqnum) /\ first_seqnum \in Seqnums
    BY <1>4 DEF Moved, BufInv, BufTypeOK
  <2>2. Wrap(seq - first_seqnum) \in 0 .. HalfMod - 1
    BY <1>1, <2>1, ConstantFacts DEF seqnum_cmp, Wrap, Seqnums
  <2>3. QED
    BY <2>1, <2>2
<1>5. QED
  BY <1>2, <1>3, <1>4

LEMMA DequeueMovesForward ==
  ASSUME BufInv, first_seqnum' = Wrap(first_seqnum + 1)
  PROVE  Moved \in 0 .. HalfMod - 1
BY ConstantFacts DEF BufInv, BufTypeOK, Moved, Wrap, Seqnums

LEMMA ForwardStep ==
  ASSUME BufInv, LifeInv, [SessionNext]_rtpvars,
         thread # "gone", caller # "free", ~is_empty, ~local.volume_changed
  PROVE  ~is_empty' /\ Moved \in 0 .. HalfMod - 1
<1>1. CASE UNCHANGED <<is_empty, first_seqnum>>
  BY <1>1, StandsStill
<1>2. ASSUME NEW seq \in Seqnums, NEW then, Receive(seq, then)
      PROVE  ~is_empty' /\ Moved \in 0 .. HalfMod - 1
  <2>1. CASE Ignore(seq)
    BY <1>1, <2>1 DEF Ignore
  <2>2. ASSUME NEW data \in Data, Store(seq, data)
        PROVE  ~is_empty' /\ Moved \in 0 .. HalfMod - 1
    BY <2>2, StoreMovesForward DEF Store
  <2>3. QED
    BY <1>2, <2>1, <2>2 DEF Receive
<1>3. CASE PlayNext
  <2>1. CASE DequeueNothing(no_resend)
    BY <1>1, <2>1 DEF DequeueNothing
  <2>2. CASE SkipFirst(no_resend) \/ TakeFirst(no_resend)
    BY <2>2, DequeueMovesForward DEF SkipFirst, TakeFirst
  <2>3. QED
    BY <1>3, <2>1, <2>2 DEF PlayNext
<1>4. CASE StopClose \/ Free
  BY <1>4 DEF StopClose, Free, LifeInv
<1>5. CASE ControlPacket
  BY <1>1, <1>2, <1>5 DEF ControlPacket, bufvars
<1>6. CASE DataPacket
  BY <1>1, <1>2, <1>6 DEF DataPacket, bufvars
<1>7. CASE MailboxCallbacks
  BY <1>1, <1>7 DEF MailboxCallbacks, bufvars
<1>8. CASE \/ StartAudio \/ StopJoin \/ StopMark
           \/ \E v \in Volumes : SetVolume(v)
           \/ \E s \in FlushSeqs : Flush(s)
           \/ \E n \in Notices : Post(n)
           \/ \E destroy \in BOOLEAN : StopBegin(destroy)
           \/ TakeMailbox \/ Timeout \/ SelectFails \/ SocketsReady
           \/ AskResends \/ ClearRunning \/ LogAndReturn
           \/ UNCHANGED rtpvars
  <2>1. UNCHANGED bufvars
    BY <1>8 DEF StartAudio, SetVolume, Flush, Post, StopBegin, StopJoin, StopMark,
         TakeMailbox, Timeout, SelectFails, SocketsReady, AskResends, ClearRunning,
         LogAndReturn, rtpvars
  <2>2. QED
    BY <1>1, <2>1 DEF bufvars
<1>9. QED
  BY <1>3, <1>4, <1>5, <1>6, <1>7, <1>8 DEF SessionNext, Caller, Thread

(* While the RTP thread plays, only a volume change that reaches it moves  *)
(* the playout window back.                                                *)
THEOREM WindowAlwaysForward == SessionSpec => WindowMovesForward
<1>1. BufInv /\ LifeInv /\ [SessionNext]_rtpvars =>
        [thread # "gone" /\ caller # "free" /\ ~is_empty /\ ~local.volume_changed
           => ~is_empty' /\ Wrap(first_seqnum' - first_seqnum) \in 0 .. HalfMod - 1]_rtpvars
  BY ForwardStep DEF Moved
<1>2. QED
  BY <1>1, SessionIsBuffer, BufferInvariant, SessionLifeKept, PTL
     DEF SessionSpec, WindowMovesForward
-----------------------------------------------------------------------------
(* The session implements Worker, like the HTTP server: every step of it   *)
(* starts, asks, fails, ends or frees the service, or is not visible.      *)
THEOREM SessionIsAWorker == SessionSpec => Service!Safe
<1>1. SessionInit => Service!Init
  BY DEF SessionInit, Service!Init, SessionLife
<1>2. LifeInv /\ [SessionNext]_rtpvars => [Service!Next]_Service!wvars
  <2> SUFFICES ASSUME LifeInv, [SessionNext]_rtpvars
               PROVE  Service!Next \/ UNCHANGED Service!wvars
    OBVIOUS
  <2> USE DEF Service!wvars
  <2>1. CASE StartAudio
    BY <2>1 DEF StartAudio, MayStart, SessionLife, LifeInv, Service!Next, Service!Start
  <2>2. ASSUME NEW destroy \in BOOLEAN, StopBegin(destroy)
        PROVE  Service!Next \/ UNCHANGED Service!wvars
    BY <2>2 DEF StopBegin, SessionLife, LifeInv, Service!Next, Service!AskToStop
  <2>3. CASE StopJoin \/ StopClose
    BY <2>3 DEF StopJoin, StopClose, SessionLife
  <2>4. CASE StopMark
    BY <2>4 DEF StopMark, SessionLife, LifeInv, Service!Next, Service!Stopped
  <2>5. CASE Free
    BY <2>5 DEF Free, SessionLife, LifeInv, Service!Next, Service!Free
  <2>6. ASSUME NEW seq \in Seqnums, NEW then, then # "gone", thread # "gone", Receive(seq, then),
               UNCHANGED <<joined, callervars>>
        PROVE  Service!Next \/ UNCHANGED Service!wvars
    <3>1. \/ thread' = then /\ UNCHANGED running
          \/ thread' = "gone" /\ running' = FALSE
      BY <2>6 DEF Receive
    <3>2. CASE thread' = then /\ UNCHANGED running
      BY <2>6, <3>2 DEF SessionLife
    <3>3. CASE running /\ thread' = "gone" /\ running' = FALSE
      BY <2>6, <3>3 DEF SessionLife, LifeInv, Service!Next, Service!Fail
    <3>4. CASE ~running /\ thread' = "gone" /\ running' = FALSE
      BY <2>6, <3>4 DEF SessionLife, LifeInv, Service!Next, Service!ThreadEnds
    <3> QED
      BY <3>1, <3>2, <3>3, <3>4
  <2>7. CASE ClearRunning
    BY <2>7 DEF ClearRunning, SessionLife, LifeInv, Service!Next, Service!Fail
  <2>8. CASE LogAndReturn
    BY <2>8 DEF LogAndReturn, SessionLife, LifeInv, Service!Next, Service!ThreadEnds
  <2>9. ASSUME UNCHANGED <<running, joined, callervars>>, (thread = "gone") = (thread' = "gone")
        PROVE  UNCHANGED Service!wvars
    BY <2>9 DEF SessionLife
  <2>10. CASE UNCHANGED rtpvars
    BY <2>9, <2>10 DEF rtpvars
  <2>11. CASE \/ \E v \in Volumes : SetVolume(v)
              \/ \E s \in FlushSeqs : Flush(s)
              \/ \E n \in Notices : Post(n)
    BY <2>9, <2>11 DEF SetVolume, Flush, Post
  <2>12. CASE TakeMailbox \/ MailboxCallbacks \/ Timeout \/ SelectFails \/ SocketsReady
    BY <2>9, <2>12 DEF TakeMailbox, MailboxCallbacks, Timeout, SelectFails, SocketsReady
  <2>13. CASE ControlPacket
    <3>1. AfterControl # "gone"
      BY DEF AfterControl
    <3> QED
      BY <2>6, <2>9, <2>13, <3>1 DEF ControlPacket
  <2>14. CASE DataPacket
    BY <2>6, <2>9, <2>14 DEF DataPacket
  <2>15. CASE PlayNext \/ AskResends
    BY <2>9, <2>15 DEF PlayNext, AskResends
  <2> QED
    BY <2>1, <2>2, <2>3, <2>4, <2>5, <2>7, <2>8, <2>10, <2>11, <2>12, <2>13, <2>14, <2>15
       DEF SessionNext, Caller, Thread
<1> QED
  BY <1>1, <1>2, SessionLifeKept, PTL DEF SessionSpec, Service!Safe
=============================================================================
