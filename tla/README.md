# WinAirPlay in TLA+

WinAirPlay is an AirPlay receiver for Windows, a port of RPiPlay. This directory
holds TLA+ models of its own logic (not of the vendored libraries), TLC
configurations that check them, and TLAPS proofs. Every definition is translated
from the sources under `src/`; `PROJECT.json` maps each to the lines it stands for.

What is modelled is the Windows build the repository's README describes: 64 bits,
Winsock, CMake's default `Release` build (assertions compiled out).

## 1. The system

An iOS device connects over TCP to an RTSP-like HTTP server, pairs, sets up
encryption keys, and then sends an audio stream (RTP over UDP), a mirroring
stream (frames over TCP) or both, while the receiver asks the device for the time
over UDP. Each service has a thread of its own and one shape: `init`, `start`,
`stop`, `destroy`, two flags `running` and `joined` under `run_mutex`, and a thread
that looks at `running` once per round.

| Component | State it keeps | Operations | Talks to |
|---|---|---|---|
| HTTP server `lib/httpd.cpp` | table of connections, counter, listening socket, flags | start, stop, destroy; accept, recv, dispatch, remove in one thread | calls `conn_init`, `conn_request`, `conn_destroy` |
| RTSP connection `lib/raop.cpp`, `lib/raop_handlers.h` | pointers to the three services, pairing and FairPlay sessions | SETUP, RECORD, FLUSH, TEARDOWN, parameters, pairing requests, end of the connection | starts, stops, destroys the services; waits for their threads |
| Audio session `lib/raop_rtp.cpp` | flags, sockets, mailbox of requests (volume, flush, metadata, cover art, progress) | start, stop, destroy, set_*, flush; the receive and playout loop | the jitter buffer, the clock, the renderer's callbacks |
| Jitter buffer `lib/raop_buffer.cpp` | ring of packets, first and last sequence number | enqueue, dequeue, handle_resends, flush | called only by the audio session, no lock |
| Mirroring session `lib/raop_rtp_mirror.cpp` | flags, listening socket, stream socket, the frame so far | init_aes, start, stop, destroy; accept and receive loop | the decryption, the clock, the decoder |
| Mirroring decryption `lib/mirror_buffer.cpp` | AES-CTR context, left-over of the last block | init_aes, decrypt | called by the mirroring session |
| Clock synchronisation `lib/raop_ntp.cpp` | flags, socket, ring of eight samples, offset in use | start, stop, destroy, conversions; request/response loop | read by the two sessions' threads |
| HTTP request/response `lib/http_request.cpp`, `lib/http_response.cpp` | llhttp parser, url, headers, body | add_data, is_complete; add_header, finish | the server |
| Pairing `lib/pairing.cpp` | status, keys | setup, handshake, finish, get_signature | the handlers |
| FairPlay `lib/fairplay_playfair.cpp` | `keymsg`, its length | setup, handshake, decrypt | the handlers |
| Program `rpiplay.cpp` | the server, dnssd, the renderers | start_server, stop_server | everything |
| dnssd, logger, crypto, netutils, renderers, decoders, vendored code | - | wrappers, data processing | - |

What is hard to test here:

* **The life of a service.** Start, stop and destroy come from the server's thread
  in any order while the service's thread may be ending by itself.
* **The server's only thread does everything.** It reads all clients and waits, in
  `pthread_join`, for service threads. If one does not come back nobody is served.
* **Buffers whose indices wrap**: 16-bit sequence numbers over 32 slots, a ring of
  time samples, a key stream cut at arbitrary bytes.
* **Partial reads**: HTTP requests, mirroring headers and payloads.
* **An unreliable network**: lost, late, duplicated, reordered audio and time packets.
* **Mailboxes read under a lock and acted on after it.**
* **A start-up whose steps a client can see**: the server accepts before the program has finished
  starting, and what is announced is built while it may be read.

What makes each component correct is stated as the properties of section 3;
`PROJECT.json` lists each hazard at its line with the properties that would catch it.

## 2. Modules and the code

`Worker` is the abstract specification of a service's life: stopped, running, stopping,
or failed when its thread ended by itself (then it cannot be started again, only freed).
Four modules implement it, and the services that `RaopConn` calls are described by its steps.

| Module | Models | Correspondence |
|---|---|---|
| `SeqNum` | `unsigned short` arithmetic, `seqnum_cmp` | `SeqMod` is 2^16. Sums and differences are wrapped by one addition, which is what the conversion to `short` does to them. |
| `RaopBuffer` | `raop_buffer.cpp` | One action per function and outcome: `Ignore`/`Store` (enqueue), `DequeueNothing`/`SkipFirst`/`TakeFirst`, `FlushBuffer`, `Recreate` (destroy, init); `ResendCount` is what handle_resends asks for. Timestamp, length and decrypted bytes are one member of `Data`. |
| `PlayoutWindow` | abstract | What the buffer promises: a window of packets by number, no ring, no slots, no pointers. `RaopBuffer!ImplementsWindow` is the refinement. |
| `HttpRequest` | `http_request.cpp` | The callbacks, one operator each, and `AddData` for a read. A header that is missing (`Missing`) is told from one that is empty: an empty CSeq is answered, a missing one is not. llhttp is external, in the loose mode the repository builds. A text is a sequence of characters; what the transport carries is characters tagged with the part of the request they belong to, so that a cut may fall anywhere. `Characters` is any set without the two marks the model adds to it. |
| `HttpResponse` | `http_response.cpp` | Lengths only: what `add_data` allocates, and whether each copy stays inside. |
| `Program` | `start_server` of `rpiplay.cpp`, `dnssd.cpp`, `conn_request` of `raop.cpp`, the recv and send loops of `httpd.cpp` (EXTENDS the two above) | `main` is where the main thread is, `thread` where the server's thread is with one client. The client either waits for each answer (`patient`) or does not, and may connect again after a connection ended or was dropped. `main` is also "exited", "crashed", or "overrun": something was copied beyond the end of a response's buffer (`HeapFails`), which stands for every way the program may go on from there other than the undisturbed one. `handled` and `found` are history. Requests are numbered with the different `Numerals`. |
| `RaopRtp` | `raop_rtp.cpp` with the buffer (EXTENDS) | Variable `thread` says where the thread is in its loop, `caller` where the server's thread is in stop or destroy. A critical section is one action; what follows an unlock is another. `local` is the thread's copy of the mailbox. |
| `Httpd` | `httpd.cpp` | `at` and `i` are the thread's position and loop index. `rfds` holds socket *numbers*, which the OS reuses; the history variable `readable` remembers which sessions they stood for. |
| `RaopNtp` | `raop_ntp.cpp` | Sends, receives and sorts; the client (`Deliver`) answers any past request, late or again. `recvfrom` blocks while the socket is open and nothing came (`Blocked`). What the clocks show is left open: any reading in `Times`, in any order. |
| `NtpClock` | timestamps of `byteutils.cpp`, offset and delay | Pure operators, every integer in its width: seconds of 32 bits in a timestamp, unsigned 64 bits for times, signed ones for offset and delay. |
| `LocalClock` | `clock_gettime`, `raop_ntp_get_local_time` | The two structs' layouts in the 64-bit build. |
| `MirrorBuffer` | `mirror_buffer.cpp` | A byte of the key stream is its position; a payload is its length. |
| `RaopRtpMirror` | `raop_rtp_mirror.cpp` with the decryption (EXTENDS) | A recv of n bytes is n steps. Bytes carry the frame and place they came from, so that a frame cut wrongly is visible. `Process` is everything done with a complete frame. |
| `Pairing` | `pairing.cpp`, `fairplay_playfair.cpp`, their handlers | One action per message and outcome, with whether it asks to disconnect. `stage` is how far a client has kept the protocol's order. |
| `RaopConn` | `raop.cpp`, SETUP, TEARDOWN and `conn_destroy` | A handler is `request` with the stops and destroys it has left to call. A service is the abstract Worker. |
| `MC*` | definitions for the configurations | |
| `*Proofs` | TLAPS proofs | one per component; `RaopNtpProofs` is about `RaopNtp` and `NtpClock`, `ProgramProofs` about `HttpResponse` and `Program`, and EXTENDS `HttpRequestProofs` |

Operators named `X_Something` and marked `\* mutation:` are not part of a model. Each is
a plausible bug in `X`; putting it in the place of `X` makes the property named in
`PROJECT.json` fail.

## 3. Runs

### Passing

| Run | Module and cfg | Properties | Bounds |
|---|---|---|---|
| `buffer` | MCRaopBuffer, RaopBuffer.cfg | BufTypeOK, RingMatchesWindow, ResendAsksWhatIsMissing, NoPayloadLost, ImplementsWindow | 3 slots, 12 numbers, two payloads |
| `session` | MCRaopRtp, RaopRtp.cfg | SessionTypeOK, BufferHasOneUser, StartFindsNothing, NoVolumeLost, WindowMovesForward, MailboxIsServed, PlaysAsPromised | 2 slots, 6 numbers, two volumes, one flush number, metadata, a control port (resends) |
| `http_server` | Httpd | HttpdTypeOK, NeverFull, SessionsMatchTable, OnlyReadableIsRead, ServesAsPromised, StopReturns | 2 slots, 3 socket numbers, 3 sessions |
| `ntp` | RaopNtp | NtpTypeOK, SyncedToBestRecent, KeepsTimeAsPromised | ring of 2, clock readings 0 and 5 with 4 microseconds and 6 fractions a second, timestamps of 6 seconds from the epoch 5, integers of 64 values, socket buffer of 1 |
| `mirror` | RaopRtpMirror | MirrorTypeOK, WholeFramesInOrder, DecryptsInStep, MirrorsAsPromised | block of 3 bytes, key stream of 2 blocks, header of 2 bytes, payloads of 0, 2, 4 |
| `connection` | RaopConn | ConnTypeOK, PointersAreLive, NoServiceLost, ClockOutlivesSessions, CalleeIsLive, TeardownEndsAudio, OrderlyClientIsServed, HandlersReturn | two SETUPs with keys; pairing unbounded |
| `program` | MCProgram, Program.cfg | ProgramTypeOK, HandlerSeesWhatWasSent, AnswersInOrder, ResponseFits, AnnouncedMeansReady, WaitingClientIsAnswered | two requests a connection, of three kinds, cut anywhere; response lengths as in the code, CSeqs of 2 and 2000 characters, data of 142 and 1000 bytes, sends of 1200 and 5000 |

Why these bounds are enough for the interesting cases:

* **buffer.** The code relies on the ring's length dividing 2^16 and on 2^16 being more
  than twice the length; `BufferAssumption` says so, and 3 of 12 is the same regime. Every
  run wraps around the numbers and the ring, and contains late, duplicated and overrunning packets.
  The proofs below cover every length.
* **session.** 2 slots of 6 numbers is again that regime. The volumes are two so that one can be posted while
  the other is in the thread's copy. `control_rport` is 6001 although the code as it stands
  always has 0 there (see below), so that the run reaches the requests for resends; the proofs cover every value.
* **http_server.** Two slots fill the table; a third socket number lets the OS hand out a freed number in the same
  pass, or a fresh one; a third session lets a slot be reused.
* **ntp.** A ring of two wraps at once, the best sample leaves it, and two readings make
  delays that differ; between them the seconds of a timestamp wrap. A socket buffer of one is enough for a late answer to be taken for the next.
* **mirror.** Payloads of 0, 2 and 4 bytes against blocks of 3 leave every possible rest,
  and the key stream comes round. Frames are numbered modulo 2: two neighbours are told apart.
* **connection.** One SETUP replaces the services of another; after that a third does what the second did.
  `MaxSetups` counts over all connections, so that both may be of one connection or of two.
* **program.** Connections come one after the other without bound. Two requests are enough for a read that ends in the
  middle of the second, for a waiting client's second request after an answer, and for two that are merged (see below);
  one kind has an empty header value, one a body, one no CSeq. Every cut of every read is tried. An answer with 1000 bytes of data
  is longer than the first allocation of 1024 and than one send of 1200. The CSeq is the client's and the answer repeats it at any length: one of 2000 characters brings the first reallocation, to 2048,
  and the next header then finds `data_size` still at 1024 and is copied beyond the end. `BufferSizes` goes as far as these lengths need.

Deadlock is checked in every run but `program`, where the program may have exited, crashed or overrun a buffer and the
client need not ask anything more.

Five properties that are corollaries of these, or say what one action does, are stated in the modules and
proved but not run: Httpd's FreshParser and StopLeavesNothing, RaopNtp's StopLeavesNothing, NeverFreedUnderThread of RaopRtp,
FreedAfterThread of RaopRtpMirror. TimestampKeepsTime, about NtpClock's operators, is a theorem only.

### Where the code disagrees with its own words

| Run | Property | What it shows |
|---|---|---|
| `flush_initial` | FlushIsInitialState | "Flush buffer into initial state": `raop_buffer_flush` frees payloads and keeps their addresses in the slots. |
| `flush_request` | FlushRequestEmptiesBuffer | "Call flush in thread instead": the thread only calls the renderer's flush; what was queued before a FLUSH is played after it. |
| `ntp_flush` | SocketIsFlushed | "Flush the socket in case a super delayed response arrived or something": the body of `raop_ntp_flush_socket` is commented out, and a late answer is read as the answer to the next request. |
| `local_clock` | CountsMicroseconds | "current time in micro seconds": a `timeval` of two 32-bit longs is written where a `timespec` with a 64-bit `tv_sec` is read. |
| `mirror_stop` | StopReturns | "so we need a timeout": Winsock reads `SO_RCVTIMEO` as milliseconds, here 0, no timeout; a client that pauses inside a frame keeps the thread in `recv` and the server's only thread in the join. |

Observations with no sentence of the repository against them, so no run:

* A thread that ends by itself clears `running` before its last use of the session (its last log line), in all four services;
  a stop in between returns without joining. `self_exit` in the properties marks exactly this.
  Such a session stays unjoined: it can never be started again.
* A volume change empties the jitter buffer with whatever flush number the mailbox held (usually `NO_FLUSH`),
  so the next packet, however late, opens a new window. `WindowMovesForward` names that exception.
* SETUP gives control port 0, so `no_resend` is always true and a lost packet is skipped at once.
* A lost answer stalls the clock's thread until the next stop, since its receive timeout is 0 as well.
* One failed `accept` ends the server's thread for good.
* The second message of pair-verify is always refused, silently: the first leaves the status at `STATUS_HANDSHAKE`, and the
  handler lets in only `STATUS_SETUP`. So the client's signature is never verified, and `STATUS_FINISHED` is never reached;
  clients go on all the same.
* A second SETUP with keys overwrites the pointers to the first one's services: nobody can stop them (`superseded`).
* `conn_destroy` frees the clock before it stops the sessions whose threads use it (`ClockOutlivesSessions` leaves out `"ending"`).
* A mirroring client that closes between frames leaks the stream's socket (`stream_fd = -1` without `closesocket`).
* A payload shorter than what the last block left over is decrypted beyond its end (`short`).
* Two requests in one read (a client that does not wait) are merged into one, because llhttp is built loose and reads on into the same
  `http_request_t`: the second url is appended to the first, the first CSeq is answered, with the method of the last. What is left of the second then meets
  a fresh parser and ends the connection. HandlerSeesWhatWasSent and AnswersInOrder are therefore about clients that wait, as AirPlay senders do.
* A request without a CSeq is handled and gets no answer; one with an empty CSeq is answered.
* `recv` returning -1 is not told from data: the parser is given the length -1, and the connection ends with a parse error.
* `data_size` of a response stays 1024 whatever was allocated, so each later `add_data` counts from 1024 again. It fits while the
  head, in which the client's CSeq is repeated as it came (`raop.cpp:155`), stays below 1024 (`HeadFits`). With a longer CSeq the next `add_data` allocates less than is already there
  and copies beyond the end (`http_response.cpp:45-53`). ResponseFits is therefore about heads that fit, and `HeapFails` is what may follow when one does not.
* The program accepts connections before `raop_set_dnssd`, and GET /info does not check `dnssd` in a release build: a client that comes that
  early, without having found the service announced, crashes it. One that comes a little later can read the TXT record while it is being built.
* What `raop_start` and both registrations return is ignored: with no server, port 0 is announced all the same.
* `_airplay._tcp` is announced at `port + 1`, where nothing listens.
* `init_signals` is commented out, so nothing ever clears the program's `running`, and `stop_server` is never reached.
* How far the offset is from the truth depends on clocks that count microseconds, which `local_clock` says ours does not; so nothing is stated about it.

### Fairness

Liveness and the refinements of `Worker!Spec` assume only this.

* The OS schedules every service's thread: weak fairness of its steps as one action.
* A caller inside stop or destroy goes on: weak fairness of the steps that follow the first one. Nobody has to make a request.
* The network and the clients owe nothing. `RaopNtp!Thread` is not fair while `recvfrom` waits; in
  `RaopRtpMirror` the steps that need a client are not fair at all. This is why `mirror` checks only the safety part of
  `Worker` (`http_server` likewise, see the next point), and `RaopConn` assumes nothing of a mirroring thread that was asked to stop
  (`HandlersReturn` allows waiting for it).
* `Httpd!Thread` is fair only outside `InHandler`: a handler or `conn_destroy` may join a mirroring thread that never comes back (`mirror_stop`), and
  `send` blocks while a client does not read its response. So `http_server` checks the safety part of `Worker`, and of liveness StopReturns: once `httpd_stop` has cleared `running`, it returns unless
  the thread stays in a handler for ever.
* `Program` is fair only to what cannot block (`Unhindered`): reading what has come, making a response, GET /info, whose handler calls nothing that waits, and closing a connection that has nothing left to
  end. A handler of another request, a send, and the `conn_destroy` of a disconnected client may take for ever (`Hindered`). The client owes nothing either:
  `WaitingClientIsAnswered` is excused when the thread is hindered from some point on, when the connection is cut or closed by a handler, or when the program has ended or overrun a buffer. What it shows is that no request is left waiting
  for a reason other than these: not for how its bytes were cut, and not because the server goes back to `select` with an answer half sent.

## 4. Proofs

All proofs are for every value of the constants that satisfies the named assumptions
(`SeqModAssumption`, `BufferAssumption`, `SessionAssumption`, `HttpdAssumption`, `NtpAssumption`,
`ConnAssumption`, `ClockAssumption`, `BlockAssumption`, `MirrorAssumption`,
`SizeAssumption`, `LengthAssumption`, `CharacterAssumption`, `RequestAssumption`). `LengthAssumption` only says that `BufferSizes` reaches far enough. The last two say that the texts are made of
characters that are not the model's own marks, that those the requests of `Program` use are among them, and that the requests
of a connection bear different numbers.

Three arguments need the least number of a set or an induction over data: the first held packet of a window, the doubling of an allocation, and above
all what the parser makes of a read. The library's induction theorems take an operator as a parameter and cannot be used. But the least-number principle can be had
from `WFMin`, whose parameters are sets: `LeastLength` and, for sets in the place of predicates, `UpTo` (`HttpRequestProofs`). `{n \in Nat : P(n)}` holds 0 and, with
a number, the next one; so it holds all of them. Recursive functions over a read are treated the same way: that `Parsed` obeys its own definition is a lemma
(`ParsedIsDefined`), not taken for granted.

* **RaopBufferProofs.** `BufInv` = type, RingMatchesWindow, LastIsHeld, UnfilledOwnsNothing is
  inductive: that a slot holds only a number of the window follows only with the window's size, and the size only because the last
  packet is held. One lemma per operation, over lemmas of wrapped arithmetic (two numbers of one window in one slot are equal, because the
  length divides `SeqMod`). From it: type, RingMatchesWindow, LastIsHeld and NoPayloadLost. ResendsAskWhatIsMissing needs that
  `ResendCount`'s CHOOSE finds the first held packet, which is the least number of a non-empty set of naturals. RingImplementsWindow is the refinement of
  `PlayoutWindow`: under the mapping each operation of the ring is an operation of the abstract window, for every length.
* **RaopRtpProofs.** `LifeInv` says who may use the session at each point of its life (why `joined` exists);
  with it stop has the buffer alone, start overwrites nothing, a session is freed after its thread, and the session
  implements the safety part of `Worker`. `MailboxInv` says a volume that left the mailbox is in the thread's copy
  until it is applied: NoVolumeLost. The composed system keeps the buffer's invariant, and so plays through the abstract window
  (SessionPlaysThroughWindow), which moves only forward but for a volume change (WindowAlwaysForward).
* **HttpdProofs.** `HttpdInv`: `LifeInv`; `TableInv`, the counter is the number of connected slots, and they hold the live handlers and open
  sockets; `PollInv`, a number in `rfds` that belongs to a connected slot was read for that session. All six invariants of the module and
  the safety of `Worker`.
* **RaopNtpProofs.** `RingInv`: the ring is what the last samples say, rotated;
  the offset in use is the best of them; life and `Worker` as above, and the thread never ends unasked. TimestampKeepsTime is
  about the operators alone: for every 64-bit time, what comes out of a timestamp is the time that went in, less at most a microsecond and less the whole spans of 2^32 seconds that `htonl` cuts off; nothing is
  cut off until the seconds since 1900 fill 32 bits.
* **RaopRtpMirrorProofs.** Life as above. Framing, for every header and payload length: `FrameInv` says what has been read of which frame
  at a boundary, in a header and in a payload, and what the sender has left of it. `KeyInv` says that the key bytes the receiver has not used yet, the rest of the last
  block and then the next blocks, start where the sender is: modular arithmetic over every block and stream length.
* **RaopConnProofs.** `OrderInv`: the status is never finished, and what each stage of an orderly client implies of the
  pairing session, FairPlay and the connection. `CallsInv`: at each point of a handler, which calls are left, and that each is on a service that
  exists. `Accounted`: a service that lives is pointed at or superseded, and its clock lives unless the connection is ending. For every number of SETUPs. From
  CallsInv: a handler calls no service that was not made or was destroyed (CallsOnlyLiveServices), and after a TEARDOWN audio does not play (TeardownAlwaysEndsAudio). HandlersComeToAnEnd is what HandlersReturn
  owes to no scheduler: a handler, conn_destroy included, has at most seven steps of its own left (`StepsLeft`), each of them leaves fewer, and no step of another thread or of the client leaves more.
* **HttpRequestProofs.** What the callbacks make of reads, for requests of any number of headers and texts of any length. A run of the parser is a function from
  the number of units read to the parser's state; what a unit does to the state at hand depends only on the request, the part it is in and the text not yet
  reported (`Ahead`, `Flush`). CutsDoNotMatter: two reads of the pieces of a stream give what one read of the whole gives, errors included, because `Extend` of two pieces is `Extend` of
  their concatenation, whichever of them is empty (`ExtendTwice`, `ReportTwice`). WholeRequest: the unit sequence of a method, a url, any headers and a body
  leaves exactly that request, by induction over the headers. Then what the dialogue below needs: a request on its way is not complete before its last unit (`WhileItComes`) and
  reading on is reading at once (`ReadsOn`). For streams of any requests: `Sized`, headers come in pairs and `headers_index` is among them, is kept by every
  read of a stream that keeps the grammar (`Grammar`), and each request completed uses up an end in the stream (`Lasts`).
* **ProgramProofs.** AnswersAlwaysFit: `FitsInv` says that every copy so far fitted and how much is in the response when a handler starts; the lemmas add up what a handler appends, for every CSeq
  with which the head fits (`HeadFits`); longer ones are in the model and ResponseFits promises nothing of them, while every other theorem of the module holds for them too. That
  the allocation doubles far enough is a least element again. AnnouncedAlwaysReady: `StartInv` orders the main thread's steps and says what
  follows from what a client has found and been told.
  HandlerAlwaysSeesWhatWasSent and AnswersAlwaysInOrder are about a client that waits. `PatientInv` says where its dialogue with the server stands (`Stands`): over; cut with
  nothing left to read; at rest; its last request on its way, when what is unread is the rest of that request's units and what is parsed is what its first units give (`Comes`); all there; or being answered.
  In each case it says how many requests are handled and answered. A read goes from `Comes` to `Comes` or `Came` by ReadsOn, and WholeRequest says what the handler then sees and which CSeq it finds.
  The same invariant gives WaitingClientIsNeverDropped, and what WaitingClientIsAnswered owes to no scheduler. NobodyWaitsForTheOther: while an answer is due, the
  server's next recv finds something to read. AnswersComeCloser: every step of the server's thread then brings the answer closer, in the lexicographic order of what the thread does (`Stage`)
  and how much of that is left (`Rest`), and the steps of the main thread and of the client change neither.
  ProgramIsTyped holds with any client. `Stream` counts: handled requests, the one at hand, and the ends still unread are together at most those sent. This is what makes `handled <= Len(sent)`
  inductive although two requests may be merged and one be cut anywhere. `Written` keeps `send` inside the answer.

Every safety property that a run checks is a theorem. Only model-checked: what needs fairness (MailboxIsServed, HandlersReturn, StopReturns of Httpd, WaitingClientIsAnswered, and the liveness part of `Worker` in
PlaysAsPromised and KeepsTimeAsPromised, whose safety part is proved), since ENABLED and fairness are out of the prover's reach. Of
HandlersReturn and WaitingClientIsAnswered the descent is proved, and what TLC adds is that the thread is scheduled and its next step enabled. The proofs take the model of llhttp (`Parse`) as it is, like everything marked external.

## 5. Not modelled

Cryptography, property lists, names and formatting; the contents of pictures and sound (parameter sets, NAL units); timestamps of
frames and RTP sync packets, which only become presentation times for the renderer; the dispersion in the
clock synchronisation, which nothing reads; the IPv6 branches (`use_ipv6 = 0`); the compiled-out Raspberry Pi
renderers; the options of `rpiplay.cpp`; `stop_server` and the unregistering, which nothing reaches; the logger, whose two locks are never held together.
A data race inside the AES context (SETUP of a running mirroring stream) is outside: a decryption is one step.

Of the 286,000 lines of the repository about 8,600 are its own. The rest is carried along: fdk-aac, libplist,
pthreads for Windows, llhttp, h264-bitstream, playfair, the decoders of Media Foundation samples. They are data processing or generated tables without a state of this
program, and a model of them would say nothing about it. So the share of all lines that the map names stays near one in a hundred, while of the code
that is the program's own, and keeps state, more than a third is translated.

Some hazards have no property, because the code does what one would not want and no sentence of the repository forbids it:
the flush number of a volume change (`raop_rtp.cpp:324`), a playout thread that ends by itself and leaves its sockets (`raop_rtp.cpp:436`), one failed `accept` (`httpd.cpp:146`), payloads shorter than a block's
rest (`mirror_buffer.cpp:113`), the clock freed first (`raop.cpp:232`), a second SETUP (`raop_handlers.h:379`), the refused second message of pair-verify (`pairing.cpp:131`). The
models reach all of these, and where a property would fail it names them as exceptions. The AES context replaced in use (`raop_handlers.h:415`) is a data race inside one step. The rounding of a
timestamp (`byteutils.cpp:104`) is covered by a theorem instead.

## 6. Plan

Done, in this order: RaopBuffer and PlayoutWindow; RaopRtp and Worker; Httpd; RaopNtp with NtpClock and
LocalClock; MirrorBuffer and RaopRtpMirror; RaopConn; Pairing (with FairPlay), which RaopConn composes; HttpRequest, HttpResponse and Program; proofs for all of them.

What could follow:

1. The pictures of the mirroring session: length-prefixed NAL units rewritten to start codes, and the parameter sets that precede the next frame.
2. `PartOfRequest` and `Request` of Httpd refined by Program, which now stands beside it with one client.
3. The RTP sync packets, if a property about presentation times is ever wanted.
