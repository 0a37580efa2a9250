------------------------------ MODULE Program ------------------------------
(***************************************************************************)
(* The program from its start, rpiplay.cpp and lib/dnssd.cpp, and what it  *)
(* says to one client: the HTTP server's thread puts the client's requests *)
(* together from what recv returns, lib/http_request.cpp, has conn_request *)
(* of lib/raop.cpp answer them, lib/http_response.cpp, and sends the       *)
(* answers, lib/httpd.cpp, while the main thread is still starting up.     *)
(***************************************************************************)
EXTENDS HttpRequest, HttpResponse, FiniteSets

CONSTANTS
  MaxRequests,  \* bound: requests of one connection
  Numerals,     \* what their numbers are written with
  CSeqLengths,  \* how many characters a CSeq may have
  DataLengths,  \* the lengths of the data that answers carry
  HeaderValues, \* the lengths of the values of a handler's own headers
  SendLengths   \* how many bytes one send may take

(* The requests of a connection bear different numbers.                    *)
ASSUME RequestAssumption ==
  /\ MaxRequests \in Nat /\ Numerals \in [1 .. MaxRequests -> Characters]
  /\ \A m, n \in 1 .. MaxRequests : Numerals[m] = Numerals[n] => m = n
  /\ {"GET", "POST", "/", "info", "pair", "X", "Y", "z", "C", "Seq", "0", "a", "b"}
       \subseteq Characters

(* Doubling reaches every length that is ever added; the fixed ones, names *)
(* and the like, are 32 at most.                                           *)
ASSUME LengthAssumption ==
  /\ CSeqLengths \subseteq Nat \ {0} /\ HeaderValues \subseteq Nat \ {0}
  /\ DataLengths \subseteq Nat \ {0} /\ SendLengths \subseteq Nat \ {0}
  /\ \A n \in (1 .. 32) \union CSeqLengths \union HeaderValues \union DataLengths :
       \E m \in BufferSizes : DataSize + n <= m

VARIABLES
  main,       \* where the main thread is in start_server
  listening,  \* raop_start has succeeded
  dnssd,      \* raop->dnssd is set
  txt,        \* the airplay TXT record: "empty", "building" or "complete"
  announced,  \* the services that were registered
  conn,       \* of the client: "none", "open", "cut", "dropped" or "ended"
  request,    \* connection->request, or NoRequest
  thread,     \* where the server's thread is
  response,   \* the response being made or sent
  written,    \* how much of it was sent
  answer,     \* the request it answers, how long its CSeq is and what it says
  patient,    \* environment: the client waits for each answer
  found,      \* environment: what the client had found when it connected
  sent,       \* environment: the requests it has sent
  unread,     \* environment: what of them is still in the socket
  answers,    \* environment: the answers it received
  handled     \* history: how many requests came to conn_request

mainvars == <<main, listening, dnssd, txt, announced>>
clientvars == <<patient, found, sent, answers>>
answervars == <<response, written, answer>>
vars == <<mainvars, conn, request, thread, answervars, clientvars, unread, handled>>

NoRequest == [NewRequest EXCEPT !.complete = TRUE]   \* the null pointer
NoAnswer == [cseq |-> Nothing, length |-> 0, says |-> "nothing"]
Alive == main \notin {"exited", "crashed", "overrun"}

ProgramInit ==
  /\ main = "raop_start" /\ listening = FALSE /\ dnssd = FALSE
  /\ txt = "empty" /\ announced = {}
  /\ conn = "none" /\ request = NoRequest /\ thread = "select"
  /\ response = EmptyResponse /\ written = 0 /\ answer = NoAnswer
  /\ patient = TRUE /\ found = "nothing" /\ sent = <<>> /\ unread = <<>> /\ answers = <<>>
  /\ handled = 0
-----------------------------------------------------------------------------
(* The main thread, start_server of rpiplay.cpp.                           *)
RestOfMain == UNCHANGED <<conn, request, thread, answervars, clientvars, unread, handled>>

(* What raop_start returns is not looked at.                               *)
RaopStart ==
  /\ main = "raop_start" /\ main' = "dnssd_init"
  /\ listening' \in BOOLEAN
  /\ UNCHANGED <<dnssd, txt, announced>> /\ RestOfMain

DnssdInit ==
  /\ main = "dnssd_init" /\ main' \in {"set_dnssd", "exited"}
  /\ UNCHANGED <<listening, dnssd, txt, announced>> /\ RestOfMain

SetDnssd_Later ==             \* mutation: the service is announced first
  /\ main = "set_dnssd" /\ main' = "register_airplay"
  /\ announced' \in {announced, announced \union {"raop"}}
  /\ UNCHANGED <<listening, dnssd, txt>> /\ RestOfMain
SetDnssd ==
  /\ main = "set_dnssd" /\ main' = "register_raop"
  /\ dnssd' = TRUE
  /\ UNCHANGED <<listening, txt, announced>> /\ RestOfMain

(* dnssd_register_raop, which fails for a long name, for instance; what it *)
(* returns is not looked at.                                               *)
RegisterRaop ==
  /\ main = "register_raop" /\ main' = "register_airplay"
  /\ announced' \in {announced, announced \union {"raop"}}
  /\ UNCHANGED <<listening, dnssd, txt>> /\ RestOfMain

(* dnssd_register_airplay: the record that GET /info hands out is built,   *)
(* and then announced.                                                     *)
BuildRecord ==
  /\ main = "register_airplay" /\ main' = "build_record"
  /\ txt' = "building"
  /\ UNCHANGED <<listening, dnssd, announced>> /\ RestOfMain

RegisterAirplay ==
  /\ main = "build_record" /\ main' = "running"
  /\ txt' = "complete"
  /\ announced' \in {announced, announced \union {"airplay"}}
  /\ UNCHANGED <<listening, dnssd>> /\ RestOfMain

(* The address given to dnssd_register_airplay cannot be converted.        *)
RegisterFails ==
  /\ main = "register_airplay" /\ main' = "running"
  /\ UNCHANGED <<listening, dnssd, txt, announced>> /\ RestOfMain

Main ==
  \/ RaopStart \/ DnssdInit \/ SetDnssd \/ RegisterRaop \/ BuildRecord \/ RegisterAirplay
  \/ RegisterFails
-----------------------------------------------------------------------------
(* The client, which connects to the server's port, found by what is       *)
(* announced or known from before, and sends requests as AirPlay senders   *)
(* do, numbered by their CSeq; a request without one may come from others. *)
CSeq(n) == <<"0", Numerals[n]>>

Kinds == {"info", "post", "bare"}
RequestOf(kind, n) ==
  CASE kind = "info" ->
         [method |-> "GET", url |-> <<"/", "info">>, body |-> <<>>,
          headers |-> << <<<<"X">>, <<>>>>, <<<<"C", "Seq">>, CSeq(n)>> >>]
    [] kind = "post" ->
         [method |-> "POST", url |-> <<"/", "pair">>, body |-> <<"a", "b">>,
          headers |-> << <<<<"C", "Seq">>, CSeq(n)>>, <<<<"X", "Y">>, <<"z">>>> >>]
    [] kind = "bare" ->
         [method |-> "GET", url |-> <<"/", "info">>, body |-> <<>>, headers |-> <<>>]

(* httpd_accept_connection and conn_init.                                  *)
Connect ==
  /\ Alive /\ listening /\ conn \in {"none", "dropped", "ended"} /\ thread = "select"
  /\ conn' = "open" /\ request' = NoRequest
  /\ patient' \in BOOLEAN
  /\ found' = CASE announced = {} -> "nothing"
                [] announced = {"raop", "airplay"} -> "both"
                [] OTHER -> "one"
  /\ sent' = <<>> /\ unread' = <<>> /\ answers' = <<>> /\ handled' = 0
  /\ UNCHANGED <<mainvars, thread, answervars>>

Awaits == {n \in DOMAIN sent : sent[n] # "bare"}

Ask ==
  /\ conn = "open" /\ Len(sent) < MaxRequests
  /\ patient => Cardinality(Awaits) = Len(answers)
  /\ \E kind \in Kinds :
       /\ patient => kind # "bare"
       /\ sent' = Append(sent, kind)
       /\ unread' = unread \o Wire(RequestOf(kind, Len(sent) + 1))
  /\ UNCHANGED <<mainvars, conn, request, thread, answervars, patient, found, answers, handled>>

(* The client closes the connection, or the network loses it, with or      *)
(* without what is still on its way.                                       *)
Cut ==
  /\ conn = "open"
  /\ conn' = "cut" /\ unread' \in {unread, <<>>}
  /\ UNCHANGED <<mainvars, request, thread, answervars, clientvars, handled>>

Client == Connect \/ Ask \/ Cut
-----------------------------------------------------------------------------
(* The server's thread, lib/httpd.cpp.                                     *)

(* recv returns some of what came.                                         *)
Recv ==
  /\ thread = "select" /\ conn \in {"open", "cut"} /\ unread # <<>>
  /\ \E n \in 1 .. Len(unread) :
       /\ unread' = SubSeq(unread, n + 1, Len(unread))
       /\ \E after \in {AddData(IF request = NoRequest THEN NewRequest ELSE request,
                               SubSeq(unread, 1, n))} :
            IF after.error
              THEN conn' = "dropped" /\ request' = NoRequest /\ UNCHANGED thread
              ELSE /\ request' = after.request /\ UNCHANGED conn
                   /\ thread' = IF after.request.complete THEN "request" ELSE "select"
  /\ UNCHANGED <<mainvars, answervars, clientvars, handled>>

(* recv returns 0, or fails: llhttp_execute, given -1 as a length, reads   *)
(* on until it finds an error.                                             *)
RecvClosed ==
  /\ thread = "select" /\ conn = "cut" /\ unread = <<>>
  /\ conn' = "none" /\ request' = NoRequest
  /\ UNCHANGED <<mainvars, thread, answervars, clientvars, unread, handled>>

(* conn_request: a request without a CSeq gets no answer.                  *)
NoResponse ==
  /\ thread = "request" /\ GetHeader(request, <<"C", "Seq">>) = Missing
  /\ thread' = "select" /\ request' = NoRequest
  /\ handled' = handled + 1
  /\ UNCHANGED <<mainvars, conn, answervars, clientvars, unread>>

MakeResponse ==
  /\ thread = "request" /\ GetHeader(request, <<"C", "Seq">>) # Missing
  /\ thread' = "handler"
  /\ \E length \in CSeqLengths : \E begun \in {AddHeader(NewResponse, 4, length)} :
       /\ response' = AddHeader(begun, 6, 15)
       /\ answer' = [cseq |-> GetHeader(request, <<"C", "Seq">>), length |-> length,
                     says |-> "done"]
  /\ UNCHANGED <<mainvars, conn, request, written, clientvars, unread, handled>>

Respond(responded, datalen) ==
  /\ response' = Finish(responded, datalen)
  /\ thread' = "send" /\ written' = 0
  /\ request' = NoRequest /\ handled' = handled + 1

IsInfo == request.method = "GET" /\ request.url = <<"/", "info">>

(* raop_handler_info: a release build does not check dnssd.                *)
InfoCrashes ==
  /\ thread = "handler" /\ IsInfo /\ ~dnssd
  /\ main' = "crashed"
  /\ UNCHANGED <<listening, dnssd, txt, announced, conn, request, thread, answervars, clientvars,
                 unread, handled>>

HandleInfo ==
  /\ thread = "handler" /\ IsInfo /\ dnssd
  /\ answer' = [answer EXCEPT !.says = txt]
  /\ \E datalen \in DataLengths, typed \in {AddHeader(response, 12, 32)} : Respond(typed, datalen)
  /\ UNCHANGED <<mainvars, conn, clientvars, unread>>

(* The other handlers add up to two headers, whose names are 17 characters *)
(* long at most, and may end the connection.                               *)
OneMore(responded) ==
  {responded} \union {AddHeader(responded, 17, value) : value \in HeaderValues}

HandleOther ==
  /\ thread = "handler" /\ ~IsInfo
  /\ \E one \in OneMore(response) : \E two \in OneMore(one) :
       \E disconnect \in BOOLEAN, datalen \in DataLengths \union {0} :
         Respond(SetDisconnect(two, disconnect), datalen)
  /\ UNCHANGED <<mainvars, conn, answer, clientvars, unread>>

(* One send of the loop; the last one ends it.                             *)
Send_Beyond ==                \* mutation: the whole of the buffer counts as sent
  /\ thread = "send" /\ conn = "open"
  /\ \E length \in SendLengths :
       LET rest == response.data_length - written
       IN  /\ answers' = IF length >= rest THEN Append(answers, answer) ELSE answers
           /\ thread' = IF length >= rest THEN "close" ELSE "send"
           /\ written' = written + length
  /\ UNCHANGED <<mainvars, conn, request, response, answer, patient, found, sent, unread, handled>>
Send_Once ==                  \* mutation: what send did not take is forgotten
  /\ thread = "send" /\ conn = "open"
  /\ \E length \in SendLengths :
       LET rest == response.data_length - written
           ret == IF length < rest THEN length ELSE rest
       IN  /\ answers' = IF ret = rest THEN Append(answers, answer) ELSE answers
           /\ thread' = "close" /\ written' = written + ret
  /\ UNCHANGED <<mainvars, conn, request, response, answer, patient, found, sent, unread, handled>>
Send ==
  /\ thread = "send" /\ conn = "open"
  /\ \E length \in SendLengths :
       LET rest == response.data_length - written
           ret == IF length < rest THEN length ELSE rest
       IN  /\ answers' = IF ret = rest THEN Append(answers, answer) ELSE answers
           /\ thread' = IF ret = rest THEN "close" ELSE "send"
           /\ written' = written + ret
  /\ UNCHANGED <<mainvars, conn, request, response, answer, patient, found, sent, unread, handled>>

SendFails ==
  /\ thread = "send" /\ conn = "cut" /\ thread' = "close"
  /\ UNCHANGED <<mainvars, conn, request, answervars, clientvars, unread, handled>>

(* The connection is removed when the response says so; the next request   *)
(* starts anew in any case.                                                *)
Close ==
  /\ thread = "close" /\ thread' = "select"
  /\ IF response.disconnect THEN conn' = "ended" /\ unread' = <<>> ELSE UNCHANGED <<conn, unread>>
  /\ response' = EmptyResponse /\ answer' = NoAnswer /\ written' = 0
  /\ UNCHANGED <<mainvars, request, clientvars, handled>>

(* Something was copied beyond the end of the response's buffer, and from  *)
(* now on the program does not do what it would have done otherwise.       *)
HeapFails ==
  /\ ~response.fits
  /\ main' = "overrun"
  /\ UNCHANGED <<listening, dnssd, txt, announced>> /\ RestOfMain

Thread ==
  /\ Alive
  /\ \/ Recv \/ RecvClosed \/ NoResponse \/ MakeResponse \/ InfoCrashes \/ HandleInfo
     \/ HandleOther \/ Send \/ SendFails \/ Close \/ HeapFails

ProgramNext == Main \/ Client \/ Thread

(* The OS schedules the server's thread; nobody need ask anything.  But    *)
(* nothing says that the thread returns from a handler that joins another  *)
(* thread, from send when the client does not read, or from conn_destroy,  *)
(* which joins too.  What it does elsewhere does not block.                *)
Unhindered ==
  /\ Alive
  /\ \/ Recv /\ conn' # "dropped"
     \/ NoResponse \/ MakeResponse \/ InfoCrashes \/ HandleInfo
     \/ Close /\ ~response.disconnect
Hindered ==
  \/ thread = "handler" /\ ~IsInfo
  \/ thread = "send"
  \/ thread = "close" /\ response.disconnect

ProgramSpec == ProgramInit /\ [][ProgramNext]_vars /\ WF_vars(Unhindered)
-----------------------------------------------------------------------------
ProgramTypeOK ==
  /\ main \in {"raop_start", "dnssd_init", "set_dnssd", "register_raop", "register_airplay",
               "build_record", "running", "exited", "crashed", "overrun"}
  /\ listening \in BOOLEAN /\ dnssd \in BOOLEAN
  /\ txt \in {"empty", "building", "complete"} /\ announced \subseteq {"raop", "airplay"}
  /\ conn \in {"none", "open", "cut", "dropped", "ended"}
  /\ thread \in {"select", "request", "handler", "send", "close"}
  /\ Len(request.headers) % 2 = 0 /\ request.headers_index \in 0 .. Len(request.headers)
  /\ written \in 0 .. response.data_length
  /\ found \in {"nothing", "one", "both"} /\ patient \in BOOLEAN
  /\ sent \in Seq(Kinds) /\ handled \in 0 .. Len(sent)

(* Wherever the transport cuts a request into pieces, conn_request is      *)
(* given the one the client sent, its url, headers and body whole, as long *)
(* as the client waits for each answer.                                    *)
HandlerSeesWhatWasSent ==
  patient /\ thread \in {"request", "handler"} =>
    LET r == RequestOf(sent[handled + 1], handled + 1)
    IN  /\ request.method = r.method /\ request.url = r.url /\ request.data = r.body
        /\ Len(request.headers) = 2 * Len(r.headers)
        /\ \A k \in DOMAIN r.headers :
             request.headers[2 * k - 1] = r.headers[k][1] /\ request.headers[2 * k] = r.headers[k][2]

(* The answers a waiting client receives are those to its requests, in     *)
(* their order, each once and whole.                                       *)
AnswersInOrder ==
  patient => \A k \in DOMAIN answers : answers[k].cseq = CSeq(k) /\ k <= Len(sent)

(* Nothing is copied beyond the end of a response's buffer, although       *)
(* data_size stays 1024 while data_length grows, as long as the head is    *)
(* shorter than that.  With a longer CSeq, which the answer repeats as it  *)
(* came, http_response_add_data allocates less than is already there.      *)
HeadFits(cseqlength) ==
  /\ cseqlength + 122 <= DataSize
  /\ \A first, second \in HeaderValues : cseqlength + first + second + 116 <= DataSize
ResponseFits == HeadFits(answer.length) => response.fits

(* A client that found the server by its announcement comes late enough:   *)
(* GET /info finds dnssd, and with both services announced the whole       *)
(* record of the second.                                                   *)
AnnouncedMeansReady ==
  /\ main = "crashed" => found = "nothing"
  /\ found = "both" => \A k \in DOMAIN answers : answers[k].says \in {"done", "complete"}

(* A client that waits for each answer gets it, unless the connection is   *)
(* lost, or closed because a handler wants it, or the program ends, or a   *)
(* handler, a send or the end of the connection never returns: no request  *)
(* is dropped for the way its bytes arrived, and the server never turns    *)
(* back to select with an answer half sent.                                *)
Owed == conn = "open" /\ patient /\ Len(answers) < Len(sent)
WaitingClientIsAnswered ==
  Owed ~> Len(answers) = Len(sent) \/ conn \in {"cut", "ended"} \/ ~Alive \/ []Hindered
=============================================================================
