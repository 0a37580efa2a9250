---------------------------- MODULE HttpResponse ----------------------------
(***************************************************************************)
(* The buffer of a response, lib/http_response.cpp.  Only lengths matter:  *)
(* data_size is set once and never follows what is allocated.              *)
(***************************************************************************)
EXTENDS Integers

CONSTANTS
  DataSize,   \* data_size, 1024
  BufferSizes \* DataSize doubled again and again, as far as an int goes

ASSUME SizeAssumption == DataSize \in Nat \ {0} /\ BufferSizes \subseteq Nat

(* The loop of http_response_add_data that doubles newdatasize.            *)
NewDataSize_OfData(datalen) ==    \* mutation: what is there already is not counted
  CHOOSE m \in BufferSizes : m >= datalen /\ \A o \in BufferSizes : o >= datalen => m <= o
NewDataSize(datalen) ==
  LET enough == {m \in BufferSizes : DataSize + datalen <= m}
  IN  CHOOSE m \in enough : \A o \in enough : m <= o

(* http_response_add_data; fits remembers whether memcpy stayed inside.    *)
Add(response, datalen) ==
  LET Allocated(before) == IF NewDataSize(datalen) # DataSize THEN NewDataSize(datalen) ELSE before
  IN  [response EXCEPT !.allocated = Allocated(@),
                       !.data_length = @ + datalen,
                       !.fits = @ /\ response.data_length + datalen <= Allocated(response.allocated)]

(* http_response_init: "RTSP/1.0 200 OK" and the end of the line.          *)
EmptyResponse ==
  [data_length |-> 0, allocated |-> DataSize, fits |-> TRUE, disconnect |-> FALSE]
NewResponse == Add(Add(Add(Add(Add(Add(EmptyResponse, 8), 1), 3), 1), 2), 2)

(* http_response_add_header                                                *)
AddHeader(response, name, value) == Add(Add(Add(Add(response, name), 2), value), 2)

(* http_response_finish, with the digits that "%d" makes of the length.    *)
Digits(n) == IF n < 10 THEN 1 ELSE IF n < 100 THEN 2 ELSE IF n < 1000 THEN 3 ELSE 4
Finish(response, datalen) ==
  IF datalen > 0
    THEN Add(Add(Add(Add(Add(response, 14), 2), Digits(datalen)), 4), datalen)
    ELSE Add(response, 2)

(* http_response_set_disconnect                                            *)
SetDisconnect(response, disconnect) == [response EXCEPT !.disconnect = disconnect]
=============================================================================
