---------------------------- MODULE HttpRequest ----------------------------
(***************************************************************************)
(* How a request is put together from the pieces in which its bytes come,  *)
(* lib/http_request.cpp.  A text is a sequence of characters.  What the    *)
(* transport carries is a sequence of units: a character, tagged with the  *)
(* part of the request it belongs to, or the end of such a part.           *)
(***************************************************************************)
EXTENDS Integers, SequencesExt

CONSTANT Characters   \* of which texts are made; an abstract one may be a word

Nothing == <<>>      \* a null pointer where a text would be
NoMethod == "none"
Missing == <<NoMethod>>   \* a null pointer where an empty text could be as well

ASSUME CharacterAssumption == "end" \notin Characters /\ NoMethod \notin Characters

(* http_request_init                                                       *)
NewRequest ==
  [method |-> NoMethod, url |-> Nothing, headers |-> <<>>, headers_index |-> 0,
   data |-> Nothing, complete |-> FALSE, parser_method |-> NoMethod]

OnUrl_Replaces(request, text) ==    \* mutation: what an earlier piece left is lost
  [request EXCEPT !.url = text]
(* on_url                                                                  *)
OnUrl(request, text) == [request EXCEPT !.url = @ \o text]

(* The headers are names and values in turn, and headers_index the place   *)
(* of the one that grows; C counts the places from 0.                      *)
Extend(headers, index, text) == [headers EXCEPT ![index + 1] = @ \o text]

(* on_header_field: after a value a new pair begins.                       *)
OnHeaderField(request, text) ==
  LET i == request.headers_index + (request.headers_index % 2)
      headers == IF i = Len(request.headers) THEN request.headers \o <<Nothing, Nothing>>
                 ELSE request.headers
  IN  [request EXCEPT !.headers_index = i, !.headers = Extend(headers, i, text)]

(* on_header_value                                                         *)
OnHeaderValue(request, text) ==
  LET i == request.headers_index + 1 - (request.headers_index % 2)
  IN  [request EXCEPT !.headers_index = i, !.headers = Extend(@, i, text)]

(* on_body                                                                 *)
OnBody(request, text) == [request EXCEPT !.data = @ \o text]

(* on_message_complete                                                     *)
OnMessageComplete(request) ==
  [request EXCEPT !.method = request.parser_method, !.complete = TRUE]

GetHeader_Name(request, name) ==    \* mutation: the pair is taken from its first half
  LET places == {i \in 1 .. Len(request.headers) : i % 2 = 1 /\ request.headers[i] = name}
  IN  IF places = {} THEN Missing
      ELSE request.headers[CHOOSE i \in places : \A j \in places : i <= j]
(* http_request_get_header, which tells a header that is missing from an   *)
(* empty one.                                                              *)
GetHeader(request, name) ==
  LET places == {i \in 1 .. Len(request.headers) : i % 2 = 1 /\ request.headers[i] = name}
  IN  IF places = {} THEN Missing
      ELSE request.headers[1 + CHOOSE i \in places : \A j \in places : i <= j]
-----------------------------------------------------------------------------
(* llhttp, as http_request_add_data uses it, built in its loose mode.  A   *)
(* part that goes on in the next read is reported in two calls, and one    *)
(* that ends is reported even if nothing came since the last call, so that *)
(* an empty value is reported, too.  After a complete request it reads on  *)
(* into the same request.                                                  *)

Char(part, c) == [part |-> part, c |-> c, last |-> FALSE]
Chars(part, text) == [k \in 1 .. Len(text) |-> Char(part, text[k])]
End(part) == [part |-> part, c |-> "end", last |-> FALSE]

(* The bytes of a request as its client sends it.                          *)
Wire(r) ==
  LET header(h) == Chars("field", h[1]) \o <<End("field")>> \o Chars("value", h[2]) \o <<End("value")>>
      head == <<Char("method", r.method)>> \o Chars("url", r.url) \o <<End("url")>>
              \o FlattenSeq([k \in 1 .. Len(r.headers) |-> header(r.headers[k])])
              \o <<End("headers")>>
      all == head \o Chars("body", r.body)
  IN  [all EXCEPT ![Len(all)].last = TRUE]

Report(request, part, text) ==
  CASE part = "url" -> OnUrl(request, text)
    [] part = "field" -> OnHeaderField(request, text)
    [] part = "value" -> OnHeaderValue(request, text)
    [] part = "body" -> OnBody(request, text)
    [] OTHER -> request

(* One unit of a read: so far is the request, the open part's text and     *)
(* whether the parser stopped.  It skips ends of lines before the method,  *)
(* and finds an error in anything else there.                              *)
Fresh(request) == request.parser_method = NoMethod
LineEnd(unit) == unit.c = "end" /\ unit.part \in {"value", "headers"}
Parse(sofar, unit) ==
  LET text == IF unit.c = "end" THEN sofar.text ELSE Append(sofar.text, unit.c)
      ends == unit.c = "end" \/ unit.last
      request == CASE unit.part = "method" -> [sofar.request EXCEPT !.parser_method = unit.c]
                   [] unit.part # "method" /\ ends -> Report(sofar.request, unit.part, text)
                   [] OTHER -> sofar.request
  IN  CASE sofar.error \/ (Fresh(sofar.request) /\ LineEnd(unit)) -> sofar
        [] ~sofar.error /\ Fresh(sofar.request) /\ unit.part # "method" /\ ~LineEnd(unit) ->
             [sofar EXCEPT !.error = TRUE]
        [] OTHER ->
             [request |-> IF unit.last THEN OnMessageComplete(request) ELSE request,
              part |-> unit.part,
              text |-> IF ends \/ unit.part = "method" THEN <<>> ELSE text,
              error |-> FALSE]

(* http_request_add_data: what the callbacks made of the request when the  *)
(* whole of the read is parsed, and whether http_request_has_error.  (What *)
(* is parsed is the one element of a set, so that TLC has a value in hand  *)
(* where it decides ENABLED.)                                              *)
Parsed(request, read) ==
  LET parsed[k \in 0 .. Len(read)] ==
        IF k = 0
          THEN {[request |-> request, part |-> "none", text |-> <<>>, error |-> FALSE]}
          ELSE {Parse(p, read[k]) : p \in parsed[k - 1]}
  IN  parsed

AddData(request, read) ==
  LET after == CHOOSE p \in Parsed(request, read)[Len(read)] : TRUE
  IN  IF after.text = <<>> THEN after
      ELSE [after EXCEPT !.request = Report(@, after.part, after.text)]
=============================================================================
