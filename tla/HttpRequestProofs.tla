------------------------- MODULE HttpRequestProofs -------------------------
(***************************************************************************)
(* How requests are put together, for requests of any length and for every *)
(* way to cut them into reads.                                             *)
(***************************************************************************)
EXTENDS HttpRequest, FiniteSetTheorems, TLAPS, WellFoundedInduction

(* The least-number principle, from the well-foundedness of < on Nat.      *)
LEMMA LengthOrder ==
  \E R : /\ IsWellFoundedOn(R, Nat)
         /\ \A x \in Nat : \A y \in Nat : y < x => <<y, x>> \in R
<1>1. IsWellFoundedOn(OpToRel(<, Nat), Nat)
  BY NatLessThanWellFounded, Zenon
<1>2. \A x \in Nat : \A y \in Nat : y < x => <<y, x>> \in OpToRel(<, Nat)
  BY Zenon DEF OpToRel
<1>3. QED
  BY <1>1, <1>2, Zenon

LEMMA LeastLength ==
  ASSUME NEW T \in SUBSET Nat, T # {}
  PROVE  \E x \in T : \A y \in T : x <= y
<1>1. PICK R : /\ IsWellFoundedOn(R, Nat)
               /\ \A x \in Nat : \A y \in Nat : y < x => <<y, x>> \in R
  BY LengthOrder, Zenon
<1>2. \E x \in T : \A y \in T : ~ (<<y, x>> \in R)
  BY <1>1, WFMin, Zenon
<1>3. \E x \in T : \A y \in T : ~ (y < x)
  BY <1>1, <1>2
<1>4. QED
  BY <1>3

(* Induction up to a bound, for a set of numbers in the place of a         *)
(* predicate.                                                              *)
LEMMA UpTo ==
  ASSUME NEW n \in Nat, NEW T, 0 \in T, \A k \in 0 .. n - 1 : k \in T => k + 1 \in T
  PROVE  0 .. n \subseteq T
<1> DEFINE missed == (0 .. n) \ T
<1>1. SUFFICES ASSUME missed # {} PROVE FALSE
  OBVIOUS
<1>2. missed \in SUBSET Nat
  OBVIOUS
<1>3. PICK least \in missed : \A y \in missed : least <= y
  <2> HIDE DEF missed
  <2> QED BY <1>1, <1>2, LeastLength
<1>4. least \in 1 .. n /\ least \notin T
  BY <1>3
<1>5. least - 1 \in T
  BY <1>3, <1>4
<1>6. QED
  BY <1>4, <1>5
-----------------------------------------------------------------------------
(* The parser's states while it goes through a read, one after each unit.  *)
Begin(request) == [request |-> request, part |-> "none", text |-> <<>>, error |-> FALSE]

IsRun(s, request, read) ==
  /\ s[0] = Begin(request)
  /\ \A k \in 1 .. Len(read) : s[k] = Parse(s[k - 1], read[k])

Flush(p) ==
  IF p.text = <<>> THEN p ELSE [p EXCEPT !.request = Report(@, p.part, p.text)]

ParseAll(S, unit) == {Parse(p, unit) : p \in S}

(* Parsed is a function that obeys its own definition.                     *)
LEMMA ParsedIsDefined ==
  ASSUME NEW request, NEW read, Len(read) \in Nat
  PROVE  Parsed(request, read) =
           [k \in 0 .. Len(read) |->
              IF k = 0 THEN {Begin(request)}
              ELSE ParseAll(Parsed(request, read)[k - 1], read[k])]
<1> DEFINE IsParsed(g, n) ==
             g = [k \in 0 .. n |-> IF k = 0 THEN {Begin(request)}
                                   ELSE ParseAll(g[k - 1], read[k])]
           T == {n \in Nat : \E g : IsParsed(g, n)}
<1>1. 0 \in T
  <2> DEFINE g == [k \in {0} |-> {Begin(request)}]
  <2>1. IsParsed(g, 0)
    OBVIOUS
  <2> HIDE DEF g, IsParsed
  <2>2. QED
    BY <2>1
<1>2. ASSUME NEW n \in Nat, n \in T PROVE n + 1 \in T
  <2>1. PICK g : IsParsed(g, n)
    BY <1>2
  <2> DEFINE h == [k \in 0 .. n + 1 |-> IF k = n + 1 THEN ParseAll(g[n], read[k]) ELSE g[k]]
  <2>2. \A k \in 0 .. n : g[k] = IF k = 0 THEN {Begin(request)}
                                 ELSE ParseAll(g[k - 1], read[k])
    BY <2>1
  <2>3. \A k \in 0 .. n + 1 : h[k] = IF k = 0 THEN {Begin(request)}
                                     ELSE ParseAll(h[k - 1], read[k])
    <3> SUFFICES ASSUME NEW k \in 0 .. n + 1
                 PROVE  h[k] = IF k = 0 THEN {Begin(request)}
                               ELSE ParseAll(h[k - 1], read[k])
      OBVIOUS
    <3>1. CASE k = n + 1
      BY <3>1
    <3>2. CASE k = 0
      BY <2>2, <3>2
    <3>3. CASE k \in 1 .. n
      BY <2>2, <3>3
    <3>4. QED
      BY <3>1, <3>2, <3>3
  <2>4. IsParsed(h, n + 1)
    <3>1. h = [k \in 0 .. n + 1 |-> h[k]]
      OBVIOUS
    <3> HIDE DEF h
    <3>2. QED
      BY <2>3, <3>1
  <2> HIDE DEF h, IsParsed
  <2>5. QED
    BY <2>4
<1>3. Len(read) \in T
  <2> HIDE DEF T
  <2>1. \A k \in 0 .. Len(read) - 1 : k \in T => k + 1 \in T
    BY <1>2
  <2>2. 0 .. Len(read) \subseteq T
    BY <1>1, <2>1, UpTo
  <2>3. QED
    BY <2>2
<1>4. \E g : IsParsed(g, Len(read))
  BY <1>3
<1>5. Parsed(request, read) = CHOOSE g : IsParsed(g, Len(read))
  BY Zenon DEF Parsed, Begin, ParseAll
<1> DEFINE P == Parsed(request, read)
<1>6. IsParsed(P, Len(read))
  <2> HIDE DEF IsParsed
  <2> QED BY <1>4, <1>5, Zenon
<1>7. QED
  BY <1>6, Zenon

LEMMA RunExists ==
  ASSUME NEW request, NEW read, Len(read) \in Nat
  PROVE  \E s : IsRun(s, request, read) /\ AddData(request, read) = Flush(s[Len(read)])
<1> DEFINE P == Parsed(request, read)
           s == [k \in 0 .. Len(read) |-> CHOOSE p \in P[k] : TRUE]
           T == {k \in 0 .. Len(read) : P[k] = {s[k]}}
<1>1. \A k \in 0 .. Len(read) :
         P[k] = IF k = 0 THEN {Begin(request)} ELSE ParseAll(P[k - 1], read[k])
  <2> DEFINE E(k) == IF k = 0 THEN {Begin(request)} ELSE ParseAll(P[k - 1], read[k])
  <2>1. P = [k \in 0 .. Len(read) |-> E(k)]
    BY ParsedIsDefined
  <2> HIDE DEF P
  <2>2. SUFFICES \A k \in 0 .. Len(read) : P[k] = E(k)
    BY Zenon
  <2> HIDE DEF E
  <2>3. QED
    BY <2>1
<1>2. 0 \in T /\ s[0] = Begin(request)
  <2>1. P[0] = {Begin(request)}
    BY <1>1
  <2> HIDE DEF P
  <2>2. QED
    BY <2>1
<1>3. ASSUME NEW k \in 0 .. Len(read) - 1, k \in T
      PROVE  k + 1 \in T /\ s[k + 1] = Parse(s[k], read[k + 1])
  <2>1. P[k + 1] = ParseAll(P[k], read[k + 1]) /\ P[k] = {s[k]}
    BY <1>1, <1>3
  <2> HIDE DEF P
  <2>2. P[k + 1] = {Parse(s[k], read[k + 1])}
    <3> HIDE DEF s
    <3> QED BY <2>1 DEF ParseAll
  <2>3. s[k + 1] = CHOOSE p \in P[k + 1] : TRUE
    OBVIOUS
  <2>4. s[k + 1] = Parse(s[k], read[k + 1])
    <3> HIDE DEF s
    <3> QED BY <2>2, <2>3
  <2>5. QED
    <3> HIDE DEF s
    <3> QED BY <2>2, <2>4
<1>4. 0 .. Len(read) \subseteq T
  <2> HIDE DEF T
  <2> QED BY <1>2, <1>3, UpTo
<1>5. IsRun(s, request, read)
  <2>1. ASSUME NEW k \in 1 .. Len(read) PROVE s[k] = Parse(s[k - 1], read[k])
    <3> HIDE DEF s, T
    <3>1. k - 1 \in 0 .. Len(read) - 1 /\ k - 1 \in T
      BY <1>4
    <3>2. s[(k - 1) + 1] = Parse(s[k - 1], read[(k - 1) + 1])
      BY <1>3, <3>1
    <3>3. QED
      BY <3>2
  <2> HIDE DEF s
  <2>2. QED
    BY <1>2, <2>1 DEF IsRun
<1>6. AddData(request, read) = Flush(s[Len(read)])
  <2>1. s[Len(read)] = CHOOSE p \in P[Len(read)] : TRUE
    OBVIOUS
  <2> HIDE DEF s
  <2>2. QED
    BY <2>1 DEF AddData, Flush
<1>7. QED
  <2> HIDE DEF s, P, T
  <2> QED BY <1>5, <1>6

-----------------------------------------------------------------------------
(* The types of what is parsed, and of the parser's states.                *)
Letters == Characters \union {"end", NoMethod}
Texts == Seq(Letters)
Parts == {"none", "method", "url", "field", "value", "headers", "body"}
Units == [part : Parts, c : Letters, last : BOOLEAN]
Requests ==
  [method : Letters, url : Texts, headers : Seq(Texts), headers_index : Nat,
   data : Texts, complete : BOOLEAN, parser_method : Letters]
States == [request : Requests, part : Parts, text : Texts, error : BOOLEAN]

LEMMA Assoc ==
  ASSUME NEW s \in Texts, NEW t \in Texts, NEW u \in Texts
  PROVE  (s \o t) \o u = s \o (t \o u)
BY DEF Texts

LEMMA Concat ==
  ASSUME NEW s \in Texts, NEW t \in Texts
  PROVE  s \o t \in Texts
BY DEF Texts

LEMMA ExtendIs ==
  ASSUME NEW headers \in Seq(Texts), NEW index \in Nat, NEW text \in Texts
  PROVE  /\ Extend(headers, index, text) \in Seq(Texts)
         /\ Len(Extend(headers, index, text)) = Len(headers)
         /\ \A i \in 1 .. Len(headers) :
              Extend(headers, index, text)[i] = IF i = index + 1 THEN headers[i] \o text ELSE headers[i]
<1>1. DOMAIN headers = 1 .. Len(headers) /\ Len(headers) \in Nat /\ \A i \in 1 .. Len(headers) : headers[i] \in Texts
  OBVIOUS
<1>2. \A i \in 1 .. Len(headers) : headers[i] \o text \in Texts
  BY <1>1, Concat
<1> DEFINE e == [i \in 1 .. Len(headers) |-> IF i = index + 1 THEN headers[i] \o text ELSE headers[i]]
<1>3. Extend(headers, index, text) = e
  <2>1. Extend(headers, index, text) =
          [i \in DOMAIN headers |-> IF i = index + 1 THEN headers[index + 1] \o text ELSE headers[i]]
    BY Zenon DEF Extend
  <2>2. QED
    BY <1>1, <2>1
<1>4. e \in Seq(Texts) /\ Len(e) = Len(headers)
  BY <1>1, <1>2
<1>5. QED
  BY <1>3, <1>4

(* A header extended twice is extended once with both texts.               *)
LEMMA ExtendTwice ==
  ASSUME NEW headers \in Seq(Texts), NEW index \in Nat, NEW s \in Texts, NEW t \in Texts
  PROVE  Extend(Extend(headers, index, s), index, t) = Extend(headers, index, s \o t)
<1> DEFINE one == Extend(headers, index, s)
           two == Extend(one, index, t)
           all == Extend(headers, index, s \o t)
<1>0. s \o t \in Texts
  BY Concat
<1>1. /\ one \in Seq(Texts) /\ Len(one) = Len(headers)
      /\ all \in Seq(Texts) /\ Len(all) = Len(headers)
  BY <1>0, ExtendIs
<1>2. two \in Seq(Texts) /\ Len(two) = Len(headers)
  <2> HIDE DEF one
  <2> QED BY <1>1, ExtendIs
<1>3. ASSUME NEW i \in 1 .. Len(headers) PROVE two[i] = all[i]
  <2>1. headers[i] \in Texts
    OBVIOUS
  <2>2. (headers[i] \o s) \o t = headers[i] \o (s \o t)
    BY <2>1, Assoc, Zenon
  <2>3. /\ one[i] = IF i = index + 1 THEN headers[i] \o s ELSE headers[i]
        /\ all[i] = IF i = index + 1 THEN headers[i] \o (s \o t) ELSE headers[i]
    BY <1>0, ExtendIs
  <2>4. two[i] = IF i = index + 1 THEN one[i] \o t ELSE one[i]
    <3> HIDE DEF one
    <3>1. \A j \in 1 .. Len(one) : two[j] = IF j = index + 1 THEN one[j] \o t ELSE one[j]
      BY <1>1, ExtendIs, Zenon
    <3>2. QED
      BY <1>1, <3>1
  <2> HIDE DEF one, two, all
  <2>5. CASE i = index + 1
    BY <2>2, <2>3, <2>4, <2>5
  <2>6. CASE i # index + 1
    BY <2>3, <2>4, <2>6
  <2>7. QED
    BY <2>5, <2>6
<1>4. QED
  <2> HIDE DEF one, two, all
  <2>1. two = all
    BY <1>1, <1>2, <1>3
  <2>2. QED
    BY <2>1 DEF one, two, all

LEMMA ReportTyped ==
  ASSUME NEW r \in Requests, NEW part, NEW text \in Texts
  PROVE  /\ Report(r, part, text) \in Requests
         /\ Report(r, part, text).parser_method = r.parser_method
         /\ Report(r, part, text).complete = r.complete
         /\ Report(r, part, text).method = r.method
<1> DEFINE q == Report(r, part, text)
<1>1. /\ r.url \in Texts /\ r.data \in Texts /\ r.headers \in Seq(Texts) /\ r.headers_index \in Nat
      /\ r.method \in Letters /\ r.complete \in BOOLEAN /\ r.parser_method \in Letters
  BY DEF Requests
<1>2. r.url \o text \in Texts /\ r.data \o text \in Texts
  BY <1>1, Concat
<1>3. CASE part = "url"
  BY <1>1, <1>2, <1>3 DEF Report, OnUrl, Requests
<1>4. CASE part = "field"
  <2> DEFINE i == r.headers_index + (r.headers_index % 2)
             headers == IF i = Len(r.headers) THEN r.headers \o <<Nothing, Nothing>> ELSE r.headers
             after == Extend(headers, i, text)
  <2>1. i \in Nat
    BY <1>1
  <2>2. headers \in Seq(Texts)
    <3>1. <<Nothing, Nothing>> \in Seq(Texts)
      BY DEF Nothing, Texts
    <3> HIDE DEF i
    <3>2. QED
      BY <1>1, <3>1
  <2>3. after \in Seq(Texts)
    <3> HIDE DEF i, headers
    <3> QED BY <2>1, <2>2, ExtendIs
  <2>4. q = [r EXCEPT !.headers_index = i, !.headers = after]
    BY <1>4, Zenon DEF Report, OnHeaderField
  <2> HIDE DEF i, after, q
  <2>5. QED
    BY <1>1, <2>1, <2>3, <2>4 DEF Requests, q
<1>5. CASE part = "value"
  <2> DEFINE i == r.headers_index + 1 - (r.headers_index % 2)
             after == Extend(r.headers, i, text)
  <2>1. i \in Nat
    BY <1>1
  <2>2. after \in Seq(Texts)
    <3> HIDE DEF i
    <3> QED BY <1>1, <2>1, ExtendIs
  <2>3. q = [r EXCEPT !.headers_index = i, !.headers = after]
    BY <1>5 DEF Report, OnHeaderValue
  <2> HIDE DEF i, after, q
  <2>4. QED
    BY <1>1, <2>1, <2>2, <2>3 DEF Requests, q
<1>6. CASE part = "body"
  BY <1>1, <1>2, <1>6 DEF Report, OnBody, Requests
<1>7. CASE part \notin {"url", "field", "value", "body"}
  BY <1>7 DEF Report
<1>8. QED
  BY <1>3, <1>4, <1>5, <1>6, <1>7

(* What the callbacks make of a text does not depend on where it is cut.   *)
LEMMA ReportTwice ==
  ASSUME NEW r \in Requests, NEW part, NEW s \in Texts, NEW t \in Texts
  PROVE  Report(Report(r, part, s), part, t) = Report(r, part, s \o t)
<1>1. /\ r.url \in Texts /\ r.data \in Texts /\ r.headers \in Seq(Texts) /\ r.headers_index \in Nat
  BY DEF Requests
<1>2. CASE part = "url"
  <2>1. (r.url \o s) \o t = r.url \o (s \o t)
    BY <1>1, Assoc, Zenon
  <2>2. QED
    BY <1>2, <2>1 DEF Report, OnUrl, Requests
<1>3. CASE part = "body"
  <2>1. (r.data \o s) \o t = r.data \o (s \o t)
    BY <1>1, Assoc, Zenon
  <2>2. QED
    BY <1>3, <2>1 DEF Report, OnBody, Requests
<1>4. CASE part = "field"
  <2> DEFINE i == r.headers_index + (r.headers_index % 2)
             headers == IF i = Len(r.headers) THEN r.headers \o <<Nothing, Nothing>> ELSE r.headers
             once == [r EXCEPT !.headers_index = i, !.headers = Extend(headers, i, s)]
             after == Extend(headers, i, s \o t)
  <2>1. i \in Nat /\ i % 2 = 0 /\ i + (i % 2) = i
    BY <1>1
  <2>2. headers \in Seq(Texts) /\ Len(headers) # i
    <3>1. <<Nothing, Nothing>> \in Seq(Texts) /\ Len(<<Nothing, Nothing>>) = 2
      BY DEF Nothing, Texts
    <3> HIDE DEF i
    <3>2. QED
      BY <1>1, <3>1
  <2>3. Extend(Extend(headers, i, s), i, t) = after /\ Len(Extend(headers, i, s)) # i
    <3> HIDE DEF i, headers
    <3>1. Extend(Extend(headers, i, s), i, t) = after
      BY <2>1, <2>2, ExtendTwice, Zenon
    <3>2. Len(Extend(headers, i, s)) = Len(headers)
      BY <2>1, <2>2, ExtendIs, Zenon
    <3>3. QED
      BY <2>2, <3>1, <3>2
  <2>4. Report(r, part, s) = once
    BY <1>4, Zenon DEF Report, OnHeaderField
  <2>5. Report(r, part, s \o t) = [r EXCEPT !.headers_index = i, !.headers = after]
    BY <1>4, Zenon DEF Report, OnHeaderField
  <2>6. once.headers_index = i /\ once.headers = Extend(headers, i, s)
    <3> HIDE DEF i, headers
    <3> QED BY DEF Requests
  <2>7. Report(once, part, t) =
          [once EXCEPT !.headers_index = i, !.headers = Extend(Extend(headers, i, s), i, t)]
    <3> HIDE DEF once, i, headers
    <3> QED BY <1>4, <2>1, <2>3, <2>6 DEF Report, OnHeaderField
  <2>8. QED
    <3> HIDE DEF i, headers, after
    <3> QED BY <2>3, <2>4, <2>5, <2>7
<1>5. CASE part = "value"
  <2> DEFINE i == r.headers_index + 1 - (r.headers_index % 2)
             once == [r EXCEPT !.headers_index = i, !.headers = Extend(@, i, s)]
             after == Extend(r.headers, i, s \o t)
  <2>1. i \in Nat /\ i + 1 - (i % 2) = i
    BY <1>1
  <2>2. Extend(Extend(r.headers, i, s), i, t) = after
    <3> HIDE DEF i
    <3> QED BY <1>1, <2>1, ExtendTwice
  <2>3. Report(r, part, s) = once
    BY <1>5 DEF Report, OnHeaderValue
  <2>4. Report(r, part, s \o t) = [r EXCEPT !.headers_index = i, !.headers = after]
    BY <1>5 DEF Report, OnHeaderValue
  <2>5. once.headers_index = i /\ once.headers = Extend(r.headers, i, s)
    <3> HIDE DEF i
    <3> QED BY DEF Requests
  <2>6. Report(once, part, t) =
          [once EXCEPT !.headers_index = i, !.headers = Extend(Extend(r.headers, i, s), i, t)]
    <3> HIDE DEF once, i
    <3> QED BY <1>5, <2>1, <2>5 DEF Report, OnHeaderValue
  <2>7. QED
    <3> HIDE DEF i, after
    <3> QED BY <2>2, <2>3, <2>4, <2>6
<1>6. CASE part \notin {"url", "field", "value", "body"}
  BY <1>6 DEF Report
<1>7. QED
  BY <1>2, <1>3, <1>4, <1>5, <1>6

-----------------------------------------------------------------------------
(* What the parser makes of one unit, case by case.                        *)
Skips(p, unit) == p.error \/ (Fresh(p.request) /\ LineEnd(unit))
Stops(p, unit) == ~p.error /\ Fresh(p.request) /\ unit.part # "method" /\ ~LineEnd(unit)
Ends(unit) == unit.c = "end" \/ unit.last
Marked(request, unit) == IF unit.last THEN OnMessageComplete(request) ELSE request
With(text, unit) == IF unit.c = "end" THEN text ELSE Append(text, unit.c)

LEMMA ParseCases ==
  ASSUME NEW p \in States, NEW unit \in Units
  PROVE  /\ Skips(p, unit) => Parse(p, unit) = p
         /\ Stops(p, unit) => Parse(p, unit) = [p EXCEPT !.error = TRUE]
         /\ ~Skips(p, unit) /\ unit.part = "method" =>
              Parse(p, unit) =
                [request |-> Marked([p.request EXCEPT !.parser_method = unit.c], unit),
                 part |-> "method", text |-> <<>>, error |-> FALSE]
         /\ ~Skips(p, unit) /\ ~Stops(p, unit) /\ unit.part # "method" /\ Ends(unit) =>
              Parse(p, unit) =
                [request |-> Marked(Report(p.request, unit.part, With(p.text, unit)), unit),
                 part |-> unit.part, text |-> <<>>, error |-> FALSE]
         /\ ~Skips(p, unit) /\ ~Stops(p, unit) /\ unit.part # "method" /\ ~Ends(unit) =>
              Parse(p, unit) =
                [request |-> p.request, part |-> unit.part, text |-> Append(p.text, unit.c),
                 error |-> FALSE]
<1> USE DEF Skips, Stops, Ends, Marked, With
<1>0. unit.last \in BOOLEAN /\ p.error \in BOOLEAN
  BY DEF Units, States
<1>1. Skips(p, unit) => Parse(p, unit) = p
  BY <1>0 DEF Parse
<1>2. Stops(p, unit) => Parse(p, unit) = [p EXCEPT !.error = TRUE]
  BY <1>0 DEF Parse
<1>3. ~Skips(p, unit) /\ unit.part = "method" =>
        Parse(p, unit) =
          [request |-> Marked([p.request EXCEPT !.parser_method = unit.c], unit),
           part |-> "method", text |-> <<>>, error |-> FALSE]
  BY <1>0 DEF Parse
<1>4. ~Skips(p, unit) /\ ~Stops(p, unit) /\ unit.part # "method" /\ Ends(unit) =>
        Parse(p, unit) =
          [request |-> Marked(Report(p.request, unit.part, With(p.text, unit)), unit),
           part |-> unit.part, text |-> <<>>, error |-> FALSE]
  BY <1>0 DEF Parse
<1>5. ~Skips(p, unit) /\ ~Stops(p, unit) /\ unit.part # "method" /\ ~Ends(unit) =>
        Parse(p, unit) =
          [request |-> p.request, part |-> unit.part, text |-> Append(p.text, unit.c),
           error |-> FALSE]
  BY <1>0 DEF Parse
<1>6. QED
  BY <1>1, <1>2, <1>3, <1>4, <1>5, Zenon

LEMMA MarkedTyped ==
  ASSUME NEW r \in Requests, NEW unit \in Units
  PROVE  Marked(r, unit) \in Requests /\ Marked(r, unit).parser_method = r.parser_method
BY DEF Marked, OnMessageComplete, Requests, Units

LEMMA AppendIs ==
  ASSUME NEW S, NEW s \in Seq(S), NEW e \in S
  PROVE  /\ Append(s, e) \in Seq(S) /\ Append(s, e) # <<>> /\ Len(Append(s, e)) = Len(s) + 1
         /\ Append(s, e)[Len(s) + 1] = e /\ \A k \in 1 .. Len(s) : Append(s, e)[k] = s[k]
OBVIOUS

LEMMA AppendTyped ==
  ASSUME NEW text \in Texts, NEW c \in Letters
  PROVE  Append(text, c) \in Texts /\ Append(text, c) # <<>>
<1>1. text \in Seq(Letters)
  BY DEF Texts
<1>2. Append(text, c) \in Seq(Letters) /\ Append(text, c) # <<>>
  BY <1>1, AppendIs, Zenon
<1>3. QED
  BY <1>2 DEF Texts

LEMMA ConcatAppend ==
  ASSUME NEW before \in Texts, NEW text \in Texts, NEW c \in Letters
  PROVE  Append(before \o text, c) = before \o Append(text, c)
BY DEF Texts

LEMMA NoText == <<>> \in Texts
BY DEF Texts

LEMMA WithTyped ==
  ASSUME NEW text \in Texts, NEW unit \in Units
  PROVE  /\ With(text, unit) \in Texts
         /\ Append(text, unit.c) \in Texts
         /\ Append(text, unit.c) # <<>>
         /\ \A before \in Texts : /\ With(before \o text, unit) = before \o With(text, unit)
                                  /\ Append(before \o text, unit.c) = before \o Append(text, unit.c)
<1>1. unit.c \in Letters
  BY DEF Units
<1>2. Append(text, unit.c) \in Texts /\ Append(text, unit.c) # <<>>
  BY <1>1, AppendTyped
<1>3. \A before \in Texts : Append(before \o text, unit.c) = before \o Append(text, unit.c)
  BY <1>1, ConcatAppend, Zenon
<1>4. QED
  BY <1>2, <1>3 DEF With

LEMMA ParseTyped ==
  ASSUME NEW p \in States, NEW unit \in Units
  PROVE  Parse(p, unit) \in States
<1>1. /\ p.request \in Requests /\ p.part \in Parts /\ p.text \in Texts /\ p.error \in BOOLEAN
      /\ unit.part \in Parts /\ unit.c \in Letters /\ unit.last \in BOOLEAN
  BY DEF States, Units
<1>2. CASE Skips(p, unit)
  BY <1>2, ParseCases
<1>3. CASE Stops(p, unit)
  <2>1. Parse(p, unit) = [p EXCEPT !.error = TRUE]
    BY <1>3, ParseCases, Zenon
  <2>2. QED
    BY <2>1 DEF States
<1>4. CASE ~Skips(p, unit) /\ unit.part = "method"
  <2>1. [p.request EXCEPT !.parser_method = unit.c] \in Requests
    BY <1>1 DEF Requests
  <2> DEFINE r == Marked([p.request EXCEPT !.parser_method = unit.c], unit)
  <2>2. r \in Requests
    BY <2>1, MarkedTyped
  <2>3. Parse(p, unit) = [request |-> r, part |-> "method", text |-> <<>>, error |-> FALSE]
    BY <1>4, ParseCases, Zenon
  <2> HIDE DEF r
  <2>4. QED
    BY <2>2, <2>3, NoText DEF States, Parts
<1>5. CASE ~Skips(p, unit) /\ ~Stops(p, unit) /\ unit.part # "method" /\ Ends(unit)
  <2> DEFINE r == Marked(Report(p.request, unit.part, With(p.text, unit)), unit)
  <2>1. r \in Requests
    BY <1>1, MarkedTyped, ReportTyped, WithTyped
  <2>2. Parse(p, unit) = [request |-> r, part |-> unit.part, text |-> <<>>, error |-> FALSE]
    BY <1>5, ParseCases, Zenon
  <2> HIDE DEF r
  <2>3. QED
    BY <1>1, <2>1, <2>2, NoText DEF States
<1>6. CASE ~Skips(p, unit) /\ ~Stops(p, unit) /\ unit.part # "method" /\ ~Ends(unit)
  <2>1. Append(p.text, unit.c) \in Texts
    BY <1>1, WithTyped
  <2>2. Parse(p, unit) =
          [request |-> p.request, part |-> unit.part, text |-> Append(p.text, unit.c), error |-> FALSE]
    BY <1>6, ParseCases, Zenon
  <2>3. QED
    BY <1>1, <2>1, <2>2 DEF States
<1>7. QED
  BY <1>2, <1>3, <1>4, <1>5, <1>6 DEF Stops

(* Each of the parser's states is one, and an error is final.              *)
LEMMA RunTyped ==
  ASSUME NEW r \in Requests, NEW read \in Seq(Units), NEW s, IsRun(s, r, read)
  PROVE  \A k \in 0 .. Len(read) : s[k] \in States
<1> DEFINE T == {k \in 0 .. Len(read) : s[k] \in States}
<1>1. 0 \in T
  <2>1. Begin(r) \in States
    BY NoText DEF Begin, States, Parts
  <2>2. QED
    BY <2>1 DEF IsRun
<1>2. ASSUME NEW k \in 0 .. Len(read) - 1, k \in T PROVE k + 1 \in T
  <2>1. s[k + 1] = Parse(s[k], read[k + 1])
    BY DEF IsRun
  <2>2. read[k + 1] \in Units /\ s[k] \in States
    BY <1>2
  <2>3. QED
    BY <2>1, <2>2, ParseTyped
<1>3. 0 .. Len(read) \subseteq T
  <2> HIDE DEF T
  <2>1. \A k \in 0 .. Len(read) - 1 : k \in T => k + 1 \in T
    BY <1>2
  <2>2. QED
    BY <1>1, <2>1, UpTo
<1>4. QED
  BY <1>3

LEMMA FlushTyped ==
  ASSUME NEW p \in States
  PROVE  /\ Flush(p) \in States /\ Flush(p).error = p.error
         /\ Flush(p).request = IF p.text = <<>> THEN p.request ELSE Report(p.request, p.part, p.text)
<1>1. p.request \in Requests /\ p.text \in Texts
  BY DEF States
<1>2. Report(p.request, p.part, p.text) \in Requests
  BY <1>1, ReportTyped
<1>3. QED
  BY <1>2 DEF Flush, States

LEMMA AddDataTyped ==
  ASSUME NEW r \in Requests, NEW read \in Seq(Units)
  PROVE  AddData(r, read) \in States
<1>1. PICK s : IsRun(s, r, read) /\ AddData(r, read) = Flush(s[Len(read)])
  BY RunExists
<1>2. s[Len(read)] \in States
  BY <1>1, RunTyped
<1>3. QED
  BY <1>1, <1>2, FlushTyped
-----------------------------------------------------------------------------
(* The parts of a stream: a text goes on in its part until it ends.        *)
Open(unit) == unit.c # "end" /\ ~unit.last /\ unit.part # "method"
Joined(read) == \A k \in 1 .. Len(read) - 1 : Open(read[k]) => read[k + 1].part = read[k].part

(* While a text is pending its part goes on, in a request that has begun.  *)
Pending(p, unit) ==
  ~p.error /\ p.text # <<>> => p.part = unit.part /\ Open(unit) /\ ~Fresh(p.request)

LEMMA PendingStep ==
  ASSUME NEW p \in States, NEW unit \in Units, ~p.error /\ p.text # <<>> => ~Fresh(p.request)
  PROVE  Pending(Parse(p, unit), unit)
<1>1. unit.last \in BOOLEAN /\ p.error \in BOOLEAN
  BY DEF States, Units
<1>2. CASE Skips(p, unit)
  BY <1>2, ParseCases DEF Pending, Skips
<1>3. CASE Stops(p, unit)
  BY <1>3, ParseCases DEF Pending, States
<1>4. CASE ~Skips(p, unit) /\ unit.part = "method"
  <2>1. Parse(p, unit).text = <<>>
    <3> DEFINE r == Marked([p.request EXCEPT !.parser_method = unit.c], unit)
    <3>1. Parse(p, unit) = [request |-> r, part |-> "method", text |-> <<>>, error |-> FALSE]
      BY <1>4, ParseCases, Zenon
    <3> HIDE DEF r
    <3>2. QED
      BY <3>1
  <2>2. QED
    BY <2>1 DEF Pending
<1>5. CASE ~Skips(p, unit) /\ ~Stops(p, unit) /\ unit.part # "method" /\ Ends(unit)
  <2>1. Parse(p, unit).text = <<>>
    <3> DEFINE r == Marked(Report(p.request, unit.part, With(p.text, unit)), unit)
    <3>1. Parse(p, unit) = [request |-> r, part |-> unit.part, text |-> <<>>, error |-> FALSE]
      BY <1>5, ParseCases, Zenon
    <3> HIDE DEF r
    <3>2. QED
      BY <3>1
  <2>2. QED
    BY <2>1 DEF Pending
<1>6. CASE ~Skips(p, unit) /\ ~Stops(p, unit) /\ unit.part # "method" /\ ~Ends(unit)
  <2>1. ~Fresh(p.request)
    BY <1>1, <1>6 DEF Skips, Stops
  <2>2. Open(unit)
    BY <1>6 DEF Open, Ends
  <2>3. QED
    <3>1. Parse(p, unit).request = p.request /\ Parse(p, unit).part = unit.part
      <4>1. Parse(p, unit) = [request |-> p.request, part |-> unit.part,
                              text |-> Append(p.text, unit.c), error |-> FALSE]
        BY <1>6, ParseCases, Zenon
      <4>2. QED
        BY <4>1
    <3>2. QED
      BY <2>1, <2>2, <3>1 DEF Pending
<1>7. QED
  BY <1>2, <1>3, <1>4, <1>5, <1>6 DEF Stops

-----------------------------------------------------------------------------
(* p has gone on where q began anew: what p still holds back of a text,    *)
(* q's request was already given.                                          *)
Ahead(p, q) ==
  /\ p.error = q.error
  /\ ~p.error =>
       \E t \in Texts :
         /\ p.text = t \o q.text
         /\ q.request = IF t = <<>> THEN p.request ELSE Report(p.request, p.part, t)

LEMMA AheadFlushed ==
  ASSUME NEW p \in States, NEW q \in States, Ahead(p, q), p.part = q.part \/ q.text = <<>>
  PROVE  ~p.error => Flush(p).request = Flush(q).request
<1> SUFFICES ASSUME ~p.error PROVE Flush(p).request = Flush(q).request
  OBVIOUS
<1>1. p.request \in Requests /\ p.text \in Texts /\ q.text \in Texts
  BY DEF States
<1>2. PICK t \in Texts : /\ p.text = t \o q.text
                         /\ q.request = IF t = <<>> THEN p.request ELSE Report(p.request, p.part, t)
  BY DEF Ahead
<1>3. CASE t = <<>>
  <2>1. p.text = q.text
    BY <1>1, <1>2, <1>3 DEF Texts
  <2>2. QED
    BY <1>2, <1>3, <2>1, FlushTyped
<1>4. CASE t # <<>> /\ q.text = <<>>
  <2>1. p.text = t
    BY <1>1, <1>2, <1>4 DEF Texts
  <2>2. QED
    BY <1>2, <1>4, <2>1, FlushTyped
<1>5. CASE t # <<>> /\ q.text # <<>>
  <2>1. p.text # <<>>
    BY <1>1, <1>2, <1>5 DEF Texts
  <2>2. Report(q.request, p.part, q.text) = Report(p.request, p.part, p.text)
    BY <1>1, <1>2, <1>5, ReportTwice
  <2>3. QED
    BY <1>5, <2>1, <2>2, FlushTyped
<1>6. QED
  BY <1>3, <1>4, <1>5

LEMMA AheadStep ==
  ASSUME NEW p \in States, NEW q \in States, NEW unit \in Units, Ahead(p, q),
         ~p.error /\ p.text # <<>> => p.part = unit.part /\ unit.part # "method" /\ ~Fresh(p.request)
  PROVE  Ahead(Parse(p, unit), Parse(q, unit))
<1>0. /\ p.request \in Requests /\ p.text \in Texts /\ p.error \in BOOLEAN
      /\ q.request \in Requests /\ q.text \in Texts /\ q.error = p.error
      /\ unit.last \in BOOLEAN
  BY DEF States, Units, Ahead
<1>1. CASE p.error
  <2>1. Parse(p, unit) = p /\ Parse(q, unit) = q
    BY <1>0, <1>1, ParseCases DEF Skips
  <2>2. QED
    BY <2>1
<1>2. CASE ~p.error
  <2>1. PICK t \in Texts : /\ p.text = t \o q.text
                           /\ q.request = IF t = <<>> THEN p.request ELSE Report(p.request, p.part, t)
    BY <1>2 DEF Ahead
  <2>2. q.request.parser_method = p.request.parser_method
    BY <1>0, <2>1, ReportTyped
  <2>3. (Skips(p, unit) <=> Skips(q, unit)) /\ (Stops(p, unit) <=> Stops(q, unit))
    BY <1>0, <2>2 DEF Skips, Stops, Fresh
  <2>4. t # <<>> => p.text # <<>>
    BY <1>0, <2>1 DEF Texts
  <2>5. CASE Skips(p, unit)
    BY <2>3, <2>5, ParseCases
  <2>6. CASE Stops(p, unit)
    <3>0. Parse(p, unit) = [p EXCEPT !.error = TRUE] /\ Parse(q, unit) = [q EXCEPT !.error = TRUE]
      BY <2>3, <2>6, ParseCases, Zenon
    <3>1. Parse(p, unit).error = TRUE /\ Parse(q, unit).error = TRUE
      BY <3>0 DEF States
    <3>2. QED
      BY <3>1 DEF Ahead
  <2>7. CASE ~Skips(p, unit) /\ unit.part = "method"
    <3>1. p.text = <<>> /\ t = <<>>
      BY <1>2, <2>4, <2>7
    <3>2. q.request = p.request
      BY <2>1, <3>1
    <3>3. Parse(p, unit) = Parse(q, unit) /\ Parse(p, unit).text = <<>>
      <4> DEFINE r == Marked([p.request EXCEPT !.parser_method = unit.c], unit)
      <4>1. Parse(p, unit) = [request |-> r, part |-> "method", text |-> <<>>, error |-> FALSE]
        BY <2>7, ParseCases, Zenon
      <4>2. Parse(q, unit) = [request |-> r, part |-> "method", text |-> <<>>, error |-> FALSE]
        <5>1. Parse(q, unit) =
                [request |-> Marked([q.request EXCEPT !.parser_method = unit.c], unit),
                 part |-> "method", text |-> <<>>, error |-> FALSE]
          BY <2>3, <2>7, ParseCases, Zenon
        <5>2. QED
          BY <3>2, <5>1, Zenon
      <4> HIDE DEF r
      <4>3. QED
        BY <4>1, <4>2
    <3>4. <<>> \o <<>> = <<>>
      OBVIOUS
    <3>5. QED
      BY <3>3, <3>4, NoText, Zenon DEF Ahead
  <2>8. CASE ~Skips(p, unit) /\ ~Stops(p, unit) /\ unit.part # "method" /\ Ends(unit)
    <3> DEFINE T == With(p.text, unit)
               U == With(q.text, unit)
    <3>1. T \in Texts /\ U \in Texts /\ T = t \o U
      <4>1. T \in Texts /\ U \in Texts
        BY <1>0, WithTyped, Zenon
      <4>2. With(t \o q.text, unit) = t \o With(q.text, unit)
        BY <1>0, <2>1, WithTyped, Zenon
      <4>3. QED
        BY <2>1, <4>1, <4>2
    <3>2. Report(p.request, unit.part, T) = Report(q.request, unit.part, U)
      <4>1. CASE t = <<>>
        <5>1. T = U
          <6> HIDE DEF T, U
          <6> QED BY <3>1, <4>1 DEF Texts
        <5> HIDE DEF T, U
        <5>2. QED
          BY <2>1, <4>1, <5>1
      <4>2. CASE t # <<>>
        <5>1. q.request = Report(p.request, unit.part, t)
          BY <1>2, <2>1, <2>4, <4>2
        <5> HIDE DEF T, U
        <5>2. QED
          BY <1>0, <3>1, <5>1, ReportTwice
      <4>3. QED
        BY <4>1, <4>2
    <3>3. Parse(p, unit) = [request |-> Marked(Report(p.request, unit.part, T), unit),
                            part |-> unit.part, text |-> <<>>, error |-> FALSE]
      BY <2>8, ParseCases, Zenon
    <3>4. Parse(q, unit) = [request |-> Marked(Report(q.request, unit.part, U), unit),
                            part |-> unit.part, text |-> <<>>, error |-> FALSE]
      BY <2>3, <2>8, ParseCases, Zenon
    <3> HIDE DEF T, U
    <3>5. Parse(p, unit) = Parse(q, unit)
      BY <3>2, <3>3, <3>4, Zenon
    <3>6. Parse(p, unit).text = <<>>
      <4> DEFINE r == Marked(Report(p.request, unit.part, T), unit)
      <4>1. Parse(p, unit) = [request |-> r, part |-> unit.part, text |-> <<>>, error |-> FALSE]
        BY <3>3
      <4> HIDE DEF r
      <4>2. QED
        BY <4>1
    <3>7. <<>> \o <<>> = <<>>
      OBVIOUS
    <3>8. QED
      BY <3>5, <3>6, <3>7, NoText, Zenon DEF Ahead
  <2>9. CASE ~Skips(p, unit) /\ ~Stops(p, unit) /\ unit.part # "method" /\ ~Ends(unit)
    <3>1. Parse(p, unit) = [request |-> p.request, part |-> unit.part,
                            text |-> Append(p.text, unit.c), error |-> FALSE]
      BY <2>9, ParseCases, Zenon
    <3>2. Parse(q, unit) = [request |-> q.request, part |-> unit.part,
                            text |-> Append(q.text, unit.c), error |-> FALSE]
      BY <2>3, <2>9, ParseCases, Zenon
    <3>3. Append(p.text, unit.c) = t \o Append(q.text, unit.c)
      <4>1. Append(t \o q.text, unit.c) = t \o Append(q.text, unit.c)
        BY <1>0, <2>1, WithTyped, Zenon
      <4>2. QED
        BY <2>1, <4>1
    <3>4. q.request = IF t = <<>> THEN p.request ELSE Report(p.request, unit.part, t)
      BY <1>2, <2>1, <2>4
    <3>5. /\ Parse(p, unit).request = p.request /\ Parse(p, unit).part = unit.part
          /\ Parse(p, unit).text = Append(p.text, unit.c) /\ Parse(p, unit).error = FALSE
      BY <3>1
    <3>6. /\ Parse(q, unit).request = q.request
          /\ Parse(q, unit).text = Append(q.text, unit.c) /\ Parse(q, unit).error = FALSE
      BY <3>2
    <3>7. QED
      BY <3>3, <3>4, <3>5, <3>6, Zenon DEF Ahead
  <2>10. QED
    BY <2>5, <2>6, <2>7, <2>8, <2>9 DEF Stops
<1>3. QED
  BY <1>1, <1>2

LEMMA RunPending ==
  ASSUME NEW r \in Requests, NEW read \in Seq(Units), NEW s, IsRun(s, r, read), Joined(read)
  PROVE  \A k \in 0 .. Len(read) :
           ~s[k].error /\ s[k].text # <<>> => k > 0 /\ Pending(s[k], read[k])
<1> DEFINE T == {k \in 0 .. Len(read) :
                   ~s[k].error /\ s[k].text # <<>> => k > 0 /\ Pending(s[k], read[k])}
<1>1. 0 \in T
  BY DEF IsRun, Begin
<1>2. ASSUME NEW k \in 0 .. Len(read) - 1, k \in T PROVE k + 1 \in T
  <2>1. s[k + 1] = Parse(s[k], read[k + 1]) /\ read[k + 1] \in Units /\ s[k] \in States
    BY RunTyped DEF IsRun
  <2>2. ~s[k].error /\ s[k].text # <<>> => ~Fresh(s[k].request)
    BY <1>2 DEF Pending
  <2>3. Pending(s[k + 1], read[k + 1])
    BY <2>1, <2>2, PendingStep
  <2>4. QED
    BY <2>3
<1>3. 0 .. Len(read) \subseteq T
  <2> HIDE DEF T
  <2>1. \A k \in 0 .. Len(read) - 1 : k \in T => k + 1 \in T
    BY <1>2
  <2>2. QED
    BY <1>1, <2>1, UpTo
<1>4. QED
  BY <1>3

(* Wherever a stream is cut into reads, the request is the same as if it   *)
(* had come in one.                                                        *)
THEOREM CutsDoNotMatter ==
  ASSUME NEW r \in Requests, NEW a \in Seq(Units), NEW b \in Seq(Units), Joined(a \o b),
         ~AddData(r, a).error
  PROVE  LET whole == AddData(r, a \o b)
             rest == AddData(AddData(r, a).request, b)
         IN  /\ rest.error = whole.error
             /\ ~whole.error => rest.request = whole.request
<1> DEFINE n == Len(a)
           c == a \o b
           m == AddData(r, a).request
<1>1. /\ n \in Nat /\ Len(b) \in Nat /\ c \in Seq(Units) /\ Len(c) = n + Len(b)
      /\ \A k \in 1 .. n : c[k] = a[k]
      /\ \A k \in 1 .. Len(b) : c[n + k] = b[k]
  OBVIOUS
<1>2. m \in Requests
  BY AddDataTyped DEF States
<1> HIDE DEF c, m
<1>3. PICK s : IsRun(s, r, c) /\ AddData(r, c) = Flush(s[Len(c)])
  <2>1. Len(c) \in Nat
    BY <1>1
  <2>2. QED
    BY <2>1, RunExists, Zenon
<1>4. PICK u : IsRun(u, r, a) /\ AddData(r, a) = Flush(u[n])
  BY <1>1, RunExists
<1>5. PICK v : IsRun(v, m, b) /\ AddData(m, b) = Flush(v[Len(b)])
  BY <1>1, RunExists
<1>6. u[n] = s[n]
  <2> DEFINE T == {k \in 0 .. n : u[k] = s[k]}
  <2>1. 0 \in T
    BY <1>1, <1>3, <1>4 DEF IsRun
  <2>2. ASSUME NEW k \in 0 .. n - 1, k \in T PROVE k + 1 \in T
    <3>1. u[k + 1] = Parse(u[k], a[k + 1]) /\ s[k + 1] = Parse(s[k], c[k + 1])
      BY <1>1, <1>3, <1>4 DEF IsRun
    <3>2. QED
      BY <1>1, <2>2, <3>1
  <2>3. 0 .. n \subseteq T
    <3> HIDE DEF T, n
    <3>1. \A k \in 0 .. n - 1 : k \in T => k + 1 \in T
      BY <2>2
    <3>2. QED
      BY <1>1, <2>1, <3>1, UpTo
  <2>4. n \in 0 .. n
    BY <1>1
  <2>5. QED
    BY <2>3, <2>4
<1>7. \A k \in 0 .. Len(c) : s[k] \in States
  BY <1>1, <1>3, RunTyped
<1>8. \A k \in 0 .. Len(b) : v[k] \in States
  BY <1>2, <1>5, RunTyped
<1>9. Joined(c)
  BY DEF c
<1>10. \A k \in 0 .. Len(c) : ~s[k].error /\ s[k].text # <<>> => k > 0 /\ Pending(s[k], c[k])
  BY <1>1, <1>3, <1>9, RunPending
<1> DEFINE T == {k \in 0 .. Len(b) : Ahead(s[n + k], v[k])}
<1>11. 0 \in T
  <2>1. s[n] \in States
    BY <1>1, <1>7
  <2>2. m = IF s[n].text = <<>> THEN s[n].request ELSE Report(s[n].request, s[n].part, s[n].text)
    BY <1>4, <1>6, <2>1, FlushTyped DEF m
  <2>3. ~s[n].error
    BY <1>4, <1>6, <2>1, FlushTyped
  <2>4. v[0].request = m /\ v[0].text = <<>> /\ v[0].error = FALSE
    BY <1>5 DEF IsRun, Begin
  <2>5. s[n].text \in Texts /\ s[n].error \in BOOLEAN
    BY <2>1 DEF States
  <2>6. s[n].text = s[n].text \o v[0].text
    BY <2>4, <2>5 DEF Texts
  <2>7. Ahead(s[n], v[0])
    BY <2>2, <2>3, <2>4, <2>5, <2>6 DEF Ahead
  <2>8. QED
    BY <1>1, <2>7
<1>12. ASSUME NEW k \in 0 .. Len(b) - 1, k \in T PROVE k + 1 \in T
  <2> DEFINE p == s[n + k]
             q == v[k]
             unit == b[k + 1]
  <2>1. p \in States /\ q \in States /\ unit \in Units /\ Ahead(p, q)
    BY <1>1, <1>7, <1>8, <1>12
  <2>2. s[n + (k + 1)] = Parse(p, unit) /\ v[k + 1] = Parse(q, unit)
    <3>1. n + k + 1 \in 1 .. Len(c) /\ c[n + k + 1] = unit
      <4>1. k + 1 \in 1 .. Len(b)
        BY <1>1
      <4>2. c[n + (k + 1)] = b[k + 1]
        BY <1>1, <4>1, Zenon
      <4>3. n + (k + 1) = n + k + 1 /\ n + k + 1 \in 1 .. Len(c)
        BY <1>1
      <4>4. QED
        BY <4>2, <4>3
    <3>2. s[n + k + 1] = Parse(s[n + k + 1 - 1], c[n + k + 1])
      BY <1>3, <3>1 DEF IsRun
    <3>3. v[k + 1] = Parse(v[k + 1 - 1], b[k + 1])
      BY <1>1, <1>5 DEF IsRun
    <3>4. n + k + 1 - 1 = n + k /\ k + 1 - 1 = k /\ n + (k + 1) = n + k + 1
      BY <1>1
    <3>5. QED
      BY <3>1, <3>2, <3>3, <3>4
  <2>3. ~p.error /\ p.text # <<>> => p.part = unit.part /\ unit.part # "method" /\ ~Fresh(p.request)
    <3> SUFFICES ASSUME ~p.error, p.text # <<>>
                 PROVE  p.part = unit.part /\ unit.part # "method" /\ ~Fresh(p.request)
      OBVIOUS
    <3>1. n + k > 0 /\ Pending(p, c[n + k])
      BY <1>1, <1>10
    <3>2. p.part = c[n + k].part /\ Open(c[n + k]) /\ ~Fresh(p.request)
      BY <3>1 DEF Pending
    <3>3. c[n + k + 1].part = c[n + k].part /\ c[n + k + 1] = unit
      <4>1. k + 1 \in 1 .. Len(b) /\ n + k \in 1 .. Len(c) - 1 /\ n + (k + 1) = n + k + 1
        BY <1>1, <3>1
      <4>2. c[n + (k + 1)] = b[k + 1]
        BY <1>1, <4>1, Zenon
      <4>3. c[n + k + 1].part = c[n + k].part
        BY <1>9, <3>2, <4>1, Zenon DEF Joined
      <4>4. QED
        BY <4>1, <4>2, <4>3
    <3>4. QED
      BY <3>2, <3>3 DEF Open
  <2>4. Ahead(Parse(p, unit), Parse(q, unit))
    <3> HIDE DEF p, q, unit
    <3> QED BY <2>1, <2>3, AheadStep
  <2>5. QED
    BY <2>2, <2>4
<1>13. 0 .. Len(b) \subseteq T
  <2> HIDE DEF T
  <2>1. \A k \in 0 .. Len(b) - 1 : k \in T => k + 1 \in T
    BY <1>12
  <2>2. QED
    BY <1>1, <1>11, <2>1, UpTo
<1> DEFINE p == s[Len(c)]
           q == v[Len(b)]
<1>14. p \in States /\ q \in States /\ Ahead(p, q)
  BY <1>1, <1>7, <1>8, <1>13
<1>15. ~p.error => p.part = q.part \/ q.text = <<>>
  <2> SUFFICES ASSUME ~p.error, q.text # <<>> PROVE p.part = q.part
    OBVIOUS
  <2>1. \A k \in 1 .. Len(b) - 1 : Open(b[k]) => b[k + 1].part = b[k].part
    <3> TAKE k \in 1 .. Len(b) - 1
    <3>1. /\ k \in 1 .. Len(b) /\ k + 1 \in 1 .. Len(b)
          /\ n + k \in 1 .. Len(c) - 1 /\ n + (k + 1) = (n + k) + 1
      BY <1>1
    <3>2. c[n + k] = b[k] /\ c[n + (k + 1)] = b[k + 1]
      BY <1>1, <3>1, Zenon
    <3>3. Open(c[n + k]) => c[(n + k) + 1].part = c[n + k].part
      BY <1>9, <3>1, Zenon DEF Joined
    <3>4. QED
      BY <3>1, <3>2, <3>3
  <2>2. Joined(b)
    BY <2>1 DEF Joined
  <2>3. ~q.error
    BY <1>14 DEF Ahead
  <2>4. Len(b) > 0 /\ Pending(q, b[Len(b)])
    BY <1>1, <1>2, <1>5, <2>2, <2>3, RunPending
  <2>5. q.part = b[Len(b)].part
    BY <2>3, <2>4 DEF Pending
  <2>6. p.text # <<>>
    <3> HIDE DEF p, q
    <3>1. PICK t \in Texts : p.text = t \o q.text
      BY <1>14 DEF Ahead
    <3>2. q.text \in Texts
      BY <1>14 DEF States
    <3>3. QED
      BY <3>1, <3>2 DEF Texts
  <2>7. p.part = c[Len(c)].part
    BY <1>1, <1>10, <2>6 DEF Pending
  <2>8. c[Len(c)] = b[Len(b)]
    BY <1>1, <2>4
  <2>9. QED
    BY <2>5, <2>7, <2>8
<1>16. /\ AddData(r, c).error = p.error /\ AddData(m, b).error = q.error
       /\ AddData(r, c).request = Flush(p).request /\ AddData(m, b).request = Flush(q).request
  BY <1>3, <1>5, <1>14, FlushTyped
<1>17. p.error = q.error
  BY <1>14 DEF Ahead
<1>18. ~p.error => Flush(p).request = Flush(q).request
  <2> HIDE DEF p, q
  <2> QED BY <1>14, <1>15, AheadFlushed
<1>19. AddData(m, b).error = AddData(r, c).error
       /\ (~AddData(r, c).error => AddData(m, b).request = AddData(r, c).request)
  <2> HIDE DEF p, q
  <2> QED BY <1>16, <1>17, <1>18
<1>20. QED
  BY <1>19 DEF c, m

-----------------------------------------------------------------------------
(* What a request that begins, and reads that end where a part ends, give. *)
Words == Seq(Characters)
Closed(read) == read # <<>> => ~Open(read[Len(read)])

Gives(r, read, q) ==
  /\ read \in Seq(Units) /\ Joined(read) /\ Closed(read)
  /\ AddData(r, read).error = FALSE /\ AddData(r, read).request = q

LEMMA JoinedTwo ==
  ASSUME NEW a \in Seq(Units), NEW b \in Seq(Units), Joined(a), Closed(a), Joined(b), Closed(b)
  PROVE  a \o b \in Seq(Units) /\ Joined(a \o b) /\ Closed(a \o b)
<1> DEFINE c == a \o b
           n == Len(a)
<1>1. /\ n \in Nat /\ Len(b) \in Nat /\ c \in Seq(Units) /\ Len(c) = n + Len(b)
      /\ \A k \in 1 .. n : c[k] = a[k]
      /\ \A k \in n + 1 .. Len(c) : c[k] = b[k - n]
  OBVIOUS
<1>2. (a # <<>> <=> n # 0) /\ (b # <<>> <=> Len(b) # 0) /\ (c # <<>> <=> Len(c) # 0)
  OBVIOUS
<1> HIDE DEF c
<1>3. ASSUME NEW k \in 1 .. Len(c) - 1, Open(c[k]) PROVE c[k + 1].part = c[k].part
  <2>1. CASE k < n
    <3>1. k \in 1 .. n - 1 /\ k \in 1 .. n /\ k + 1 \in 1 .. n
      BY <1>1, <2>1
    <3>2. c[k] = a[k] /\ c[k + 1] = a[k + 1]
      BY <1>1, <3>1, Zenon
    <3>3. QED
      BY <1>3, <3>1, <3>2 DEF Joined
  <2>2. CASE k = n
    <3>1. n \in 1 .. n /\ c[k] = a[n] /\ a # <<>>
      BY <1>1, <1>2, <2>2
    <3>2. QED
      BY <1>3, <3>1, Zenon DEF Closed
  <2>3. CASE k > n
    <3>1. /\ k \in n + 1 .. Len(c) /\ k + 1 \in n + 1 .. Len(c)
          /\ k - n \in 1 .. Len(b) - 1 /\ (k + 1) - n = (k - n) + 1
      BY <1>1, <2>3
    <3>2. c[k] = b[k - n] /\ c[k + 1] = b[(k + 1) - n]
      BY <1>1, <3>1, Zenon
    <3>3. QED
      BY <1>3, <3>1, <3>2 DEF Joined
  <2>4. QED
    BY <1>1, <2>1, <2>2, <2>3
<1>4. Closed(c)
  <2>1. CASE Len(b) # 0
    <3>1. Len(c) \in n + 1 .. Len(c) /\ Len(c) - n = Len(b)
      BY <1>1, <2>1
    <3>2. c[Len(c)] = b[Len(b)]
      BY <1>1, <3>1, Zenon
    <3>3. QED
      BY <1>2, <2>1, <3>2 DEF Closed
  <2>2. CASE Len(b) = 0
    <3> SUFFICES ASSUME c # <<>> PROVE ~Open(c[Len(c)])
      BY DEF Closed
    <3>1. Len(c) = n /\ n \in 1 .. n
      BY <1>1, <1>2, <2>2
    <3>2. c[Len(c)] = a[n] /\ a # <<>>
      BY <1>1, <1>2, <3>1
    <3>3. QED
      BY <3>2 DEF Closed
  <2>3. QED
    BY <2>1, <2>2
<1>5. QED
  BY <1>1, <1>3, <1>4 DEF Joined, c

LEMMA GivesThen ==
  ASSUME NEW r \in Requests, NEW a, NEW q, Gives(r, a, q), NEW b, NEW t, Gives(q, b, t)
  PROVE  Gives(r, a \o b, t)
<1>1. a \o b \in Seq(Units) /\ Joined(a \o b) /\ Closed(a \o b)
  BY JoinedTwo DEF Gives
<1>2. LET whole == AddData(r, a \o b)
          rest == AddData(AddData(r, a).request, b)
      IN  /\ rest.error = whole.error
          /\ ~whole.error => rest.request = whole.request
  <2>1. a \in Seq(Units) /\ b \in Seq(Units) /\ ~AddData(r, a).error
    BY DEF Gives
  <2>2. QED
    BY <1>1, <2>1, CutsDoNotMatter, Zenon
<1>3. QED
  BY <1>1, <1>2 DEF Gives

LEMMA SubSeqNext ==
  ASSUME NEW S, NEW s \in Seq(S), NEW k \in 0 .. Len(s) - 1
  PROVE  Append(SubSeq(s, 1, k), s[k + 1]) = SubSeq(s, 1, k + 1)
OBVIOUS

LEMMA SubSeqNone ==
  ASSUME NEW S, NEW s \in Seq(S)
  PROVE  SubSeq(s, 1, 0) = <<>> /\ SubSeq(s, 1, Len(s)) = s
OBVIOUS

Spells(read, part, text) ==
  Len(text) <= Len(read) /\ \A k \in 1 .. Len(text) : read[k] = Char(part, text[k])

Gathered(p, r, text) == p.request = r /\ p.text = text /\ p.error = FALSE

(* The characters of a text gather until it ends.                          *)
LEMMA Gathers ==
  ASSUME NEW r \in Requests, ~Fresh(r), NEW part \in Parts, part # "method", NEW text \in Words,
         NEW read \in Seq(Units), Spells(read, part, text),
         NEW s, IsRun(s, r, read)
  PROVE  \A k \in 0 .. Len(text) : Gathered(s[k], r, SubSeq(text, 1, k))
<1>0. /\ Len(text) \in Nat /\ Len(read) \in Nat /\ text \in Seq(Characters)
      /\ Len(text) <= Len(read) /\ \A k \in 1 .. Len(text) : read[k] = Char(part, text[k])
  BY DEF Words, Spells
<1> DEFINE At(k) == Gathered(s[k], r, SubSeq(text, 1, k))
           T == {k \in 0 .. Len(text) : At(k)}
<1>1. 0 \in T
  <2>1. SubSeq(text, 1, 0) = <<>>
    BY <1>0, SubSeqNone
  <2>2. s[0].request = r /\ s[0].text = <<>> /\ s[0].error = FALSE
    BY DEF IsRun, Begin
  <2>3. At(0)
    BY <2>1, <2>2, Zenon DEF Gathered
  <2> HIDE DEF At
  <2>4. QED
    BY <1>0, <2>3
<1>2. ASSUME NEW k \in 0 .. Len(text) - 1, k \in T PROVE k + 1 \in T
  <2> DEFINE unit == read[k + 1]
  <2>1. k + 1 \in 1 .. Len(text) /\ k + 1 \in 1 .. Len(read) /\ (k + 1) - 1 = k
    BY <1>0
  <2>2. s[k + 1] = Parse(s[k], unit) /\ unit = Char(part, text[k + 1])
    <3>1. s[k + 1] = Parse(s[(k + 1) - 1], unit)
      BY <2>1, Zenon DEF IsRun
    <3>2. unit = Char(part, text[k + 1])
      BY <1>0, <2>1, Zenon
    <3> HIDE DEF unit
    <3>3. QED
      BY <2>1, <3>1, <3>2
  <2>3. /\ unit \in Units /\ unit.part = part /\ unit.c = text[k + 1] /\ unit.last = FALSE
        /\ text[k + 1] \in Characters
    BY <1>0, <2>1, <2>2 DEF Char
  <2>4. unit.c # "end"
    BY <2>3, CharacterAssumption DEF Letters
  <2>5. s[k] \in States /\ s[k].request = r /\ s[k].text = SubSeq(text, 1, k) /\ s[k].error = FALSE
    <3>1. k \in 0 .. Len(read) /\ At(k)
      BY <1>0, <1>2, <2>1
    <3>2. s[k] \in States
      BY <3>1, RunTyped
    <3>3. QED
      BY <3>1, <3>2, Zenon DEF Gathered
  <2>6. ~Skips(s[k], unit) /\ ~Stops(s[k], unit) /\ unit.part # "method" /\ ~Ends(unit)
    BY <2>3, <2>4, <2>5 DEF Skips, Stops, Ends
  <2>7. Parse(s[k], unit) = [request |-> s[k].request, part |-> unit.part,
                             text |-> Append(s[k].text, unit.c), error |-> FALSE]
    BY <2>3, <2>5, <2>6, ParseCases, Zenon
  <2>8. Append(SubSeq(text, 1, k), text[k + 1]) = SubSeq(text, 1, k + 1)
    BY <1>0, SubSeqNext
  <2>9. /\ s[k + 1].request = r /\ s[k + 1].error = FALSE
        /\ s[k + 1].text = Append(SubSeq(text, 1, k), text[k + 1])
    <3> HIDE DEF unit
    <3>1. s[k + 1] = [request |-> r, part |-> unit.part,
                      text |-> Append(SubSeq(text, 1, k), text[k + 1]), error |-> FALSE]
      BY <2>2, <2>3, <2>5, <2>7
    <3>2. QED
      BY <3>1
  <2>10. At(k + 1)
    BY <2>8, <2>9, Zenon DEF Gathered
  <2> HIDE DEF At
  <2>11. QED
    BY <2>1, <2>10
<1>3. 0 .. Len(text) \subseteq T
  <2> HIDE DEF T
  <2>1. \A k \in 0 .. Len(text) - 1 : k \in T => k + 1 \in T
    BY <1>2
  <2>2. QED
    BY <1>0, <1>1, <2>1, UpTo
<1>4. QED
  BY <1>3

(* A text and the unit that ends it are reported whole.                    *)
LEMMA PieceGives ==
  ASSUME NEW r \in Requests, ~Fresh(r), NEW part \in Parts, part # "method", NEW text \in Words,
         NEW read \in Seq(Units), Len(read) = Len(text) + 1, Spells(read, part, text),
         read[Len(read)].part = part, Ends(read[Len(read)])
  PROVE  Gives(r, read, Marked(Report(r, part, With(text, read[Len(read)])), read[Len(read)]))
<1> DEFINE n == Len(text)
           unit == read[n + 1]
           q == Marked(Report(r, part, With(text, unit)), unit)
<1>0. /\ n \in Nat /\ Len(read) = n + 1 /\ unit \in Units /\ unit.part = part /\ Ends(unit)
      /\ text \in Seq(Characters)
  BY DEF Words
<1>1. PICK s : IsRun(s, r, read) /\ AddData(r, read) = Flush(s[n + 1])
  <2>1. Len(read) \in Nat /\ Len(read) = n + 1
    BY <1>0
  <2>2. PICK s : IsRun(s, r, read) /\ AddData(r, read) = Flush(s[Len(read)])
    BY <2>1, RunExists, Zenon
  <2>3. QED
    BY <2>1, <2>2
<1>2. s[n].request = r /\ s[n].text = text /\ s[n].error = FALSE
  <2>1. \A k \in 0 .. n : Gathered(s[k], r, SubSeq(text, 1, k))
    BY <1>1, Gathers, Zenon
  <2>2. SubSeq(text, 1, n) = text
    BY <1>0, SubSeqNone
  <2>3. Gathered(s[n], r, SubSeq(text, 1, n))
    BY <1>0, <2>1
  <2>4. QED
    BY <2>2, <2>3, Zenon DEF Gathered
<1>3. s[n] \in States
  BY <1>0, <1>1, RunTyped
<1>4. s[n + 1] = Parse(s[n], unit)
  <2>1. n + 1 \in 1 .. Len(read) /\ (n + 1) - 1 = n
    BY <1>0
  <2>2. s[n + 1] = Parse(s[(n + 1) - 1], read[n + 1])
    BY <1>1, <2>1, Zenon DEF IsRun
  <2>3. QED
    BY <2>1, <2>2
<1>5. ~Skips(s[n], unit) /\ ~Stops(s[n], unit) /\ unit.part # "method"
  BY <1>0, <1>2 DEF Skips, Stops
<1>6. Parse(s[n], unit) = [request |-> q, part |-> part, text |-> <<>>, error |-> FALSE]
  <2>1. Parse(s[n], unit) =
          [request |-> Marked(Report(s[n].request, unit.part, With(s[n].text, unit)), unit),
           part |-> unit.part, text |-> <<>>, error |-> FALSE]
    BY <1>0, <1>3, <1>5, ParseCases, Zenon
  <2>2. unit.part = part
    BY <1>0
  <2> HIDE DEF unit, n
  <2>3. QED
    BY <1>2, <2>1, <2>2, Zenon
<1>7. AddData(r, read).error = FALSE /\ AddData(r, read).request = q
  <2> HIDE DEF q, unit, n
  <2>1. s[n + 1] = [request |-> q, part |-> part, text |-> <<>>, error |-> FALSE]
    BY <1>4, <1>6
  <2>2. QED
    BY <1>1, <2>1 DEF Flush
<1>8. Joined(read)
  <2>1. \A k \in 1 .. n : read[k].part = part
    <3> TAKE k \in 1 .. n
    <3>1. read[k] = Char(part, text[k])
      BY DEF Spells
    <3>2. QED
      BY <3>1 DEF Char
  <2>2. \A k \in 1 .. Len(read) - 1 : read[k].part = part /\ read[k + 1].part = part
    BY <1>0, <2>1
  <2>3. QED
    BY <2>2 DEF Joined
<1>9. Closed(read)
  BY <1>0 DEF Closed, Open, Ends
<1>10. QED
  BY <1>0, <1>7, <1>8, <1>9 DEF Gives

-----------------------------------------------------------------------------
(* What is sent of a request, piece by piece.                              *)
Messages ==
  [method : Characters, url : Words, headers : Seq(Words \X Words), body : Words]

Piece(part, text) == Chars(part, text) \o <<End(part)>>
EndMarked(read) == [read EXCEPT ![Len(read)].last = TRUE]

LEMMA AssocUnits ==
  ASSUME NEW a \in Seq(Units), NEW b \in Seq(Units), NEW c \in Seq(Units)
  PROVE  (a \o b) \o c = a \o (b \o c)
OBVIOUS

LEMMA ConcatUnits ==
  ASSUME NEW a \in Seq(Units), NEW b \in Seq(Units)
  PROVE  /\ a \o b \in Seq(Units) /\ Len(a \o b) = Len(a) + Len(b)
         /\ \A k \in 1 .. Len(a) : (a \o b)[k] = a[k]
         /\ \A k \in Len(a) + 1 .. Len(a) + Len(b) : (a \o b)[k] = b[k - Len(a)]
OBVIOUS

LEMMA OneUnit ==
  ASSUME NEW unit \in Units
  PROVE  <<unit>> \in Seq(Units) /\ Len(<<unit>>) = 1 /\ <<unit>>[1] = unit
OBVIOUS

LEMMA CharsTyped ==
  ASSUME NEW part \in Parts, NEW text \in Words
  PROVE  /\ Chars(part, text) \in Seq(Units) /\ Len(Chars(part, text)) = Len(text)
         /\ \A k \in 1 .. Len(text) : Chars(part, text)[k] = Char(part, text[k])
         /\ End(part) \in Units /\ Len(text) \in Nat
<1>1. Len(text) \in Nat /\ \A k \in 1 .. Len(text) : text[k] \in Letters
  BY CharacterAssumption DEF Words, Letters
<1>2. \A k \in 1 .. Len(text) : Char(part, text[k]) \in Units
  BY <1>1 DEF Char, Units
<1>3. End(part) \in Units
  BY CharacterAssumption DEF End, Units, Letters
<1>4. QED
  BY <1>1, <1>2, <1>3 DEF Chars

LEMMA EndedGives ==
  ASSUME NEW r \in Requests, ~Fresh(r), NEW part \in Parts, part # "method", NEW text \in Words
  PROVE  Gives(r, Piece(part, text), Report(r, part, text))
<1> DEFINE n == Len(text)
           a == Chars(part, text)
           b == <<End(part)>>
           read == a \o b
<1>1. /\ a \in Seq(Units) /\ Len(a) = n /\ n \in Nat
      /\ \A k \in 1 .. n : a[k] = Char(part, text[k])
      /\ b \in Seq(Units) /\ Len(b) = 1 /\ b[1] = End(part)
  BY CharsTyped, OneUnit
<1>2. /\ read \in Seq(Units) /\ Len(read) = n + 1
      /\ \A k \in 1 .. n : read[k] = a[k]
      /\ read[n + 1] = End(part)
  <2> HIDE DEF a, b
  <2>1. /\ read \in Seq(Units) /\ Len(read) = Len(a) + Len(b)
        /\ \A k \in 1 .. Len(a) : read[k] = a[k]
        /\ \A k \in Len(a) + 1 .. Len(a) + Len(b) : read[k] = b[k - Len(a)]
    BY <1>1, ConcatUnits
  <2> HIDE DEF read
  <2>2. QED
    BY <1>1, <2>1
<1> HIDE DEF read
<1>3. Spells(read, part, text)
  BY <1>1, <1>2 DEF Spells
<1> DEFINE unit == read[Len(read)]
<1>4. unit = End(part) /\ unit.part = part /\ unit.c = "end" /\ unit.last = FALSE
  BY <1>2 DEF End
<1>5. Gives(r, read, Marked(Report(r, part, With(text, unit)), unit))
  <2>1. unit.part = part /\ Ends(unit) /\ Len(read) = Len(text) + 1
    BY <1>2, <1>4 DEF Ends
  <2>2. QED
    BY <1>2, <1>3, <2>1, PieceGives
<1>6. Marked(Report(r, part, With(text, unit)), unit) = Report(r, part, text)
  <2> HIDE DEF unit
  <2>1. With(text, unit) = text
    BY <1>4 DEF With
  <2>2. QED
    BY <1>4, <2>1 DEF Marked
<1>7. QED
  BY <1>5, <1>6 DEF Piece, read

LEMMA NothingGives ==
  ASSUME NEW r \in Requests
  PROVE  Gives(r, <<>>, r)
<1> DEFINE none == <<>>
<1>1. none \in Seq(Units) /\ Len(none) = 0
  OBVIOUS
<1>2. PICK s : IsRun(s, r, none) /\ AddData(r, none) = Flush(s[Len(none)])
  <2>1. Len(none) \in Nat
    BY <1>1
  <2>2. QED
    BY <2>1, RunExists, Zenon
<1>3. s[0] = Begin(r) /\ AddData(r, none) = Flush(s[0])
  BY <1>1, <1>2 DEF IsRun
<1>4. AddData(r, none).error = FALSE /\ AddData(r, none).request = r
  BY <1>3 DEF Flush, Begin
<1>5. Joined(none) /\ Closed(none)
  BY <1>1 DEF Joined, Closed
<1>6. QED
  BY <1>1, <1>4, <1>5 DEF Gives

LEMMA MethodGives ==
  ASSUME NEW c \in Characters
  PROVE  Gives(NewRequest, <<Char("method", c)>>, [NewRequest EXCEPT !.parser_method = c])
<1> DEFINE unit == Char("method", c)
           read == <<unit>>
           q == [NewRequest EXCEPT !.parser_method = c]
<1>1. /\ NewRequest \in Requests /\ NewRequest.parser_method = NoMethod
      /\ unit \in Units /\ unit.part = "method" /\ unit.c = c /\ unit.last = FALSE /\ c # "end"
  <2>1. <<>> \in Seq(Texts) /\ <<>> \in Texts
    BY DEF Texts
  <2>2. NewRequest \in Requests /\ NewRequest.parser_method = NoMethod
    BY <2>1, CharacterAssumption DEF NewRequest, Requests, Nothing, NoMethod, Letters
  <2>3. QED
    BY <2>2, CharacterAssumption DEF Char, Units, Parts, Letters
<1>2. read \in Seq(Units) /\ Len(read) = 1 /\ read[1] = unit
  <2> HIDE DEF unit
  <2> QED BY <1>1, OneUnit
<1> HIDE DEF read
<1>3. PICK s : IsRun(s, NewRequest, read) /\ AddData(NewRequest, read) = Flush(s[1])
  <2>1. Len(read) \in Nat /\ Len(read) = 1
    BY <1>2
  <2>2. PICK s : IsRun(s, NewRequest, read) /\ AddData(NewRequest, read) = Flush(s[Len(read)])
    BY <2>1, RunExists, Zenon
  <2>3. QED
    BY <2>1, <2>2
<1>4. s[0] = Begin(NewRequest) /\ s[1] = Parse(s[0], unit)
  BY <1>2, <1>3 DEF IsRun
<1>5. s[0] \in States
  BY <1>1, <1>2, <1>3, RunTyped
<1>6. ~Skips(s[0], unit) /\ s[0].request = NewRequest
  BY <1>1, <1>4 DEF Skips, Begin, LineEnd
<1>7. AddData(NewRequest, read).error = FALSE /\ AddData(NewRequest, read).request = q
  <2> DEFINE marked == Marked([s[0].request EXCEPT !.parser_method = unit.c], unit)
  <2>1. Parse(s[0], unit) = [request |-> marked, part |-> "method", text |-> <<>>, error |-> FALSE]
    BY <1>1, <1>5, <1>6, ParseCases, Zenon
  <2>2. marked = q
    BY <1>1, <1>6 DEF Marked
  <2> HIDE DEF marked, q, unit
  <2>3. s[1] = [request |-> q, part |-> "method", text |-> <<>>, error |-> FALSE]
    BY <1>4, <2>1, <2>2
  <2>4. QED
    BY <1>3, <2>3 DEF Flush
<1>8. Joined(read) /\ Closed(read)
  BY <1>1, <1>2 DEF Joined, Closed, Open
<1>9. QED
  BY <1>2, <1>7, <1>8 DEF Gives, read
-----------------------------------------------------------------------------
(* What the callbacks make of a header.                                    *)
Even(r) ==
  /\ Len(r.headers) % 2 = 0
  /\ r.headers_index = IF Len(r.headers) = 0 THEN 0 ELSE Len(r.headers) - 1

LEMMA Parity ==
  ASSUME NEW n \in Nat, n % 2 = 0
  PROVE  /\ n + (n % 2) = n /\ n + 1 - (n % 2) = n + 1
         /\ n # 0 => (n - 1) + ((n - 1) % 2) = n /\ n - 1 \in Nat
OBVIOUS

LEMMA PairAdded ==
  ASSUME NEW r \in Requests, Even(r), NEW a \in Texts, NEW b \in Texts
  PROVE  Report(Report(r, "field", a), "value", b) =
           [r EXCEPT !.headers_index = Len(r.headers) + 1, !.headers = r.headers \o <<a, b>>]
<1> DEFINE n == Len(r.headers)
           headers == r.headers \o <<Nothing, Nothing>>
           one == Extend(headers, n, a)
           two == Extend(one, n + 1, b)
           all == r.headers \o <<a, b>>
           q == [r EXCEPT !.headers_index = n, !.headers = one]
<1>1. r.headers \in Seq(Texts) /\ n \in Nat /\ r.headers_index \in Nat
  BY DEF Requests
<1>2. /\ r.headers_index + (r.headers_index % 2) = n
      /\ n + 1 - (n % 2) = n + 1
  <2>1. n % 2 = 0
    BY DEF Even
  <2>2. CASE n = 0
    BY <2>2 DEF Even
  <2>3. CASE n # 0
    <3>1. r.headers_index = n - 1
      BY <2>3 DEF Even
    <3> HIDE DEF n
    <3>2. QED
      BY <1>1, <2>1, <2>3, <3>1, Parity
  <2>4. QED
    BY <2>2, <2>3
<1>3. /\ headers \in Seq(Texts) /\ Len(headers) = n + 2
      /\ \A i \in 1 .. n : headers[i] = r.headers[i]
      /\ headers[n + 1] = <<>> /\ headers[n + 2] = <<>>
  <2>1. Nothing \in Texts /\ Nothing = <<>>
    BY NoText DEF Nothing
  <2>2. /\ <<Nothing, Nothing>> \in Seq(Texts) /\ Len(<<Nothing, Nothing>>) = 2
        /\ <<Nothing, Nothing>>[1] = <<>> /\ <<Nothing, Nothing>>[2] = <<>>
    BY <2>1
  <2>3. QED
    BY <1>1, <2>2
<1>4. /\ all \in Seq(Texts) /\ Len(all) = n + 2
      /\ \A i \in 1 .. n : all[i] = r.headers[i]
      /\ all[n + 1] = a /\ all[n + 2] = b
  BY <1>1
<1>5. /\ one \in Seq(Texts) /\ Len(one) = n + 2
      /\ \A i \in 1 .. n + 2 : one[i] = IF i = n + 1 THEN headers[i] \o a ELSE headers[i]
  <2> HIDE DEF headers, n
  <2>1. /\ one \in Seq(Texts) /\ Len(one) = Len(headers)
        /\ \A i \in 1 .. Len(headers) :
             one[i] = IF i = n + 1 THEN headers[i] \o a ELSE headers[i]
    BY <1>1, <1>3, ExtendIs
  <2> HIDE DEF one
  <2>2. QED
    BY <1>3, <2>1
<1>6. /\ two \in Seq(Texts) /\ Len(two) = n + 2
      /\ \A i \in 1 .. n + 2 : two[i] = IF i = n + 2 THEN one[i] \o b ELSE one[i]
  <2> HIDE DEF one, n
  <2>1. n + 1 \in Nat /\ (n + 1) + 1 = n + 2
    BY <1>1
  <2>2. /\ two \in Seq(Texts) /\ Len(two) = Len(one)
        /\ \A i \in 1 .. Len(one) :
             two[i] = IF i = (n + 1) + 1 THEN one[i] \o b ELSE one[i]
    BY <1>5, <2>1, ExtendIs
  <2> HIDE DEF two
  <2>3. QED
    BY <1>5, <2>1, <2>2
<1>7. <<>> \o a = a /\ <<>> \o b = b
  BY DEF Texts
<1>8. two = all
  <2> HIDE DEF headers, one, two, all, n
  <2>1. one[n + 1] = a /\ one[n + 2] = <<>> /\ \A i \in 1 .. n : one[i] = r.headers[i]
    <3>1. n + 1 \in 1 .. n + 2 /\ n + 2 \in 1 .. n + 2 /\ n + 2 # n + 1
      BY <1>1
    <3>2. one[n + 1] = headers[n + 1] \o a /\ one[n + 2] = headers[n + 2]
      BY <1>5, <3>1, Zenon
    <3>3. one[n + 1] = a /\ one[n + 2] = <<>>
      BY <1>3, <1>7, <3>2, Zenon
    <3>4. ASSUME NEW i \in 1 .. n PROVE one[i] = r.headers[i]
      <4>1. i \in 1 .. n + 2 /\ i # n + 1
        BY <1>1
      <4>2. QED
        BY <1>3, <1>5, <4>1, Zenon
    <3>5. QED
      BY <3>3, <3>4
  <2>2. two[n + 1] = a /\ two[n + 2] = b /\ \A i \in 1 .. n : two[i] = r.headers[i]
    <3>1. n + 1 \in 1 .. n + 2 /\ n + 2 \in 1 .. n + 2 /\ n + 1 # n + 2
      BY <1>1
    <3>2. two[n + 1] = one[n + 1] /\ two[n + 2] = one[n + 2] \o b
      BY <1>6, <3>1, Zenon
    <3>3. two[n + 1] = a /\ two[n + 2] = b
      BY <1>7, <2>1, <3>2, Zenon
    <3>4. ASSUME NEW i \in 1 .. n PROVE two[i] = r.headers[i]
      <4>1. i \in 1 .. n + 2 /\ i # n + 2
        BY <1>1
      <4>2. QED
        BY <1>6, <2>1, <4>1, Zenon
    <3>5. QED
      BY <3>3, <3>4
  <2>3. ASSUME NEW i \in 1 .. n + 2 PROVE two[i] = all[i]
    <3>1. i \in 1 .. n \/ i = n + 1 \/ i = n + 2
      BY <1>1
    <3>2. QED
      BY <1>4, <2>2, <3>1
  <2>4. QED
    BY <1>4, <1>6, <2>3
<1>9. Report(r, "field", a) = q
  <2> DEFINE i == r.headers_index + (r.headers_index % 2)
             grown == IF i = n THEN headers ELSE r.headers
  <2>1. Report(r, "field", a) = [r EXCEPT !.headers_index = i, !.headers = Extend(grown, i, a)]
    BY Zenon DEF Report, OnHeaderField
  <2>2. i = n
    BY <1>2
  <2> HIDE DEF i, headers
  <2>3. QED
    BY <2>1, <2>2
<1>10. q.headers_index = n /\ q.headers = one
  <2> HIDE DEF one
  <2> QED BY DEF Requests
<1>11. Report(q, "value", b) = [q EXCEPT !.headers_index = n + 1, !.headers = two]
  <2> DEFINE i == q.headers_index + 1 - (q.headers_index % 2)
  <2>1. Report(q, "value", b) = [q EXCEPT !.headers_index = i, !.headers = Extend(q.headers, i, b)]
    <3> HIDE DEF q
    <3> QED BY DEF Report, OnHeaderValue
  <2>2. i = n + 1
    <3> HIDE DEF q
    <3> QED BY <1>2, <1>10
  <2> HIDE DEF i, q, one
  <2>3. QED
    BY <1>10, <2>1, <2>2
<1>12. [q EXCEPT !.headers_index = n + 1, !.headers = two]
         = [r EXCEPT !.headers_index = n + 1, !.headers = two]
  <2> HIDE DEF one, two
  <2> QED BY DEF Requests
<1>13. QED
  <2> HIDE DEF two, all, q
  <2> QED BY <1>8, <1>9, <1>11, <1>12 DEF all

-----------------------------------------------------------------------------
(* The request as it is after some of the headers of a message.            *)
HeadersOf(headers, k) ==
  [i \in 1 .. 2 * k |-> IF i % 2 = 1 THEN headers[(i + 1) \div 2][1] ELSE headers[i \div 2][2]]

Built(m, k) ==
  [method |-> NoMethod, url |-> m.url, headers |-> HeadersOf(m.headers, k),
   headers_index |-> IF k = 0 THEN 0 ELSE 2 * k - 1,
   data |-> <<>>, complete |-> FALSE, parser_method |-> m.method]

LEMMA WordsAreTexts ==
  ASSUME NEW text \in Words
  PROVE  text \in Texts
BY CharacterAssumption DEF Words, Texts, Letters

LEMMA Halves ==
  ASSUME NEW i \in Nat, NEW k \in Nat, i \in 1 .. 2 * k
  PROVE  /\ i % 2 = 1 => (i + 1) \div 2 \in 1 .. k
         /\ i % 2 # 1 => i \div 2 \in 1 .. k
OBVIOUS

LEMMA NextHalves ==
  ASSUME NEW k \in Nat
  PROVE  /\ (2 * k + 1) % 2 = 1 /\ ((2 * k + 1) + 1) \div 2 = k + 1
         /\ (2 * k + 2) % 2 # 1 /\ (2 * k + 2) \div 2 = k + 1
         /\ (2 * k) % 2 = 0
OBVIOUS

LEMMA HeadersTyped ==
  ASSUME NEW headers \in Seq(Words \X Words), NEW k \in 0 .. Len(headers)
  PROVE  HeadersOf(headers, k) \in Seq(Texts) /\ Len(HeadersOf(headers, k)) = 2 * k
<1>1. ASSUME NEW i \in 1 .. 2 * k
      PROVE  (IF i % 2 = 1 THEN headers[(i + 1) \div 2][1] ELSE headers[i \div 2][2]) \in Texts
  <2>1. /\ i % 2 = 1 => (i + 1) \div 2 \in 1 .. Len(headers)
        /\ i % 2 # 1 => i \div 2 \in 1 .. Len(headers)
    BY Halves
  <2>2. ASSUME NEW j \in 1 .. Len(headers) PROVE headers[j][1] \in Texts /\ headers[j][2] \in Texts
    <3>1. headers[j] \in Words \X Words
      OBVIOUS
    <3>2. headers[j][1] \in Words /\ headers[j][2] \in Words
      BY <3>1
    <3>3. QED
      BY <3>2, WordsAreTexts
  <2>3. QED
    BY <2>1, <2>2
<1>2. 2 * k \in Nat
  OBVIOUS
<1>3. QED
  BY <1>1, <1>2 DEF HeadersOf

LEMMA TwoMore ==
  ASSUME NEW s \in Seq(Texts), NEW a \in Texts, NEW b \in Texts
  PROVE  /\ s \o <<a, b>> \in Seq(Texts) /\ Len(s \o <<a, b>>) = Len(s) + 2
         /\ \A i \in 1 .. Len(s) : (s \o <<a, b>>)[i] = s[i]
         /\ (s \o <<a, b>>)[Len(s) + 1] = a /\ (s \o <<a, b>>)[Len(s) + 2] = b
OBVIOUS

LEMMA HeadersNext ==
  ASSUME NEW headers \in Seq(Words \X Words), NEW k \in 0 .. Len(headers) - 1
  PROVE  HeadersOf(headers, k + 1)
           = HeadersOf(headers, k) \o <<headers[k + 1][1], headers[k + 1][2]>>
<1> DEFINE before == HeadersOf(headers, k)
           after == HeadersOf(headers, k + 1)
           a == headers[k + 1][1]
           b == headers[k + 1][2]
           pair == <<a, b>>
           all == before \o pair
<1>1. /\ k \in Nat /\ before \in Seq(Texts) /\ Len(before) = 2 * k
      /\ after \in Seq(Texts) /\ Len(after) = 2 * k + 2
  <2>1. k \in 0 .. Len(headers) /\ k + 1 \in 0 .. Len(headers) /\ 2 * (k + 1) = 2 * k + 2
    OBVIOUS
  <2>2. QED
    BY <2>1, HeadersTyped
<1>2. a \in Texts /\ b \in Texts
  <2>1. headers[k + 1] \in Words \X Words
    OBVIOUS
  <2>2. a \in Words /\ b \in Words
    BY <2>1
  <2>3. QED
    BY <2>2, WordsAreTexts
<1>3. ASSUME NEW i \in 1 .. 2 * k + 2
      PROVE  after[i] = IF i <= 2 * k THEN before[i] ELSE IF i = 2 * k + 1 THEN a ELSE b
  <2>1. after[i] = IF i % 2 = 1 THEN headers[(i + 1) \div 2][1] ELSE headers[i \div 2][2]
    BY <1>1 DEF HeadersOf
  <2>2. CASE i <= 2 * k
    <3>1. i \in 1 .. 2 * k
      BY <1>1, <2>2
    <3>2. before[i] = IF i % 2 = 1 THEN headers[(i + 1) \div 2][1] ELSE headers[i \div 2][2]
      BY <3>1 DEF HeadersOf
    <3> HIDE DEF after, before
    <3>3. QED
      BY <2>1, <2>2, <3>2
  <2>3. CASE i = 2 * k + 1
    <3>1. i % 2 = 1 /\ (i + 1) \div 2 = k + 1 /\ ~(i <= 2 * k)
      BY <1>1, <2>3, NextHalves
    <3> HIDE DEF after, before
    <3>2. QED
      BY <2>1, <2>3, <3>1
  <2>4. CASE i = 2 * k + 2
    <3>1. i % 2 # 1 /\ i \div 2 = k + 1 /\ ~(i <= 2 * k) /\ i # 2 * k + 1
      BY <1>1, <2>4, NextHalves
    <3> HIDE DEF after, before
    <3>2. QED
      BY <2>1, <3>1
  <2>5. QED
    BY <1>1, <2>2, <2>3, <2>4
<1>4. /\ all \in Seq(Texts) /\ Len(all) = 2 * k + 2
      /\ \A i \in 1 .. 2 * k : all[i] = before[i]
      /\ all[2 * k + 1] = a /\ all[2 * k + 2] = b
  <2> HIDE DEF before, a, b
  <2>0. /\ before \o <<a, b>> \in Seq(Texts) /\ Len(before \o <<a, b>>) = Len(before) + 2
        /\ \A i \in 1 .. Len(before) : (before \o <<a, b>>)[i] = before[i]
        /\ (before \o <<a, b>>)[Len(before) + 1] = a
        /\ (before \o <<a, b>>)[Len(before) + 2] = b
    <3>1. before \in Seq(Texts) /\ a \in Texts /\ b \in Texts
      BY <1>1, <1>2
    <3>2. QED
      BY <3>1, TwoMore
  <2>1. /\ all \in Seq(Texts) /\ Len(all) = Len(before) + 2
        /\ \A i \in 1 .. Len(before) : all[i] = before[i]
        /\ all[Len(before) + 1] = a /\ all[Len(before) + 2] = b
    BY <2>0, Zenon DEF all, pair
  <2> HIDE DEF all
  <2>2. QED
    BY <1>1, <2>1
<1>5. after = all
  <2> HIDE DEF after, all, before, a, b
  <2>1. ASSUME NEW i \in 1 .. 2 * k + 2 PROVE after[i] = all[i]
    <3>1. i \in 1 .. 2 * k \/ i = 2 * k + 1 \/ i = 2 * k + 2
      BY <1>1
    <3>2. QED
      BY <1>1, <1>3, <1>4, <3>1
  <2>2. QED
    BY <1>1, <1>4, <2>1
<1>6. QED
  BY <1>5

LEMMA BuiltTyped ==
  ASSUME NEW m \in Messages, NEW k \in 0 .. Len(m.headers)
  PROVE  Built(m, k) \in Requests /\ ~Fresh(Built(m, k)) /\ Even(Built(m, k))
<1>1. m.headers \in Seq(Words \X Words) /\ m.url \in Words /\ m.method \in Characters /\ k \in Nat
  BY DEF Messages
<1>2. HeadersOf(m.headers, k) \in Seq(Texts) /\ Len(HeadersOf(m.headers, k)) = 2 * k
  BY <1>1, HeadersTyped
<1>3. (2 * k) % 2 = 0 /\ (2 * k = 0 <=> k = 0)
  BY <1>1, NextHalves
<1>4. m.url \in Texts /\ <<>> \in Texts /\ m.method \in Letters /\ m.method # NoMethod
      /\ NoMethod \in Letters
  BY <1>1, WordsAreTexts, NoText, CharacterAssumption DEF Letters
<1>5. Built(m, k) \in Requests
  BY <1>1, <1>2, <1>4 DEF Built, Requests
<1>6. ~Fresh(Built(m, k))
  BY <1>4 DEF Built, Fresh
<1>7. Even(Built(m, k))
  BY <1>1, <1>2, <1>3 DEF Built, Even
<1>8. QED
  BY <1>5, <1>6, <1>7

LEMMA SameRequest ==
  ASSUME NEW p \in Requests, NEW q \in Requests,
         p.method = q.method, p.url = q.url, p.headers = q.headers,
         p.headers_index = q.headers_index, p.data = q.data, p.complete = q.complete,
         p.parser_method = q.parser_method
  PROVE  p = q
BY DEF Requests

HeaderUnits(h) == Piece("field", h[1]) \o Piece("value", h[2])

LEMMA HeaderGives ==
  ASSUME NEW m \in Messages, NEW k \in 0 .. Len(m.headers) - 1
  PROVE  Gives(Built(m, k), HeaderUnits(m.headers[k + 1]), Built(m, k + 1))
<1> DEFINE r == Built(m, k)
           a == m.headers[k + 1][1]
           b == m.headers[k + 1][2]
           q == Report(r, "field", a)
<1>1. m.headers \in Seq(Words \X Words) /\ k \in 0 .. Len(m.headers)
  BY DEF Messages
<1>2. r \in Requests /\ ~Fresh(r) /\ Even(r)
  BY <1>1, BuiltTyped
<1>3. a \in Words /\ b \in Words
  <2>1. m.headers[k + 1] \in Words \X Words
    BY <1>1
  <2>2. QED
    BY <2>1
<1>4. a \in Texts /\ b \in Texts
  BY <1>3, WordsAreTexts
<1> HIDE DEF r, a, b
<1>5. Gives(r, Piece("field", a), q)
  BY <1>2, <1>3, EndedGives DEF Parts
<1>6. q \in Requests /\ ~Fresh(q)
  BY <1>2, <1>4, ReportTyped DEF Fresh
<1> HIDE DEF q
<1>7. Gives(q, Piece("value", b), Report(q, "value", b))
  BY <1>3, <1>6, EndedGives DEF Parts
<1>8. Gives(r, Piece("field", a) \o Piece("value", b), Report(q, "value", b))
  BY <1>2, <1>5, <1>7, GivesThen
<1>9. Report(q, "value", b) =
        [r EXCEPT !.headers_index = Len(r.headers) + 1, !.headers = r.headers \o <<a, b>>]
  BY <1>2, <1>4, PairAdded DEF q
<1>10. Report(q, "value", b) = Built(m, k + 1)
  <2>1. r.headers = HeadersOf(m.headers, k) /\ Len(r.headers) = 2 * k
    BY <1>1, HeadersTyped DEF r, Built
  <2>2. HeadersOf(m.headers, k + 1) = r.headers \o <<a, b>>
    BY <1>1, <2>1, HeadersNext DEF a, b
  <2>3. Len(r.headers) + 1 = 2 * (k + 1) - 1 /\ k + 1 # 0
    BY <2>1
  <2>4. [r EXCEPT !.headers_index = Len(r.headers) + 1, !.headers = r.headers \o <<a, b>>]
          = Built(m, k + 1)
    <3> DEFINE headers == r.headers \o <<a, b>>
               i == Len(r.headers) + 1
               p == [r EXCEPT !.headers_index = i, !.headers = headers]
               new == Built(m, k + 1)
    <3>1. headers = HeadersOf(m.headers, k + 1) /\ i = 2 * (k + 1) - 1 /\ k + 1 # 0
      BY <2>2, <2>3
    <3>2. headers \in Seq(Texts) /\ i \in Nat
      <4>1. k + 1 \in 0 .. Len(m.headers) /\ Len(r.headers) \in Nat
        BY <1>1, <2>1
      <4>2. HeadersOf(m.headers, k + 1) \in Seq(Texts)
        BY <1>1, <4>1, HeadersTyped, Zenon
      <4>3. QED
        <5> HIDE DEF headers, i
        <5> QED BY <3>1, <4>1, <4>2
    <3>3. new \in Requests
      BY <1>1, BuiltTyped
    <3> HIDE DEF headers, i
    <3>4. /\ p \in Requests /\ p.headers = headers /\ p.headers_index = i
          /\ p.method = r.method /\ p.url = r.url /\ p.data = r.data
          /\ p.complete = r.complete /\ p.parser_method = r.parser_method
      BY <1>2, <3>2 DEF Requests
    <3>5. /\ r.method = new.method /\ r.url = new.url /\ r.data = new.data
          /\ r.complete = new.complete /\ r.parser_method = new.parser_method
      BY DEF r, Built
    <3>6. new.headers = headers /\ new.headers_index = i
      BY <3>1 DEF Built
    <3> HIDE DEF p, new
    <3>7. p = new
      BY <3>3, <3>4, <3>5, <3>6, SameRequest
    <3>8. QED
      BY <3>7 DEF p, new, headers, i
  <2>5. QED
    BY <1>9, <2>4
<1>11. QED
  BY <1>8, <1>10 DEF HeaderUnits, r, a, b
-----------------------------------------------------------------------------
(* FlattenSeq obeys its definition.                                        *)
LEMMA Flattens ==
  ASSUME NEW seqs \in Seq(Seq(Units))
  PROVE  \E f : /\ f[0] = <<>> /\ FlattenSeq(seqs) = f[Len(seqs)]
                /\ \A k \in 1 .. Len(seqs) : f[k] = f[k - 1] \o seqs[k]
<1> DEFINE n == Len(seqs)
           Is(g, k) == g = [i \in 1 .. k |-> IF i = 1 THEN seqs[i] ELSE g[i - 1] \o seqs[i]]
           T == {k \in Nat : \E g : Is(g, k)}
<1>0. n \in Nat /\ \A k \in 1 .. n : seqs[k] \in Seq(Units)
  OBVIOUS
<1>1. 0 \in T
  <2> DEFINE g == [i \in 1 .. 0 |-> <<>>]
  <2>1. Is(g, 0)
    OBVIOUS
  <2> HIDE DEF g, Is
  <2>2. QED
    BY <2>1
<1>2. ASSUME NEW k \in Nat, k \in T PROVE k + 1 \in T
  <2>1. PICK g : Is(g, k)
    BY <1>2
  <2> DEFINE E(i) == IF i = 1 THEN seqs[i] ELSE g[i - 1] \o seqs[i]
             h == [i \in 1 .. k + 1 |-> E(i)]
  <2>2. \A i \in 1 .. k : g[i] = E(i)
    BY <2>1
  <2>3. \A i \in 1 .. k + 1 : i # 1 => h[i - 1] = g[i - 1]
    <3> HIDE DEF E
    <3>1. \A i \in 1 .. k + 1 : h[i] = E(i)
      OBVIOUS
    <3> HIDE DEF h
    <3>2. QED
      BY <2>2, <3>1
  <2>4. h = [i \in 1 .. k + 1 |-> IF i = 1 THEN seqs[i] ELSE h[i - 1] \o seqs[i]]
    <3>1. \A i \in 1 .. k + 1 : E(i) = IF i = 1 THEN seqs[i] ELSE h[i - 1] \o seqs[i]
      <4> HIDE DEF h
      <4> QED BY <2>3
    <3> HIDE DEF E
    <3>2. h = [i \in 1 .. k + 1 |-> E(i)]
      OBVIOUS
    <3> HIDE DEF h
    <3>3. QED
      BY <3>1, <3>2
  <2>5. Is(h, k + 1)
    <3> HIDE DEF h
    <3> QED BY <2>4
  <2> HIDE DEF h, Is
  <2>6. QED
    BY <2>5
<1>3. n \in T
  <2> HIDE DEF T
  <2>1. \A k \in 0 .. n - 1 : k \in T => k + 1 \in T
    BY <1>2
  <2>2. 0 .. n \subseteq T
    BY <1>0, <1>1, <2>1, UpTo
  <2>3. QED
    BY <1>0, <2>2
<1>4. PICK g : /\ Is(g, n)
               /\ n # 0 => FlattenSeq(seqs) = g[n]
  <2> DEFINE flatten == CHOOSE g : Is(g, n)
  <2>1. \E g : Is(g, n)
    BY <1>3
  <2>2. Is(flatten, n)
    <3> HIDE DEF Is
    <3> QED BY <2>1, Zenon
  <2>3. n # 0 => FlattenSeq(seqs) = flatten[n]
    BY Zenon DEF FlattenSeq
  <2> HIDE DEF flatten, Is
  <2>4. QED
    BY <2>2, <2>3, Zenon
<1> DEFINE f == [k \in 0 .. n |-> IF k = 0 THEN <<>> ELSE g[k]]
<1>5. \A k \in 1 .. n : g[k] = IF k = 1 THEN seqs[k] ELSE g[k - 1] \o seqs[k]
  BY <1>4
<1>6. f[0] = <<>> /\ \A k \in 1 .. n : f[k] = g[k]
  BY <1>0
<1>7. FlattenSeq(seqs) = f[n]
  <2>1. CASE n = 0
    <3>1. FlattenSeq(seqs) = seqs /\ seqs = <<>>
      BY <2>1 DEF FlattenSeq
    <3> HIDE DEF f
    <3>2. QED
      BY <1>6, <2>1, <3>1
  <2>2. CASE n # 0
    <3>1. n \in 1 .. n
      BY <1>0, <2>2
    <3>2. f[n] = g[n]
      BY <1>6, <3>1, Zenon
    <3>3. QED
      BY <1>4, <2>2, <3>2, Zenon
  <2>3. QED
    BY <2>1, <2>2
<1>8. ASSUME NEW k \in 1 .. n PROVE f[k] = f[k - 1] \o seqs[k]
  <2> HIDE DEF f
  <2>1. CASE k = 1
    <3>1. seqs[k] = <<>> \o seqs[k] /\ k - 1 = 0
      BY <1>0, <2>1
    <3>2. f[k] = seqs[k]
      BY <1>5, <1>6, <2>1, Zenon
    <3>3. f[k - 1] = <<>>
      BY <1>6, <3>1, Zenon
    <3>4. QED
      BY <3>1, <3>2, <3>3, Zenon
  <2>2. CASE k # 1
    <3>1. k - 1 \in 1 .. n
      BY <1>0, <2>2
    <3>2. QED
      BY <1>5, <1>6, <2>2, <3>1
  <2>3. QED
    BY <2>1, <2>2
<1>9. QED
  <2> HIDE DEF f
  <2> QED BY <1>6, <1>7, <1>8

-----------------------------------------------------------------------------
(* The last unit of what is sent is marked.                                *)
LEMMA EndMarkedIs ==
  ASSUME NEW read \in Seq(Units), read # <<>>
  PROVE  /\ EndMarked(read) \in Seq(Units) /\ Len(EndMarked(read)) = Len(read)
         /\ \A k \in 1 .. Len(read) - 1 : EndMarked(read)[k] = read[k]
         /\ Len(read) \in Nat \ {0}
         /\ LET unit == EndMarked(read)[Len(read)]
            IN  /\ unit \in Units /\ unit.last = TRUE
                /\ unit.part = read[Len(read)].part /\ unit.c = read[Len(read)].c
<1> DEFINE n == Len(read)
           unit == [read[n] EXCEPT !.last = TRUE]
           marked == EndMarked(read)
<1>1. n \in Nat \ {0} /\ \A k \in 1 .. n : read[k] \in Units
  OBVIOUS
<1>2. unit \in Units /\ unit.last = TRUE /\ unit.part = read[n].part /\ unit.c = read[n].c
  <2>1. read[n] \in Units
    BY <1>1
  <2>2. QED
    BY <2>1 DEF Units
<1>3. marked = [read EXCEPT ![n] = unit]
  BY DEF EndMarked
<1> HIDE DEF marked, unit
<1>4. marked \in Seq(Units) /\ Len(marked) = n
  BY <1>1, <1>2, <1>3
<1>5. marked[n] = unit /\ \A k \in 1 .. n - 1 : marked[k] = read[k]
  BY <1>1, <1>3
<1>6. QED
  BY <1>1, <1>2, <1>4, <1>5 DEF marked

LEMMA EndMarkedLater ==
  ASSUME NEW a \in Seq(Units), NEW b \in Seq(Units), b # <<>>
  PROVE  EndMarked(a \o b) = a \o EndMarked(b)
<1> DEFINE n == Len(a)
           c == a \o b
           p == EndMarked(c)
           q == a \o EndMarked(b)
<1>1. /\ n \in Nat /\ c \in Seq(Units) /\ Len(c) = n + Len(b) /\ c # <<>>
      /\ \A k \in 1 .. n : c[k] = a[k]
      /\ \A k \in n + 1 .. n + Len(b) : c[k] = b[k - n]
      /\ Len(b) \in Nat \ {0}
  OBVIOUS
<1>2. /\ EndMarked(b) \in Seq(Units) /\ Len(EndMarked(b)) = Len(b)
      /\ \A k \in 1 .. Len(b) - 1 : EndMarked(b)[k] = b[k]
      /\ EndMarked(b)[Len(b)] = [b[Len(b)] EXCEPT !.last = TRUE]
  <2>1. EndMarked(b) = [b EXCEPT ![Len(b)] = [b[Len(b)] EXCEPT !.last = TRUE]]
    BY DEF EndMarked
  <2>2. EndMarked(b)[Len(b)] = [b[Len(b)] EXCEPT !.last = TRUE]
    <3> DEFINE e == EndMarked(b)
    <3>1. Len(b) \in DOMAIN b
      BY <1>1
    <3> HIDE DEF e
    <3>2. e[Len(b)] = [b[Len(b)] EXCEPT !.last = TRUE]
      BY <2>1, <3>1 DEF e
    <3>3. QED
      BY <3>2 DEF e
  <2>3. QED
    BY <2>2, EndMarkedIs
<1>3. /\ q \in Seq(Units) /\ Len(q) = n + Len(b)
      /\ \A k \in 1 .. n : q[k] = a[k]
      /\ \A k \in n + 1 .. n + Len(b) : q[k] = EndMarked(b)[k - n]
  <2> DEFINE e == EndMarked(b)
  <2>1. e \in Seq(Units) /\ Len(e) = Len(b)
    BY <1>2
  <2> HIDE DEF e
  <2>2. /\ a \o e \in Seq(Units) /\ Len(a \o e) = n + Len(e)
        /\ \A k \in 1 .. n : (a \o e)[k] = a[k]
        /\ \A k \in n + 1 .. n + Len(e) : (a \o e)[k] = e[k - n]
    BY <2>1, ConcatUnits, Zenon
  <2>3. QED
    BY <2>1, <2>2 DEF e
<1> HIDE DEF c, q
<1>4. /\ p \in Seq(Units) /\ Len(p) = Len(c)
      /\ \A k \in 1 .. Len(c) - 1 : p[k] = c[k]
  BY <1>1, EndMarkedIs
<1>5. p[Len(c)] = [c[Len(c)] EXCEPT !.last = TRUE]
  <2>1. p = [c EXCEPT ![Len(c)] = [c[Len(c)] EXCEPT !.last = TRUE]]
    BY DEF EndMarked
  <2>2. Len(c) \in DOMAIN c
    BY <1>1
  <2> HIDE DEF p
  <2>3. QED
    BY <2>1, <2>2
<1> HIDE DEF p
<1>6. ASSUME NEW k \in 1 .. Len(c) PROVE p[k] = q[k]
  <2>1. CASE k <= n
    <3>1. k \in 1 .. n /\ k \in 1 .. Len(c) - 1
      BY <1>1, <2>1
    <3>2. QED
      BY <1>1, <1>3, <1>4, <3>1, Zenon
  <2>2. CASE k > n /\ k < Len(c)
    <3>1. k \in n + 1 .. n + Len(b) /\ k \in 1 .. Len(c) - 1 /\ k - n \in 1 .. Len(b) - 1
      BY <1>1, <2>2
    <3>2. QED
      BY <1>1, <1>2, <1>3, <1>4, <3>1, Zenon
  <2>3. CASE k = Len(c)
    <3>1. k \in n + 1 .. n + Len(b) /\ k - n = Len(b)
      BY <1>1, <2>3
    <3>2. q[k] = EndMarked(b)[k - n] /\ c[k] = b[k - n]
      BY <1>1, <1>3, <3>1, Zenon
    <3>3. p[k] = [b[k - n] EXCEPT !.last = TRUE]
      BY <1>5, <2>3, <3>2, Zenon
    <3>4. EndMarked(b)[k - n] = [b[k - n] EXCEPT !.last = TRUE]
      <4>1. k - n \in DOMAIN b
        BY <1>1, <3>1
      <4>2. QED
        BY <3>1, <4>1 DEF EndMarked
    <3>5. QED
      BY <3>2, <3>3, <3>4, Zenon
  <2>4. k <= n \/ (k > n /\ k < Len(c)) \/ k = Len(c)
    BY <1>1
  <2>5. QED
    BY <2>1, <2>2, <2>3, <2>4, Zenon
<1>7. p = q
  BY <1>1, <1>3, <1>4, <1>6
<1>8. QED
  BY <1>7 DEF c, p, q

(* Without and with a body, the last piece completes the request.          *)
Ending(body) == EndMarked(<<End("headers")>> \o Chars("body", body))

LEMMA EndingGives ==
  ASSUME NEW r \in Requests, ~Fresh(r), r.data = <<>>, NEW body \in Words
  PROVE  Gives(r, Ending(body), OnMessageComplete([r EXCEPT !.data = body]))
<1> DEFINE n == Len(body)
           e == <<End("headers")>>
           chars == Chars("body", body)
           q == OnMessageComplete([r EXCEPT !.data = body])
<1>1. /\ chars \in Seq(Units) /\ Len(chars) = n /\ n \in Nat
      /\ \A k \in 1 .. n : chars[k] = Char("body", body[k])
      /\ End("headers") \in Units /\ body \in Seq(Characters)
  BY CharsTyped DEF Parts, Words
<1>2. e \in Seq(Units) /\ Len(e) = 1 /\ e[1] = End("headers") /\ e # <<>>
  BY <1>1, OneUnit
<1> HIDE DEF e, chars
<1>3. CASE n = 0
  <2> DEFINE read == EndMarked(e)
             unit == read[Len(read)]
             none == <<>>
  <2>1. chars = <<>> /\ body = <<>>
    BY <1>1, <1>3
  <2>2. Ending(body) = read
    <3>1. e \o <<>> = e
      BY <1>2
    <3>2. QED
      BY <2>1, <3>1 DEF Ending, e, chars
  <2>3. /\ read \in Seq(Units) /\ Len(read) = 1
        /\ unit.last = TRUE /\ unit.part = "headers" /\ unit.c = "end"
    <3>1. read \in Seq(Units) /\ Len(read) = 1
      BY <1>2, EndMarkedIs
    <3>2. /\ read[Len(e)].last = TRUE /\ read[Len(e)].part = e[Len(e)].part
          /\ read[Len(e)].c = e[Len(e)].c
      BY <1>2, EndMarkedIs
    <3>3. e[Len(e)] = End("headers")
      BY <1>2
    <3> HIDE DEF read
    <3>4. QED
      BY <1>2, <3>1, <3>2, <3>3 DEF End
  <2>4. none \in Words /\ Len(none) = 0
    BY DEF Words
  <2> HIDE DEF read
  <2>5. Spells(read, "headers", none)
    BY <2>3, <2>4 DEF Spells
  <2>6. Gives(r, read, Marked(Report(r, "headers", With(none, unit)), unit))
    <3>1. Ends(unit) /\ unit.part = "headers" /\ Len(read) = Len(none) + 1
      BY <2>3, <2>4 DEF Ends
    <3> HIDE DEF none
    <3>2. QED
      BY <2>3, <2>4, <2>5, <3>1, PieceGives DEF Parts
  <2>7. Marked(Report(r, "headers", With(none, unit)), unit) = q
    <3>1. Report(r, "headers", With(none, unit)) = r
      BY DEF Report
    <3>2. [r EXCEPT !.data = body] = r
      BY <2>1 DEF Requests
    <3>3. QED
      BY <2>3, <3>1, <3>2 DEF Marked
  <2>8. QED
    BY <2>2, <2>6, <2>7
<1>4. CASE n # 0
  <2> DEFINE read == EndMarked(chars)
             unit == read[Len(read)]
             front == SubSeq(body, 1, n - 1)
  <2>1. chars # <<>>
    BY <1>1, <1>4
  <2>2. Ending(body) = e \o read
    BY <1>1, <1>2, <2>1, EndMarkedLater DEF Ending, e, chars
  <2>3. /\ read \in Seq(Units) /\ Len(read) = n
        /\ \A k \in 1 .. n - 1 : read[k] = chars[k]
        /\ unit.last = TRUE /\ unit.part = "body" /\ unit.c = body[n] /\ body[n] \in Characters
    <3>1. /\ read \in Seq(Units) /\ Len(read) = Len(chars)
          /\ \A k \in 1 .. Len(chars) - 1 : read[k] = chars[k]
      BY <1>1, <2>1, EndMarkedIs
    <3>2. /\ read[Len(chars)].last = TRUE /\ read[Len(chars)].part = chars[Len(chars)].part
          /\ read[Len(chars)].c = chars[Len(chars)].c
      BY <1>1, <2>1, EndMarkedIs
    <3>3. chars[n] = Char("body", body[n]) /\ body[n] \in Characters
      BY <1>1, <1>4
    <3> HIDE DEF read
    <3>4. QED
      BY <1>1, <3>1, <3>2, <3>3 DEF Char
  <2> HIDE DEF read
  <2>4. front \in Words /\ Len(front) = n - 1 /\ \A k \in 1 .. n - 1 : front[k] = body[k]
    BY <1>1, <1>4 DEF Words
  <2>5. Append(front, body[n]) = body
    <3>1. n - 1 \in 0 .. n - 1 /\ (n - 1) + 1 = n
      BY <1>1, <1>4
    <3>2. Append(SubSeq(body, 1, n - 1), body[(n - 1) + 1]) = SubSeq(body, 1, (n - 1) + 1)
      BY <1>1, <3>1, SubSeqNext, Zenon
    <3>3. SubSeq(body, 1, n) = body
      BY <1>1, SubSeqNone, Zenon
    <3>4. QED
      BY <3>1, <3>2, <3>3
  <2> HIDE DEF front
  <2>6. Spells(read, "body", front)
    <3>1. \A k \in 1 .. Len(front) : read[k] = Char("body", front[k])
      <4> TAKE k \in 1 .. Len(front)
      <4>1. k \in 1 .. n - 1 /\ k \in 1 .. n
        BY <1>1, <1>4, <2>4
      <4>2. QED
        BY <1>1, <2>3, <2>4, <4>1, Zenon
    <3>2. Len(front) <= Len(read)
      BY <1>1, <1>4, <2>3, <2>4
    <3>3. QED
      BY <3>1, <3>2 DEF Spells
  <2>7. Gives(r, read, Marked(Report(r, "body", With(front, unit)), unit))
    <3>1. Ends(unit) /\ unit.part = "body" /\ Len(read) = Len(front) + 1 /\ "body" \in Parts
      BY <1>1, <2>3, <2>4 DEF Ends, Parts
    <3>2. QED
      BY <2>3, <2>4, <2>6, <3>1, PieceGives
  <2>8. Marked(Report(r, "body", With(front, unit)), unit) = q
    <3>1. With(front, unit) = body
      <4>1. unit.c # "end"
        BY <2>3, CharacterAssumption DEF Letters
      <4>2. QED
        BY <2>3, <2>5, <4>1 DEF With
    <3>2. Report(r, "body", body) = [r EXCEPT !.data = body]
      <4>1. <<>> \o body = body
        BY <1>1
      <4>2. Report(r, "body", body) = [r EXCEPT !.data = r.data \o body]
        BY DEF Report, OnBody
      <4>3. QED
        BY <4>1, <4>2
    <3>3. QED
      BY <2>3, <3>1, <3>2 DEF Marked
  <2>9. Gives(r, e, r)
    <3>1. Gives(r, Piece("headers", <<>>), Report(r, "headers", <<>>))
      <4>1. <<>> \in Words /\ "headers" \in Parts
        BY DEF Words, Parts
      <4>2. QED
        BY <4>1, EndedGives
    <3>2. Piece("headers", <<>>) = e
      <4>1. Chars("headers", <<>>) = <<>>
        BY DEF Chars
      <4>2. <<>> \o e = e
        BY <1>2
      <4>3. QED
        BY <4>1, <4>2 DEF Piece, e
    <3>3. Report(r, "headers", <<>>) = r
      BY DEF Report
    <3>4. QED
      BY <3>1, <3>2, <3>3
  <2>10. Gives(r, e \o read, q)
    <3> HIDE DEF q
    <3>1. Gives(r, read, q)
      BY <2>7, <2>8
    <3>2. QED
      BY <2>9, <3>1, GivesThen
  <2>11. QED
    BY <2>2, <2>10
<1>5. QED
  BY <1>3, <1>4

-----------------------------------------------------------------------------
(* All of a request together.                                              *)
Beginning(m) == <<Char("method", m.method)>> \o Piece("url", m.url)
AllHeaders(m) == FlattenSeq([k \in 1 .. Len(m.headers) |-> HeaderUnits(m.headers[k])])

LEMMA PieceTyped ==
  ASSUME NEW part \in Parts, NEW text \in Words
  PROVE  Piece(part, text) \in Seq(Units)
<1>1. Chars(part, text) \in Seq(Units) /\ <<End(part)>> \in Seq(Units)
  BY CharsTyped, OneUnit
<1>2. QED
  BY <1>1, ConcatUnits DEF Piece

LEMMA HeaderUnitsTyped ==
  ASSUME NEW h \in Words \X Words
  PROVE  /\ HeaderUnits(h) \in Seq(Units)
         /\ Chars("field", h[1]) \o <<End("field")>> \o Chars("value", h[2]) \o <<End("value")>>
              = HeaderUnits(h)
<1> DEFINE a == Chars("field", h[1]) \o <<End("field")>>
           b == Chars("value", h[2])
           c == <<End("value")>>
<1>1. h[1] \in Words /\ h[2] \in Words /\ "field" \in Parts /\ "value" \in Parts
  BY DEF Parts
<1>2. a \in Seq(Units) /\ b \in Seq(Units) /\ c \in Seq(Units) /\ b \o c \in Seq(Units)
  <2>1. a \in Seq(Units) /\ b \o c \in Seq(Units)
    BY <1>1, PieceTyped DEF Piece
  <2>2. b \in Seq(Units) /\ c \in Seq(Units)
    BY <1>1, CharsTyped, OneUnit
  <2>3. QED
    BY <2>1, <2>2
<1>3. (a \o b) \o c = a \o (b \o c) /\ a \o (b \o c) \in Seq(Units)
  <2> HIDE DEF a, b, c
  <2>1. (a \o b) \o c = a \o (b \o c)
    BY <1>2, AssocUnits, Zenon
  <2>2. a \o (b \o c) \in Seq(Units)
    BY <1>2
  <2>3. QED
    BY <2>1, <2>2
<1>4. QED
  BY <1>3, Zenon DEF HeaderUnits, Piece

LEMMA HeadersGive ==
  ASSUME NEW m \in Messages
  PROVE  Gives(Built(m, 0), AllHeaders(m), Built(m, Len(m.headers)))
<1> DEFINE n == Len(m.headers)
           seqs == [k \in 1 .. n |-> HeaderUnits(m.headers[k])]
<1>1. n \in Nat /\ m.headers \in Seq(Words \X Words)
  BY DEF Messages
<1>2. /\ seqs \in Seq(Seq(Units)) /\ Len(seqs) = n
      /\ \A k \in 1 .. n : seqs[k] = HeaderUnits(m.headers[k])
  <2>1. \A k \in 1 .. n : HeaderUnits(m.headers[k]) \in Seq(Units)
    <3> TAKE k \in 1 .. n
    <3>1. m.headers[k] \in Words \X Words
      BY <1>1
    <3>2. QED
      BY <3>1, HeaderUnitsTyped
  <2>2. QED
    BY <1>1, <2>1
<1>3. AllHeaders(m) = FlattenSeq(seqs)
  BY DEF AllHeaders
<1> HIDE DEF seqs
<1>4. PICK f : /\ f[0] = <<>> /\ FlattenSeq(seqs) = f[Len(seqs)]
               /\ \A k \in 1 .. Len(seqs) : f[k] = f[k - 1] \o seqs[k]
  BY <1>2, Flattens
<1> DEFINE T == {k \in 0 .. n : Gives(Built(m, 0), f[k], Built(m, k))}
<1>5. 0 \in T
  <2>1. Built(m, 0) \in Requests
    BY <1>1, BuiltTyped
  <2>2. Gives(Built(m, 0), f[0], Built(m, 0))
    BY <1>4, <2>1, NothingGives
  <2>3. QED
    BY <1>1, <2>2
<1>6. ASSUME NEW k \in 0 .. n - 1, k \in T PROVE k + 1 \in T
  <2>1. k + 1 \in 1 .. n /\ (k + 1) - 1 = k /\ 0 \in 0 .. n
    BY <1>1
  <2>2. f[k + 1] = f[k] \o HeaderUnits(m.headers[k + 1])
    <3>1. f[k + 1] = f[(k + 1) - 1] \o seqs[k + 1] /\ seqs[k + 1] = HeaderUnits(m.headers[k + 1])
      BY <1>2, <1>4, <2>1
    <3>2. QED
      BY <2>1, <3>1
  <2>3. Gives(Built(m, 0), f[k], Built(m, k))
    BY <1>6
  <2>4. Gives(Built(m, k), HeaderUnits(m.headers[k + 1]), Built(m, k + 1))
    BY HeaderGives
  <2>5. Built(m, 0) \in Requests
    BY <2>1, BuiltTyped
  <2>6. Gives(Built(m, 0), f[k] \o HeaderUnits(m.headers[k + 1]), Built(m, k + 1))
    BY <2>3, <2>4, <2>5, GivesThen, Zenon
  <2>7. Gives(Built(m, 0), f[k + 1], Built(m, k + 1))
    BY <2>2, <2>6
  <2>8. QED
    BY <2>1, <2>7
<1>7. 0 .. n \subseteq T
  <2> HIDE DEF T, n
  <2>1. \A k \in 0 .. n - 1 : k \in T => k + 1 \in T
    BY <1>6
  <2>2. QED
    BY <1>1, <1>5, <2>1, UpTo
<1>8. Gives(Built(m, 0), f[n], Built(m, n))
  BY <1>1, <1>7
<1>9. QED
  BY <1>2, <1>3, <1>4, <1>8

LEMMA WireIs ==
  ASSUME NEW m \in Messages
  PROVE  Wire(m) = (Beginning(m) \o AllHeaders(m)) \o Ending(m.body)
<1> DEFINE a == <<Char("method", m.method)>>
           b == Chars("url", m.url)
           c == <<End("url")>>
           h(k) == m.headers[k]
           written == [k \in 1 .. Len(m.headers) |->
                         Chars("field", h(k)[1]) \o <<End("field")>>
                         \o Chars("value", h(k)[2]) \o <<End("value")>>]
           d == FlattenSeq(written)
           e == <<End("headers")>>
           f == Chars("body", m.body)
           all == a \o b \o c \o d \o e \o f
<1>1. Wire(m) = EndMarked(all)
  BY Zenon DEF Wire, EndMarked
<1>2. d = AllHeaders(m) /\ d \in Seq(Units)
  <2>1. \A k \in 1 .. Len(m.headers) :
          Chars("field", h(k)[1]) \o <<End("field")>> \o Chars("value", h(k)[2]) \o <<End("value")>>
            = HeaderUnits(h(k))
    <3> TAKE k \in 1 .. Len(m.headers)
    <3>1. h(k) \in Words \X Words
      BY DEF Messages
    <3>2. QED
      BY <3>1, HeaderUnitsTyped, Zenon
  <2>2. written = [k \in 1 .. Len(m.headers) |-> HeaderUnits(m.headers[k])]
    BY <2>1, Zenon
  <2>3. AllHeaders(m) \in Seq(Units)
    BY HeadersGive DEF Gives
  <2> HIDE DEF written
  <2>4. QED
    BY <2>2, <2>3 DEF AllHeaders
<1>3. a \in Seq(Units) /\ b \in Seq(Units) /\ c \in Seq(Units) /\ e \in Seq(Units) /\ f \in Seq(Units)
  <2>1. m.method \in Characters /\ m.url \in Words /\ m.body \in Words
    BY DEF Messages
  <2>2. Char("method", m.method) \in Units
    BY <2>1, CharacterAssumption DEF Char, Units, Parts, Letters
  <2>3. a \in Seq(Units)
    BY <2>2, OneUnit
  <2>4. b \in Seq(Units) /\ f \in Seq(Units) /\ End("url") \in Units /\ End("headers") \in Units
    <3>1. "url" \in Parts /\ "body" \in Parts /\ "headers" \in Parts /\ <<>> \in Words
      BY DEF Parts, Words
    <3>2. QED
      BY <2>1, <3>1, CharsTyped
  <2>5. c \in Seq(Units) /\ e \in Seq(Units)
    BY <2>4, OneUnit
  <2>6. QED
    BY <2>3, <2>4, <2>5
<1>4. e \o f # <<>>
  <2>1. Len(e) = 1
    OBVIOUS
  <2> HIDE DEF e, f
  <2>2. Len(e \o f) = Len(e) + Len(f) /\ Len(f) \in Nat
    BY <1>3, ConcatUnits
  <2>3. QED
    BY <2>1, <2>2
<1> HIDE DEF a, b, c, d, e, f
<1> DEFINE before == (a \o (b \o c)) \o d
<1>5. before \in Seq(Units) /\ e \o f \in Seq(Units) /\ all = before \o (e \o f)
  <2>1. b \o c \in Seq(Units) /\ (a \o b) \o c = a \o (b \o c) /\ e \o f \in Seq(Units)
    <3>0. a \in Seq(Units) /\ b \in Seq(Units) /\ c \in Seq(Units)
      BY <1>3
    <3>1. (a \o b) \o c = a \o (b \o c)
      BY <3>0, AssocUnits, Zenon
    <3>2. QED
      BY <1>3, <3>1
  <2>2. a \o (b \o c) \in Seq(Units)
    BY <1>3, <2>1, ConcatUnits
  <2>3. before \in Seq(Units)
    BY <1>2, <2>2, ConcatUnits
  <2>4. (before \o e) \o f = before \o (e \o f)
    <3> HIDE DEF before
    <3> QED BY <1>3, <2>3, AssocUnits
  <2>5. QED
    BY <2>1, <2>3, <2>4
<1>6. EndMarked(before \o (e \o f)) = before \o EndMarked(e \o f)
  <2> HIDE DEF before
  <2> QED BY <1>4, <1>5, EndMarkedLater
<1>7. Beginning(m) = a \o (b \o c) /\ Ending(m.body) = EndMarked(e \o f)
  BY Zenon DEF Beginning, Ending, Piece, a, b, c, e, f
<1>8. QED
  <2> HIDE DEF before, all
  <2>1. Wire(m) = before \o EndMarked(e \o f)
    BY <1>1, <1>5, <1>6, Zenon
  <2>2. before = Beginning(m) \o AllHeaders(m)
    BY <1>2, <1>7, Zenon DEF before
  <2>3. QED
    BY <1>7, <2>1, <2>2, Zenon

(* The request that a whole message makes.                                 *)
Whole(m) == OnMessageComplete([Built(m, Len(m.headers)) EXCEPT !.data = m.body])

LEMMA WireGives ==
  ASSUME NEW m \in Messages
  PROVE  Gives(NewRequest, Wire(m), Whole(m))
<1>0. /\ m.method \in Characters /\ m.url \in Words /\ m.body \in Words
      /\ m.headers \in Seq(Words \X Words) /\ Len(m.headers) \in Nat
  BY DEF Messages
<1> DEFINE q == [NewRequest EXCEPT !.parser_method = m.method]
           built == Built(m, Len(m.headers))
<1>1. NewRequest \in Requests
  <2>1. <<>> \in Seq(Texts) /\ <<>> \in Texts
    BY DEF Texts
  <2>2. QED
    BY <2>1, CharacterAssumption DEF NewRequest, Requests, Nothing, NoMethod, Letters
<1>2. Gives(NewRequest, <<Char("method", m.method)>>, q)
  BY <1>0, MethodGives
<1>3. q \in Requests /\ ~Fresh(q)
  BY <1>0, <1>1, CharacterAssumption DEF Requests, Fresh, Letters
<1>4. Gives(q, Piece("url", m.url), Report(q, "url", m.url))
  <2> HIDE DEF q
  <2> QED BY <1>0, <1>3, EndedGives DEF Parts
<1>5. Report(q, "url", m.url) = Built(m, 0)
  <2> DEFINE p == Report(q, "url", m.url)
             new == Built(m, 0)
  <2>1. p \in Requests /\ new \in Requests
    <3>1. m.url \in Texts
      BY <1>0, WordsAreTexts
    <3>2. 0 \in 0 .. Len(m.headers)
      BY <1>0
    <3> HIDE DEF q
    <3>3. QED
      BY <1>3, <3>1, <3>2, ReportTyped, BuiltTyped
  <2>2. p = [q EXCEPT !.url = q.url \o m.url]
    BY DEF Report, OnUrl
  <2>3. /\ q.url = <<>> /\ q.method = NoMethod /\ q.headers = <<>> /\ q.headers_index = 0
        /\ q.data = <<>> /\ q.complete = FALSE /\ q.parser_method = m.method
    BY DEF NewRequest, Nothing
  <2>4. <<>> \o m.url = m.url
    BY <1>0 DEF Words
  <2>5. /\ p.url = m.url /\ p.method = NoMethod /\ p.headers = <<>> /\ p.headers_index = 0
        /\ p.data = <<>> /\ p.complete = FALSE /\ p.parser_method = m.method
    <3> HIDE DEF q, p
    <3> QED BY <1>3, <2>2, <2>3, <2>4 DEF Requests
  <2>6. HeadersOf(m.headers, 0) = <<>>
    BY DEF HeadersOf
  <2>7. /\ new.url = m.url /\ new.method = NoMethod /\ new.headers = <<>> /\ new.headers_index = 0
        /\ new.data = <<>> /\ new.complete = FALSE /\ new.parser_method = m.method
    BY <2>6 DEF Built
  <2> HIDE DEF p, new
  <2>8. p = new
    BY <2>1, <2>5, <2>7, SameRequest
  <2>9. QED
    BY <2>8 DEF p, new
<1>6. Gives(NewRequest, Beginning(m), Built(m, 0))
  <2> HIDE DEF q
  <2> QED BY <1>1, <1>2, <1>3, <1>4, <1>5, GivesThen, Zenon DEF Beginning
<1>7. Gives(NewRequest, Beginning(m) \o AllHeaders(m), built)
  BY <1>1, <1>6, HeadersGive, GivesThen, Zenon
<1>8. built \in Requests /\ ~Fresh(built)
  <2>1. Len(m.headers) \in 0 .. Len(m.headers)
    BY <1>0
  <2>2. QED
    BY <2>1, BuiltTyped
<1>9. Gives(built, Ending(m.body), Whole(m))
  <2>1. built.data = <<>>
    BY DEF Built
  <2>2. Gives(built, Ending(m.body), OnMessageComplete([built EXCEPT !.data = m.body]))
    <3> HIDE DEF built
    <3> QED BY <1>0, <1>8, <2>1, EndingGives
  <2>3. QED
    BY <2>2 DEF Whole
<1>10. Gives(NewRequest, (Beginning(m) \o AllHeaders(m)) \o Ending(m.body), Whole(m))
  <2> HIDE DEF built
  <2> QED BY <1>1, <1>7, <1>9, GivesThen, Zenon
<1>11. QED
  BY <1>10, WireIs, Zenon

LEMMA WholeIs ==
  ASSUME NEW m \in Messages
  PROVE  /\ Whole(m) \in Requests
         /\ Whole(m).method = m.method /\ Whole(m).url = m.url /\ Whole(m).data = m.body
         /\ Whole(m).headers = HeadersOf(m.headers, Len(m.headers))
         /\ Whole(m).complete = TRUE
<1> DEFINE built == Built(m, Len(m.headers))
           full == [built EXCEPT !.data = m.body]
<1>0. m.body \in Texts /\ m.method \in Letters /\ Len(m.headers) \in Nat
  BY WordsAreTexts, CharacterAssumption DEF Messages, Letters
<1>1. built \in Requests
  <2>1. Len(m.headers) \in 0 .. Len(m.headers)
    BY <1>0
  <2>2. QED
    BY <2>1, BuiltTyped
<1>2. /\ built.parser_method = m.method /\ built.url = m.url
      /\ built.headers = HeadersOf(m.headers, Len(m.headers))
  BY DEF Built
<1> HIDE DEF built
<1>3. /\ full \in Requests /\ full.data = m.body /\ full.url = m.url
      /\ full.headers = HeadersOf(m.headers, Len(m.headers)) /\ full.parser_method = m.method
  BY <1>0, <1>1, <1>2 DEF Requests
<1>4. Whole(m) = OnMessageComplete(full)
  BY DEF Whole, built
<1> HIDE DEF full
<1>5. QED
  BY <1>0, <1>3, <1>4 DEF OnMessageComplete, Requests

(* A request of any number of headers, of any lengths, is put together as  *)
(* it was sent.                                                            *)
THEOREM WholeRequest ==
  ASSUME NEW m \in Messages
  PROVE  LET after == AddData(NewRequest, Wire(m))
             r == after.request
         IN  /\ after.error = FALSE /\ r.complete = TRUE
             /\ r.method = m.method /\ r.url = m.url /\ r.data = m.body
             /\ Len(r.headers) = 2 * Len(m.headers)
             /\ \A k \in 1 .. Len(m.headers) :
                  /\ r.headers[2 * k - 1] = m.headers[k][1]
                  /\ r.headers[2 * k] = m.headers[k][2]
<1>1. AddData(NewRequest, Wire(m)).error = FALSE /\ AddData(NewRequest, Wire(m)).request = Whole(m)
  BY WireGives DEF Gives
<1>2. Len(m.headers) \in Nat /\ m.headers \in Seq(Words \X Words)
  BY DEF Messages
<1> DEFINE all == HeadersOf(m.headers, Len(m.headers))
<1>3. Len(all) = 2 * Len(m.headers)
  BY <1>2, HeadersTyped
<1>4. ASSUME NEW k \in 1 .. Len(m.headers)
      PROVE  all[2 * k - 1] = m.headers[k][1] /\ all[2 * k] = m.headers[k][2]
  <2>1. /\ 2 * k - 1 \in 1 .. 2 * Len(m.headers) /\ 2 * k \in 1 .. 2 * Len(m.headers)
        /\ (2 * k - 1) % 2 = 1 /\ ((2 * k - 1) + 1) \div 2 = k
        /\ (2 * k) % 2 # 1 /\ (2 * k) \div 2 = k
    BY <1>2
  <2>2. \A i \in 1 .. 2 * Len(m.headers) :
          all[i] = IF i % 2 = 1 THEN m.headers[(i + 1) \div 2][1] ELSE m.headers[i \div 2][2]
    BY DEF HeadersOf
  <2> HIDE DEF all
  <2>3. QED
    BY <2>1, <2>2
<1> HIDE DEF all
<1>5. /\ Whole(m).complete = TRUE /\ Whole(m).headers = all
      /\ Whole(m).method = m.method /\ Whole(m).url = m.url /\ Whole(m).data = m.body
  BY WholeIs DEF all
<1> DEFINE after == AddData(NewRequest, Wire(m))
<1>6. after.error = FALSE /\ after.request = Whole(m)
  BY <1>1
<1> HIDE DEF after
<1>7. /\ after.error = FALSE /\ after.request.complete = TRUE
      /\ after.request.method = m.method /\ after.request.url = m.url
      /\ after.request.data = m.body
      /\ Len(after.request.headers) = 2 * Len(m.headers)
      /\ \A k \in 1 .. Len(m.headers) :
           /\ after.request.headers[2 * k - 1] = m.headers[k][1]
           /\ after.request.headers[2 * k] = m.headers[k][2]
  BY <1>3, <1>4, <1>5, <1>6
<1>8. QED
  BY <1>7 DEF after

-----------------------------------------------------------------------------
(* What the order of the units in a stream tells: only the last unit of a  *)
(* message is marked, and a value comes after the end of its name.         *)
EndsName(unit) == unit.part = "field" /\ unit.c = "end"
Since(read, j, k) == EndsName(read[j]) /\ \A i \in j .. k : read[i].part # "method"
Led(read) ==
  \A k \in 1 .. Len(read) : read[k].part = "value" => \E j \in 1 .. k - 1 : Since(read, j, k)
NotLast(read) == \A k \in 1 .. Len(read) : read[k].last = FALSE
Plain(read) == read \in Seq(Units) /\ Led(read) /\ NotLast(read)

LEMMA ConcatPlain ==
  ASSUME NEW a, NEW b, Plain(a), Plain(b)
  PROVE  Plain(a \o b)
<1> DEFINE n == Len(a)
           c == a \o b
<1>1. /\ n \in Nat /\ Len(b) \in Nat /\ c \in Seq(Units) /\ Len(c) = n + Len(b)
      /\ \A k \in 1 .. n : c[k] = a[k]
      /\ \A k \in n + 1 .. n + Len(b) : c[k] = b[k - n]
  BY ConcatUnits DEF Plain
<1> HIDE DEF c
<1>2. ASSUME NEW k \in 1 .. Len(c)
      PROVE  /\ c[k].last = FALSE
             /\ c[k].part = "value" => \E j \in 1 .. k - 1 : Since(c, j, k)
  <2>1. CASE k <= n
    <3>1. k \in 1 .. n /\ \A j \in 1 .. k - 1 : j \in 1 .. n
      BY <1>1, <2>1
    <3>2. c[k] = a[k] /\ \A j \in 1 .. k - 1 : c[j] = a[j]
      BY <1>1, <3>1, Zenon
    <3>3. ASSUME c[k].part = "value" PROVE \E j \in 1 .. k - 1 : Since(c, j, k)
      <4>1. PICK j \in 1 .. k - 1 : Since(a, j, k)
        BY <3>1, <3>2, <3>3 DEF Plain, Led
      <4>2. \A i \in j .. k : i \in 1 .. n
        BY <3>1
      <4>3. Since(c, j, k)
        BY <3>2, <4>1, <4>2, <1>1 DEF Since
      <4>4. QED
        BY <4>3
    <3>4. QED
      BY <3>1, <3>2, <3>3 DEF Plain, NotLast
  <2>2. CASE k > n
    <3>1. k \in n + 1 .. n + Len(b) /\ k - n \in 1 .. Len(b)
      BY <1>1, <2>2
    <3>2. c[k] = b[k - n] /\ b[k - n].last = FALSE
      BY <1>1, <3>1, Zenon DEF Plain, NotLast
    <3>3. ASSUME b[k - n].part = "value" PROVE \E j \in 1 .. k - 1 : Since(c, j, k)
      <4>1. PICK i \in 1 .. (k - n) - 1 : Since(b, i, k - n)
        BY <3>1, <3>3, Zenon DEF Plain, Led
      <4>2. n + i \in 1 .. k - 1 /\ n + i \in n + 1 .. n + Len(b) /\ (n + i) - n = i
        BY <1>1, <3>1
      <4>3. c[n + i] = b[(n + i) - n]
        BY <1>1, <4>2, Zenon
      <4>4. ASSUME NEW l \in n + i .. k PROVE c[l].part # "method"
        <5>1. l \in n + 1 .. n + Len(b) /\ l - n \in i .. k - n
          BY <1>1, <3>1
        <5>2. c[l] = b[l - n]
          BY <1>1, <5>1, Zenon
        <5>3. QED
          BY <4>1, <5>1, <5>2, Zenon DEF Since
      <4>5. Since(c, n + i, k)
        BY <4>1, <4>2, <4>3, <4>4, Zenon DEF Since
      <4>6. QED
        BY <4>2, <4>5
    <3>4. QED
      BY <3>2, <3>3
  <2>3. k <= n \/ k > n
    BY <1>1
  <2>4. QED
    BY <2>1, <2>2, <2>3, Zenon
<1>3. QED
  BY <1>1, <1>2 DEF Plain, Led, NotLast, c

LEMMA CharsPlain ==
  ASSUME NEW part \in Parts, NEW text \in Words
  PROVE  /\ NotLast(Chars(part, text)) /\ NotLast(<<End(part)>>)
         /\ part # "value" => Plain(Chars(part, text)) /\ Plain(<<End(part)>>)
<1> DEFINE a == Chars(part, text)
           b == <<End(part)>>
<1>1. /\ a \in Seq(Units) /\ Len(a) = Len(text) /\ b \in Seq(Units) /\ Len(b) = 1
      /\ \A k \in 1 .. Len(text) : a[k] = Char(part, text[k])
      /\ b[1] = End(part)
  BY CharsTyped, OneUnit
<1> HIDE DEF a, b
<1>2. \A k \in 1 .. Len(a) : a[k].part = part /\ a[k].last = FALSE
  <2> TAKE k \in 1 .. Len(a)
  <2>1. a[k] = Char(part, text[k])
    BY <1>1
  <2>2. QED
    BY <2>1 DEF Char
<1>3. \A k \in 1 .. Len(b) : b[k].part = part /\ b[k].last = FALSE
  BY <1>1 DEF End
<1>4. QED
  BY <1>1, <1>2, <1>3 DEF Plain, Led, NotLast, a, b

LEMMA PiecePlain ==
  ASSUME NEW part \in Parts, part # "value", NEW text \in Words
  PROVE  Plain(Piece(part, text))
BY CharsPlain, ConcatPlain DEF Piece

LEMMA HeaderPlain ==
  ASSUME NEW h \in Words \X Words
  PROVE  Plain(HeaderUnits(h))
<1> DEFINE a == Piece("field", h[1])
           b == Piece("value", h[2])
           n == Len(a)
           c == a \o b
<1>1. h[1] \in Words /\ h[2] \in Words /\ "field" \in Parts /\ "value" \in Parts
  BY DEF Parts
<1>2. a \in Seq(Units) /\ b \in Seq(Units) /\ Plain(a)
  BY <1>1, PieceTyped, PiecePlain
<1>3. NotLast(b) /\ \A k \in 1 .. Len(b) : b[k].part = "value"
  <2> DEFINE p == Chars("value", h[2])
             q == <<End("value")>>
  <2>0. /\ Len(p) = Len(h[2]) /\ \A k \in 1 .. Len(h[2]) : p[k] = Char("value", h[2][k])
        /\ q[1] = End("value") /\ Len(q) = 1
    BY <1>1, CharsTyped, OneUnit
  <2>1. p \in Seq(Units) /\ q \in Seq(Units) /\ NotLast(p) /\ NotLast(q) /\ b = p \o q
    BY <1>1, CharsTyped, CharsPlain, OneUnit DEF Piece
  <2> HIDE DEF p, q, b
  <2>2. /\ Len(b) = Len(p) + Len(q) /\ \A k \in 1 .. Len(p) : b[k] = p[k]
        /\ \A k \in Len(p) + 1 .. Len(p) + Len(q) : b[k] = q[k - Len(p)]
        /\ Len(p) \in Nat /\ Len(q) \in Nat
    BY <2>1, ConcatUnits
  <2>4. \A k \in 1 .. Len(p) : p[k].part = "value"
    <3> TAKE k \in 1 .. Len(p)
    <3>1. p[k] = Char("value", h[2][k])
      BY <2>0
    <3>2. QED
      BY <3>1 DEF Char
  <2>5. \A k \in 1 .. Len(q) : q[k].part = "value"
    BY <2>0 DEF End
  <2>3. ASSUME NEW k \in 1 .. Len(b) PROVE b[k].last = FALSE /\ b[k].part = "value"
    <3>1. k \in 1 .. Len(p) \/ (k \in Len(p) + 1 .. Len(p) + Len(q) /\ k - Len(p) \in 1 .. Len(q))
      BY <2>2
    <3>2. QED
      BY <2>1, <2>2, <2>4, <2>5, <3>1 DEF NotLast
  <2>6. QED
    BY <2>3 DEF NotLast
<1>8. \A k \in 1 .. n : a[k].part = "field"
  <2> DEFINE p == Chars("field", h[1])
             q == <<End("field")>>
  <2>1. /\ p \in Seq(Units) /\ q \in Seq(Units) /\ Len(q) = 1 /\ q[1] = End("field")
        /\ Len(p) = Len(h[1]) /\ \A k \in 1 .. Len(h[1]) : p[k] = Char("field", h[1][k])
        /\ a = p \o q
    BY <1>1, CharsTyped, OneUnit DEF Piece
  <2> HIDE DEF p, q, a
  <2>2. /\ Len(a) = Len(p) + Len(q) /\ Len(p) \in Nat
        /\ \A k \in 1 .. Len(p) : a[k] = p[k]
        /\ \A k \in Len(p) + 1 .. Len(p) + Len(q) : a[k] = q[k - Len(p)]
    <3>1. /\ Len(p \o q) = Len(p) + Len(q)
          /\ \A k \in 1 .. Len(p) : (p \o q)[k] = p[k]
          /\ \A k \in Len(p) + 1 .. Len(p) + Len(q) : (p \o q)[k] = q[k - Len(p)]
      BY <2>1, ConcatUnits, Zenon
    <3>2. Len(p) \in Nat
      BY <2>1
    <3>3. QED
      BY <2>1, <3>1, <3>2, Zenon
  <2>3. ASSUME NEW k \in 1 .. n PROVE a[k].part = "field"
    <3>1. CASE k <= Len(p)
      <4>1. k \in 1 .. Len(p)
        BY <2>2, <3>1
      <4>2. a[k] = Char("field", h[1][k])
        BY <2>1, <2>2, <4>1, Zenon
      <4>3. QED
        BY <4>2 DEF Char
    <3>2. CASE k > Len(p)
      <4>1. k \in Len(p) + 1 .. Len(p) + Len(q) /\ k - Len(p) = 1
        BY <2>1, <2>2, <3>2
      <4>2. a[k] = End("field")
        BY <2>1, <2>2, <4>1
      <4>3. QED
        BY <4>2 DEF End
    <3>3. QED
      BY <2>2, <3>1, <3>2
  <2>4. QED
    BY <2>3
<1>4. n \in 1 .. n /\ EndsName(a[n])
  <2> DEFINE p == Chars("field", h[1])
             q == <<End("field")>>
  <2>1. p \in Seq(Units) /\ q \in Seq(Units) /\ Len(q) = 1 /\ q[1] = End("field") /\ a = p \o q
    BY <1>1, CharsTyped, OneUnit DEF Piece
  <2> HIDE DEF p, q, a
  <2>2. /\ Len(a) = Len(p) + Len(q) /\ Len(p) \in Nat
        /\ \A k \in Len(p) + 1 .. Len(p) + Len(q) : a[k] = q[k - Len(p)]
    <3>1. /\ Len(p \o q) = Len(p) + Len(q)
          /\ \A k \in Len(p) + 1 .. Len(p) + Len(q) : (p \o q)[k] = q[k - Len(p)]
      BY <2>1, ConcatUnits, Zenon
    <3>2. Len(p) \in Nat
      BY <2>1
    <3>3. QED
      BY <2>1, <3>1, <3>2, Zenon
  <2>3. n = Len(p) + 1 /\ n \in Len(p) + 1 .. Len(p) + Len(q) /\ n - Len(p) = 1 /\ n \in 1 .. n
    BY <2>1, <2>2
  <2>4. a[n] = End("field")
    BY <2>1, <2>2, <2>3
  <2>5. QED
    BY <2>3, <2>4 DEF EndsName, End
<1> HIDE DEF a, b
<1>5. /\ n \in Nat /\ Len(b) \in Nat /\ c \in Seq(Units) /\ Len(c) = n + Len(b)
      /\ \A k \in 1 .. n : c[k] = a[k]
      /\ \A k \in n + 1 .. n + Len(b) : c[k] = b[k - n]
  BY <1>2, ConcatUnits
<1> HIDE DEF c
<1>6. ASSUME NEW k \in 1 .. Len(c)
      PROVE  /\ c[k].last = FALSE
             /\ c[k].part = "value" => \E j \in 1 .. k - 1 : Since(c, j, k)
  <2>1. CASE k <= n
    <3>1. k \in 1 .. n /\ \A j \in 1 .. k - 1 : j \in 1 .. n
      BY <1>5, <2>1
    <3>2. c[k] = a[k] /\ \A j \in 1 .. k - 1 : c[j] = a[j]
      BY <1>5, <3>1, Zenon
    <3>3. c[k].part # "value"
      <4>1. a[k].part = "field"
        BY <1>8, <3>1
      <4>2. QED
        BY <3>2, <4>1
    <3>4. QED
      BY <1>2, <3>1, <3>2, <3>3 DEF Plain, NotLast
  <2>2. CASE k > n
    <3>1. k \in n + 1 .. n + Len(b) /\ k - n \in 1 .. Len(b) /\ n \in 1 .. k - 1
      BY <1>4, <1>5, <2>2
    <3>2. c[k] = b[k - n] /\ b[k - n].last = FALSE
      BY <1>3, <1>5, <3>1, Zenon DEF NotLast
    <3>3. c[n] = a[n]
      BY <1>4, <1>5, Zenon
    <3>4. ASSUME NEW i \in n .. k PROVE c[i].part # "method"
      <4>1. CASE i = n
        BY <1>4, <3>3, <4>1 DEF EndsName
      <4>2. CASE i # n
        <5>1. i \in n + 1 .. n + Len(b) /\ i - n \in 1 .. Len(b)
          BY <1>5, <3>1, <4>2
        <5>2. c[i] = b[i - n] /\ b[i - n].part = "value"
          BY <1>3, <1>5, <5>1, Zenon
        <5>3. QED
          BY <5>2
      <4>3. QED
        BY <4>1, <4>2
    <3>5. Since(c, n, k)
      BY <1>4, <3>3, <3>4, Zenon DEF Since
    <3>6. QED
      BY <3>1, <3>2, <3>5
  <2>3. k <= n \/ k > n
    BY <1>5
  <2>4. QED
    BY <2>1, <2>2, <2>3, Zenon
<1>7. QED
  BY <1>5, <1>6 DEF Plain, Led, NotLast, HeaderUnits, a, b, c

LEMMA NothingPlain == Plain(<<>>)
BY DEF Plain, Led, NotLast

LEMMA AllHeadersPlain ==
  ASSUME NEW m \in Messages
  PROVE  Plain(AllHeaders(m))
<1> DEFINE n == Len(m.headers)
           seqs == [k \in 1 .. n |-> HeaderUnits(m.headers[k])]
<1>1. n \in Nat /\ m.headers \in Seq(Words \X Words)
  BY DEF Messages
<1>2. \A k \in 1 .. n : Plain(HeaderUnits(m.headers[k]))
  <2> TAKE k \in 1 .. n
  <2>1. m.headers[k] \in Words \X Words
    BY <1>1
  <2>2. QED
    BY <2>1, HeaderPlain
<1>3. /\ seqs \in Seq(Seq(Units)) /\ Len(seqs) = n
      /\ \A k \in 1 .. n : seqs[k] = HeaderUnits(m.headers[k])
  BY <1>1, <1>2 DEF Plain
<1>4. AllHeaders(m) = FlattenSeq(seqs)
  BY DEF AllHeaders
<1> HIDE DEF seqs
<1>5. PICK f : /\ f[0] = <<>> /\ FlattenSeq(seqs) = f[Len(seqs)]
               /\ \A k \in 1 .. Len(seqs) : f[k] = f[k - 1] \o seqs[k]
  BY <1>3, Flattens
<1> DEFINE T == {k \in 0 .. n : Plain(f[k])}
<1>6. 0 \in T
  BY <1>1, <1>5, NothingPlain
<1>7. ASSUME NEW k \in 0 .. n - 1, k \in T PROVE k + 1 \in T
  <2>1. k + 1 \in 1 .. n /\ (k + 1) - 1 = k
    BY <1>1
  <2>2. f[k + 1] = f[(k + 1) - 1] \o seqs[k + 1] /\ Plain(seqs[k + 1])
    BY <1>2, <1>3, <1>5, <2>1
  <2>3. Plain(f[k + 1])
    BY <1>7, <2>1, <2>2, ConcatPlain
  <2>4. QED
    BY <2>1, <2>3
<1>8. 0 .. n \subseteq T
  <2> HIDE DEF T, n
  <2>1. \A k \in 0 .. n - 1 : k \in T => k + 1 \in T
    BY <1>7
  <2>2. QED
    BY <1>1, <1>6, <2>1, UpTo
<1>9. QED
  BY <1>1, <1>3, <1>4, <1>5, <1>8

LEMMA WireEnds ==
  ASSUME NEW m \in Messages
  PROVE  /\ Wire(m) \in Seq(Units) /\ Len(Wire(m)) \in Nat \ {0}
         /\ \A k \in 1 .. Len(Wire(m)) - 1 : Wire(m)[k].last = FALSE
         /\ Wire(m)[Len(Wire(m))].last = TRUE
         /\ Led(Wire(m)) /\ Joined(Wire(m))
<1> DEFINE a == Beginning(m) \o AllHeaders(m)
           b == <<End("headers")>> \o Chars("body", m.body)
           all == a \o b
<1>1. Plain(a)
  <2>1. m.method \in Characters /\ m.url \in Words
    BY DEF Messages
  <2>2. Plain(<<Char("method", m.method)>>)
    <3> DEFINE unit == Char("method", m.method)
               one == <<unit>>
    <3>1. unit \in Units /\ unit.last = FALSE /\ unit.part = "method"
      BY <2>1, CharacterAssumption DEF Char, Units, Parts, Letters
    <3>2. one \in Seq(Units) /\ Len(one) = 1 /\ one[1] = unit
      BY <3>1, OneUnit
    <3> HIDE DEF one, unit
    <3>3. Plain(one)
      BY <3>1, <3>2 DEF Plain, Led, NotLast
    <3>4. QED
      BY <3>3 DEF one, unit
  <2>3. Plain(Piece("url", m.url))
    BY <2>1, PiecePlain DEF Parts
  <2>4. Plain(Beginning(m))
    BY <2>2, <2>3, ConcatPlain DEF Beginning
  <2>5. QED
    BY <2>4, AllHeadersPlain, ConcatPlain
<1>2. Plain(b) /\ b # <<>>
  <2>1. m.body \in Words /\ <<>> \in Words /\ "headers" \in Parts /\ "body" \in Parts
    BY DEF Messages, Parts, Words
  <2>2. Plain(<<End("headers")>>) /\ Plain(Chars("body", m.body))
    BY <2>1, CharsPlain
  <2>3. Plain(b)
    BY <2>2, ConcatPlain
  <2>4. Len(b) # 0
    <3> DEFINE e == <<End("headers")>>
               f == Chars("body", m.body)
    <3>1. e \in Seq(Units) /\ f \in Seq(Units) /\ Len(e) = 1
      BY <2>2 DEF Plain
    <3> HIDE DEF e, f
    <3>2. Len(e \o f) = Len(e) + Len(f) /\ Len(f) \in Nat
      BY <3>1, ConcatUnits
    <3>3. Len(e \o f) # 0
      BY <3>1, <3>2
    <3>4. QED
      BY <3>3 DEF e, f
  <2> HIDE DEF b
  <2>5. QED
    BY <2>3, <2>4
<1>3. Wire(m) = EndMarked(all)
  <2>1. Wire(m) = a \o EndMarked(b)
    BY WireIs, Zenon DEF Ending
  <2> HIDE DEF a, b
  <2>2. EndMarked(a \o b) = a \o EndMarked(b)
    BY <1>1, <1>2, EndMarkedLater DEF Plain
  <2>3. QED
    BY <2>1, <2>2
<1> HIDE DEF a, b
<1>4. Plain(all)
  BY <1>1, <1>2, ConcatPlain
<1>5. all # <<>>
  <2>1. a \in Seq(Units) /\ b \in Seq(Units) /\ Len(b) # 0
    BY <1>1, <1>2 DEF Plain
  <2>2. Len(all) = Len(a) + Len(b) /\ Len(a) \in Nat /\ Len(b) \in Nat
    BY <2>1, ConcatUnits
  <2> HIDE DEF all
  <2>3. QED
    BY <2>1, <2>2
<1> HIDE DEF all
<1> DEFINE w == EndMarked(all)
           n == Len(all)
<1>6. /\ w \in Seq(Units) /\ Len(w) = n /\ n \in Nat \ {0}
      /\ \A k \in 1 .. n - 1 : w[k] = all[k]
      /\ w[n].last = TRUE /\ w[n].part = all[n].part /\ w[n].c = all[n].c
  <2>1. all \in Seq(Units)
    BY <1>4 DEF Plain
  <2>2. QED
    BY <1>5, <2>1, EndMarkedIs
<1> HIDE DEF w
<1>7. \A k \in 1 .. n : w[k].part = all[k].part /\ w[k].c = all[k].c
  <2> TAKE k \in 1 .. n
  <2>1. k \in 1 .. n - 1 \/ k = n
    BY <1>6
  <2>2. QED
    BY <1>6, <2>1
<1>8. Led(w)
  <2> SUFFICES ASSUME NEW k \in 1 .. n, w[k].part = "value"
               PROVE  \E j \in 1 .. k - 1 : Since(w, j, k)
    BY <1>6 DEF Led
  <2>1. PICK j \in 1 .. k - 1 : Since(all, j, k)
    BY <1>4, <1>7 DEF Plain, Led
  <2>2. j \in 1 .. n /\ \A i \in j .. k : i \in 1 .. n
    BY <1>6
  <2>3. Since(w, j, k)
    BY <1>7, <2>1, <2>2 DEF Since, EndsName
  <2>4. QED
    BY <2>3
<1>9. \A k \in 1 .. n - 1 : w[k].last = FALSE
  <2> TAKE k \in 1 .. n - 1
  <2>1. k \in 1 .. n
    BY <1>6
  <2>2. QED
    BY <1>4, <1>6, <2>1 DEF Plain, NotLast
<1>10. Joined(Wire(m))
  BY WireGives DEF Gives
<1>11. QED
  BY <1>3, <1>6, <1>8, <1>9, <1>10 DEF w

-----------------------------------------------------------------------------
(* The parts of a stream that are read one after the other.                *)
LEMMA FrontIs ==
  ASSUME NEW s \in Seq(Units), NEW n \in 0 .. Len(s)
  PROVE  /\ SubSeq(s, 1, n) \in Seq(Units) /\ Len(SubSeq(s, 1, n)) = n
         /\ \A k \in 1 .. n : SubSeq(s, 1, n)[k] = s[k]
OBVIOUS

LEMMA RestIs ==
  ASSUME NEW s \in Seq(Units), NEW n \in 0 .. Len(s)
  PROVE  /\ SubSeq(s, n + 1, Len(s)) \in Seq(Units)
         /\ Len(SubSeq(s, n + 1, Len(s))) = Len(s) - n
         /\ \A k \in 1 .. Len(s) - n : SubSeq(s, n + 1, Len(s))[k] = s[n + k]
OBVIOUS

LEMMA FrontOfRest ==
  ASSUME NEW s \in Seq(Units), NEW n \in 0 .. Len(s), NEW k \in 0 .. Len(s) - n
  PROVE  SubSeq(s, 1, n) \o SubSeq(SubSeq(s, n + 1, Len(s)), 1, k) = SubSeq(s, 1, n + k)
<1> DEFINE a == SubSeq(s, 1, n)
           rest == SubSeq(s, n + 1, Len(s))
           b == SubSeq(rest, 1, k)
           c == SubSeq(s, 1, n + k)
           d == a \o b
<1>1. a \in Seq(Units) /\ Len(a) = n /\ \A i \in 1 .. n : a[i] = s[i]
  BY FrontIs, Zenon
<1>2. /\ rest \in Seq(Units) /\ Len(rest) = Len(s) - n
      /\ \A i \in 1 .. Len(s) - n : rest[i] = s[n + i]
  BY RestIs, Zenon
<1> HIDE DEF rest
<1>3. b \in Seq(Units) /\ Len(b) = k /\ \A i \in 1 .. k : b[i] = rest[i]
  <2>1. k \in 0 .. Len(rest)
    BY <1>2
  <2>2. QED
    BY <1>2, <2>1, FrontIs, Zenon
<1>4. c \in Seq(Units) /\ Len(c) = n + k /\ \A i \in 1 .. n + k : c[i] = s[i]
  <2>1. n + k \in 0 .. Len(s)
    OBVIOUS
  <2>2. QED
    BY <2>1, FrontIs, Zenon
<1> HIDE DEF a, b, c
<1>5. /\ d \in Seq(Units) /\ Len(d) = n + k
      /\ \A i \in 1 .. n : d[i] = a[i]
      /\ \A i \in n + 1 .. n + k : d[i] = b[i - n]
  BY <1>1, <1>3, ConcatUnits
<1> HIDE DEF d
<1>6. ASSUME NEW i \in 1 .. n + k PROVE d[i] = c[i]
  <2>1. CASE i <= n
    <3>1. i \in 1 .. n
      BY <2>1
    <3>2. QED
      BY <1>1, <1>4, <1>5, <3>1, Zenon
  <2>2. CASE i > n
    <3>1. i \in n + 1 .. n + k /\ i - n \in 1 .. k /\ i - n \in 1 .. Len(s) - n /\ n + (i - n) = i
      BY <2>2
    <3>2. d[i] = b[i - n] /\ b[i - n] = rest[i - n] /\ rest[i - n] = s[n + (i - n)] /\ c[i] = s[i]
      BY <1>2, <1>3, <1>4, <1>5, <3>1, Zenon
    <3>3. QED
      BY <3>1, <3>2
  <2>3. QED
    BY <2>1, <2>2
<1>7. d = c
  BY <1>4, <1>5, <1>6
<1>8. QED
  BY <1>7 DEF a, b, c, d, rest

LEMMA RestOfRest ==
  ASSUME NEW s \in Seq(Units), NEW n \in 0 .. Len(s), NEW k \in 0 .. Len(s) - n
  PROVE  LET rest == SubSeq(s, n + 1, Len(s))
         IN  SubSeq(rest, k + 1, Len(rest)) = SubSeq(s, n + k + 1, Len(s))
<1> DEFINE rest == SubSeq(s, n + 1, Len(s))
           a == SubSeq(rest, k + 1, Len(rest))
           b == SubSeq(s, n + k + 1, Len(s))
<1>1. /\ rest \in Seq(Units) /\ Len(rest) = Len(s) - n
      /\ \A i \in 1 .. Len(s) - n : rest[i] = s[n + i]
  BY RestIs, Zenon
<1> HIDE DEF rest
<1>2. /\ a \in Seq(Units) /\ Len(a) = Len(s) - n - k
      /\ \A i \in 1 .. Len(s) - n - k : a[i] = rest[k + i]
  <2>1. k \in 0 .. Len(rest) /\ Len(rest) - k = Len(s) - n - k
    BY <1>1
  <2>2. /\ a \in Seq(Units) /\ Len(a) = Len(rest) - k
        /\ \A i \in 1 .. Len(rest) - k : a[i] = rest[k + i]
    BY <1>1, <2>1, RestIs, Zenon
  <2> HIDE DEF a
  <2>3. QED
    BY <2>1, <2>2
<1>3. /\ b \in Seq(Units) /\ Len(b) = Len(s) - n - k
      /\ \A i \in 1 .. Len(s) - n - k : b[i] = s[n + k + i]
  <2>1. n + k \in 0 .. Len(s) /\ Len(s) - (n + k) = Len(s) - n - k
    OBVIOUS
  <2>2. /\ b \in Seq(Units) /\ Len(b) = Len(s) - (n + k)
        /\ \A i \in 1 .. Len(s) - (n + k) : b[i] = s[n + k + i]
    BY <2>1, RestIs, Zenon
  <2> HIDE DEF b
  <2>3. QED
    BY <2>1, <2>2
<1> HIDE DEF a, b
<1>4. ASSUME NEW i \in 1 .. Len(s) - n - k PROVE a[i] = b[i]
  <2>1. k + i \in 1 .. Len(s) - n /\ n + (k + i) = n + k + i
    OBVIOUS
  <2>2. a[i] = rest[k + i] /\ b[i] = s[n + k + i] /\ rest[k + i] = s[n + (k + i)]
    BY <1>1, <1>2, <1>3, <2>1, Zenon
  <2>3. QED
    BY <2>1, <2>2
<1>5. a = b
  <2> DEFINE l == Len(s) - n - k
  <2>1. Len(a) = l /\ Len(b) = l /\ \A i \in 1 .. l : a[i] = b[i]
    BY <1>2, <1>3, <1>4
  <2>2. a \in Seq(Units) /\ b \in Seq(Units)
    BY <1>2, <1>3
  <2> HIDE DEF l
  <2>3. QED
    BY <2>1, <2>2
<1>6. QED
  BY <1>5 DEF a, b, rest

(* The run over a stream begins as the run over its beginning.             *)
LEMMA RunOfFront ==
  ASSUME NEW r \in Requests, NEW c \in Seq(Units), NEW n \in 0 .. Len(c), NEW s, IsRun(s, r, c)
  PROVE  AddData(r, SubSeq(c, 1, n)) = Flush(s[n])
<1> DEFINE a == SubSeq(c, 1, n)
<1>1. a \in Seq(Units) /\ Len(a) = n /\ \A k \in 1 .. n : a[k] = c[k]
  BY FrontIs, Zenon
<1> HIDE DEF a
<1>2. PICK u : IsRun(u, r, a) /\ AddData(r, a) = Flush(u[n])
  <2>1. Len(a) \in Nat
    BY <1>1
  <2>2. PICK u : IsRun(u, r, a) /\ AddData(r, a) = Flush(u[Len(a)])
    BY <2>1, RunExists, Zenon
  <2>3. QED
    BY <1>1, <2>2
<1> DEFINE T == {k \in 0 .. n : u[k] = s[k]}
<1>3. 0 \in T
  BY <1>2 DEF IsRun
<1>4. ASSUME NEW k \in 0 .. n - 1, k \in T PROVE k + 1 \in T
  <2>1. k + 1 \in 1 .. Len(a) /\ k + 1 \in 1 .. Len(c) /\ (k + 1) - 1 = k /\ k + 1 \in 1 .. n
    BY <1>1
  <2>2. u[k + 1] = Parse(u[(k + 1) - 1], a[k + 1]) /\ s[k + 1] = Parse(s[(k + 1) - 1], c[k + 1])
    BY <1>2, <2>1, Zenon DEF IsRun
  <2>3. QED
    BY <1>1, <1>4, <2>1, <2>2
<1>5. 0 .. n \subseteq T
  <2> HIDE DEF T
  <2>1. \A k \in 0 .. n - 1 : k \in T => k + 1 \in T
    BY <1>4
  <2>2. QED
    BY <1>3, <2>1, UpTo
<1>6. u[n] = s[n]
  BY <1>5
<1>7. QED
  BY <1>2, <1>6 DEF a

(* An error is final.                                                      *)
LEMMA NoErrorBefore ==
  ASSUME NEW r \in Requests, NEW c \in Seq(Units), NEW n \in 0 .. Len(c), NEW s, IsRun(s, r, c),
         ~s[Len(c)].error
  PROVE  ~s[n].error
<1> SUFFICES ASSUME s[n].error PROVE FALSE
  OBVIOUS
<1> DEFINE l == Len(c) - n
           T == {k \in 0 .. l : s[n + k].error}
<1>0. l \in Nat /\ n + l = Len(c) /\ n + 0 = n
  OBVIOUS
<1>1. 0 \in T
  BY <1>0
<1>2. ASSUME NEW k \in 0 .. l - 1, k \in T PROVE k + 1 \in T
  <2>1. /\ n + k + 1 \in 1 .. Len(c) /\ (n + k + 1) - 1 = n + k /\ n + (k + 1) = n + k + 1
        /\ n + k \in 0 .. Len(c)
    OBVIOUS
  <2>2. s[n + k + 1] = Parse(s[(n + k + 1) - 1], c[n + k + 1])
    BY <2>1, Zenon DEF IsRun
  <2>3. s[n + k] \in States /\ c[n + k + 1] \in Units /\ s[n + k].error
    BY <1>2, <2>1, RunTyped
  <2>4. Parse(s[n + k], c[n + k + 1]) = s[n + k]
    BY <2>3, ParseCases DEF Skips
  <2>5. QED
    BY <2>1, <2>2, <2>3, <2>4
<1>3. 0 .. l \subseteq T
  <2> HIDE DEF T, l
  <2>1. \A k \in 0 .. l - 1 : k \in T => k + 1 \in T
    BY <1>2
  <2>2. QED
    BY <1>0, <1>1, <2>1, UpTo
<1>4. l \in 0 .. l
  BY <1>0
<1>5. s[n + l].error
  <2> HIDE DEF l
  <2> QED BY <1>3, <1>4
<1>6. QED
  <2> HIDE DEF l
  <2> QED BY <1>0, <1>5

(* Only the last unit of a message completes a request.                    *)
LEMMA KeepsComplete ==
  ASSUME NEW p \in States, NEW unit \in Units, unit.last = FALSE
  PROVE  Parse(p, unit).request.complete = p.request.complete
<1>1. p.request \in Requests /\ p.text \in Texts
  BY DEF States
<1>2. CASE Skips(p, unit)
  BY <1>2, ParseCases
<1>3. CASE Stops(p, unit)
  <2>1. Parse(p, unit) = [p EXCEPT !.error = TRUE]
    BY <1>3, ParseCases, Zenon
  <2>2. QED
    BY <2>1 DEF States
<1>4. CASE ~Skips(p, unit) /\ unit.part = "method"
  <2> DEFINE r == Marked([p.request EXCEPT !.parser_method = unit.c], unit)
  <2>1. Parse(p, unit) = [request |-> r, part |-> "method", text |-> <<>>, error |-> FALSE]
    BY <1>4, ParseCases, Zenon
  <2>2. r.complete = p.request.complete
    BY <1>1 DEF Marked, Requests
  <2> HIDE DEF r
  <2>3. QED
    BY <2>1, <2>2
<1>5. CASE ~Skips(p, unit) /\ ~Stops(p, unit) /\ unit.part # "method" /\ Ends(unit)
  <2> DEFINE r == Marked(Report(p.request, unit.part, With(p.text, unit)), unit)
  <2>1. Parse(p, unit) = [request |-> r, part |-> unit.part, text |-> <<>>, error |-> FALSE]
    BY <1>5, ParseCases, Zenon
  <2>2. r.complete = p.request.complete
    <3>1. With(p.text, unit) \in Texts
      BY <1>1, WithTyped, Zenon
    <3>2. Report(p.request, unit.part, With(p.text, unit)).complete = p.request.complete
      BY <1>1, <3>1, ReportTyped, Zenon
    <3>3. QED
      BY <3>2 DEF Marked
  <2> HIDE DEF r
  <2>3. QED
    BY <2>1, <2>2
<1>6. CASE ~Skips(p, unit) /\ ~Stops(p, unit) /\ unit.part # "method" /\ ~Ends(unit)
  <2>1. Parse(p, unit) = [request |-> p.request, part |-> unit.part,
                          text |-> Append(p.text, unit.c), error |-> FALSE]
    BY <1>6, ParseCases, Zenon
  <2>2. QED
    BY <2>1
<1>7. QED
  BY <1>2, <1>3, <1>4, <1>5, <1>6 DEF Stops

LEMMA CompleteAtLast ==
  ASSUME NEW r \in Requests, NEW c \in Seq(Units), NotLast(c)
  PROVE  AddData(r, c).request.complete = r.complete
<1> DEFINE n == Len(c)
<1>0. n \in Nat
  OBVIOUS
<1>1. PICK s : IsRun(s, r, c) /\ AddData(r, c) = Flush(s[n])
  BY <1>0, RunExists, Zenon
<1> DEFINE T == {k \in 0 .. n : s[k].request.complete = r.complete}
<1>2. 0 \in T
  BY <1>0, <1>1 DEF IsRun, Begin
<1>3. ASSUME NEW k \in 0 .. n - 1, k \in T PROVE k + 1 \in T
  <2>1. k + 1 \in 1 .. n /\ (k + 1) - 1 = k /\ k \in 0 .. n
    OBVIOUS
  <2>2. s[k + 1] = Parse(s[(k + 1) - 1], c[k + 1])
    BY <1>1, <2>1, Zenon DEF IsRun
  <2>3. s[k] \in States /\ c[k + 1] \in Units /\ c[k + 1].last = FALSE
    BY <1>1, <2>1, RunTyped DEF NotLast
  <2>4. Parse(s[k], c[k + 1]).request.complete = s[k].request.complete
    BY <2>3, KeepsComplete
  <2>5. QED
    BY <1>3, <2>1, <2>2, <2>4
<1>4. 0 .. n \subseteq T
  <2> HIDE DEF T, n
  <2>1. \A k \in 0 .. n - 1 : k \in T => k + 1 \in T
    BY <1>3
  <2>2. QED
    BY <1>0, <1>2, <2>1, UpTo
<1>5. s[n].request.complete = r.complete /\ s[n] \in States
  BY <1>0, <1>1, <1>4, RunTyped
<1>6. s[n].request \in Requests /\ s[n].text \in Texts
  BY <1>5 DEF States
<1>7. Flush(s[n]).request.complete = r.complete
  BY <1>5, <1>6, FlushTyped, ReportTyped
<1>8. QED
  BY <1>1, <1>7

(* While a message comes, nothing of it is in error, and it is complete    *)
(* when all of it is there and not before.                                 *)
LEMMA WhileItComes ==
  ASSUME NEW m \in Messages, NEW n \in 0 .. Len(Wire(m))
  PROVE  LET after == AddData(NewRequest, SubSeq(Wire(m), 1, n))
         IN  /\ after \in States /\ after.error = FALSE
             /\ n < Len(Wire(m)) => after.request.complete = FALSE
<1> DEFINE c == Wire(m)
           a == SubSeq(c, 1, n)
<1>0. NewRequest \in Requests /\ NewRequest.complete = FALSE
  <2>1. <<>> \in Seq(Texts) /\ <<>> \in Texts
    BY DEF Texts
  <2>2. QED
    BY <2>1, CharacterAssumption DEF NewRequest, Requests, Nothing, NoMethod, Letters
<1>1. /\ c \in Seq(Units) /\ Len(c) \in Nat /\ \A k \in 1 .. Len(c) - 1 : c[k].last = FALSE
      /\ AddData(NewRequest, c).error = FALSE
  BY WireEnds, WireGives DEF Gives
<1> HIDE DEF c
<1>2. a \in Seq(Units) /\ Len(a) = n /\ \A k \in 1 .. n : a[k] = c[k]
  <2>1. n \in 0 .. Len(c)
    BY DEF c
  <2>2. QED
    BY <1>1, <2>1, FrontIs, Zenon
<1>3. PICK s : IsRun(s, NewRequest, c) /\ AddData(NewRequest, c) = Flush(s[Len(c)])
  BY <1>1, RunExists, Zenon
<1>4. /\ Len(c) \in 0 .. Len(c) /\ n \in 0 .. Len(c)
      /\ s[n] \in States /\ s[Len(c)] \in States
  BY <1>0, <1>1, <1>3, RunTyped DEF c
<1>5. ~s[Len(c)].error
  BY <1>1, <1>3, <1>4, FlushTyped
<1>6. ~s[n].error
  BY <1>0, <1>1, <1>3, <1>4, <1>5, NoErrorBefore
<1>7. AddData(NewRequest, a) = Flush(s[n])
  BY <1>0, <1>1, <1>3, <1>4, RunOfFront
<1>8. AddData(NewRequest, a) \in States /\ AddData(NewRequest, a).error = FALSE
  <2>1. s[n].error \in BOOLEAN
    BY <1>4 DEF States
  <2> HIDE DEF a
  <2>2. QED
    BY <1>4, <1>6, <1>7, <2>1, FlushTyped
<1>9. n < Len(c) => AddData(NewRequest, a).request.complete = FALSE
  <2> SUFFICES ASSUME n < Len(c) PROVE AddData(NewRequest, a).request.complete = FALSE
    OBVIOUS
  <2>1. NotLast(a)
    <3>1. \A k \in 1 .. n : k \in 1 .. Len(c) - 1
      BY <1>1
    <3> HIDE DEF a
    <3>2. QED
      BY <1>1, <1>2, <3>1 DEF NotLast
  <2> HIDE DEF a
  <2>2. QED
    BY <1>0, <1>2, <2>1, CompleteAtLast
<1>10. QED
  BY <1>8, <1>9 DEF a, c

(* Whatever comes next of a message is read on to where it then is.        *)
LEMMA ReadsOn ==
  ASSUME NEW m \in Messages, NEW n \in 0 .. Len(Wire(m)), NEW k \in 0 .. Len(Wire(m)) - n
  PROVE  LET rest == SubSeq(Wire(m), n + 1, Len(Wire(m)))
             before == AddData(NewRequest, SubSeq(Wire(m), 1, n)).request
             after == AddData(NewRequest, SubSeq(Wire(m), 1, n + k))
             next == AddData(before, SubSeq(rest, 1, k))
         IN  next.error = FALSE /\ next.request = after.request
<1> DEFINE c == Wire(m)
           rest == SubSeq(c, n + 1, Len(c))
           a == SubSeq(c, 1, n)
           b == SubSeq(rest, 1, k)
           ab == SubSeq(c, 1, n + k)
<1>0. NewRequest \in Requests
  <2>1. <<>> \in Seq(Texts) /\ <<>> \in Texts
    BY DEF Texts
  <2>2. QED
    BY <2>1, CharacterAssumption DEF NewRequest, Requests, Nothing, NoMethod, Letters
<1>1. c \in Seq(Units) /\ Joined(c) /\ n + k \in 0 .. Len(c)
  <2>1. c \in Seq(Units) /\ Joined(c) /\ Len(c) \in Nat
    BY WireEnds, Zenon
  <2>2. n \in 0 .. Len(c) /\ k \in 0 .. Len(c) - n
    OBVIOUS
  <2> HIDE DEF c
  <2>3. QED
    BY <2>1, <2>2
<1>2. a \o b = ab
  BY <1>1, FrontOfRest
<1>3. a \in Seq(Units) /\ b \in Seq(Units)
  <2>1. rest \in Seq(Units) /\ Len(rest) = Len(c) - n /\ a \in Seq(Units)
    BY <1>1, FrontIs, RestIs, Zenon
  <2>2. k \in 0 .. Len(rest)
    BY <2>1
  <2> HIDE DEF rest, c
  <2>3. QED
    BY <2>1, <2>2, FrontIs, Zenon
<1>4. /\ AddData(NewRequest, a).error = FALSE
      /\ AddData(NewRequest, ab).error = FALSE
  BY <1>1, WhileItComes
<1>5. Joined(ab)
  <2>1. Len(ab) = n + k /\ \A i \in 1 .. n + k : ab[i] = c[i]
    BY <1>1, FrontIs, Zenon
  <2> HIDE DEF ab, c
  <2>2. ASSUME NEW i \in 1 .. Len(ab) - 1, Open(ab[i]) PROVE ab[i + 1].part = ab[i].part
    <3>1. i \in 1 .. n + k /\ i + 1 \in 1 .. n + k /\ i \in 1 .. Len(c) - 1
      BY <1>1, <2>1
    <3>2. ab[i] = c[i] /\ ab[i + 1] = c[i + 1]
      BY <2>1, <3>1, Zenon
    <3>3. QED
      BY <1>1, <2>2, <3>1, <3>2 DEF Joined
  <2>3. QED
    BY <2>2 DEF Joined
<1> HIDE DEF a, b, ab, rest, c
<1>6. LET whole == AddData(NewRequest, a \o b)
          on == AddData(AddData(NewRequest, a).request, b)
      IN  /\ on.error = whole.error
          /\ ~whole.error => on.request = whole.request
  <2>1. Joined(a \o b) /\ ~AddData(NewRequest, a).error
    BY <1>2, <1>4, <1>5
  <2>2. QED
    BY <1>0, <1>3, <2>1, CutsDoNotMatter, Zenon
<1>7. QED
  BY <1>2, <1>4, <1>6 DEF a, b, ab, rest, c
-----------------------------------------------------------------------------
(* The headers of a request stay in pairs, wherever reads begin and end,   *)
(* because the stream brings no value before a name.                       *)
Sized(r) ==
  /\ Len(r.headers) % 2 = 0
  /\ r.headers_index = 0 \/ r.headers_index < Len(r.headers)
LedFrom(c, k) ==
  \A j \in k + 1 .. Len(c) : c[j].part = "value" => \E i \in k + 1 .. j - 1 : EndsName(c[i])
Grammar(c) == \A k \in 1 .. Len(c) : c[k].part = "method" => LedFrom(c, k)
Ready(r, c) == ~Fresh(r) /\ Len(r.headers) = 0 => LedFrom(c, 0)

LEMMA ReportSized ==
  ASSUME NEW r \in Requests, Sized(r), NEW part, NEW text \in Texts,
         part = "value" => Len(r.headers) # 0
  PROVE  LET q == Report(r, part, text)
         IN  /\ Sized(q)
             /\ Len(r.headers) # 0 => Len(q.headers) # 0
             /\ part = "field" => Len(q.headers) # 0
<1> DEFINE n == Len(r.headers)
           k == r.headers_index
           q == Report(r, part, text)
<1>1. /\ r.headers \in Seq(Texts) /\ n \in Nat /\ k \in Nat /\ n % 2 = 0 /\ (k = 0 \/ k < n)
  BY DEF Requests, Sized
<1>2. CASE part = "field"
  <2> DEFINE i == k + (k % 2)
             headers == IF i = n THEN r.headers \o <<Nothing, Nothing>> ELSE r.headers
  <2>1. q = [r EXCEPT !.headers_index = i, !.headers = Extend(headers, i, text)]
    BY <1>2, Zenon DEF Report, OnHeaderField
  <2>2. i \in Nat /\ i <= n
    <3> HIDE DEF n, k
    <3> QED BY <1>1
  <2>3. /\ headers \in Seq(Texts) /\ Len(headers) % 2 = 0 /\ i < Len(headers)
    <3>1. <<Nothing, Nothing>> \in Seq(Texts) /\ Len(<<Nothing, Nothing>>) = 2
      BY DEF Nothing, Texts
    <3>2. CASE i = n
      <4>1. headers = r.headers \o <<Nothing, Nothing>>
        BY <3>2
      <4>2. headers \in Seq(Texts) /\ Len(headers) = n + 2
        <5> HIDE DEF headers
        <5> QED BY <1>1, <3>1, <4>1
      <4> HIDE DEF headers, n, i, k
      <4>3. QED
        BY <1>1, <3>2, <4>2
    <3>3. CASE i # n
      <4>1. headers = r.headers
        BY <3>3
      <4>2. Len(headers) = n
        BY <4>1
      <4> HIDE DEF headers, n, i, k
      <4>3. QED
        BY <1>1, <2>2, <3>3, <4>1, <4>2
    <3>4. QED
      BY <3>2, <3>3
  <2> HIDE DEF headers, i
  <2>4. Len(Extend(headers, i, text)) = Len(headers)
    BY <2>2, <2>3, ExtendIs, Zenon
  <2>5. q.headers_index = i /\ q.headers = Extend(headers, i, text)
    BY <2>1 DEF Requests
  <2> HIDE DEF q
  <2>6. QED
    BY <2>2, <2>3, <2>4, <2>5 DEF Sized, q
<1>3. CASE part = "value"
  <2> DEFINE i == k + 1 - (k % 2)
  <2>1. q = [r EXCEPT !.headers_index = i, !.headers = Extend(r.headers, i, text)]
    <3>1. part # "url" /\ part # "field"
      BY <1>3
    <3>2. Report(r, part, text) = OnHeaderValue(r, text)
      BY <1>3, <3>1, Zenon DEF Report
    <3>3. QED
      BY <3>2 DEF OnHeaderValue
  <2>2. i \in Nat /\ i < n /\ n # 0
    <3>1. n # 0
      BY <1>3
    <3> HIDE DEF n, k
    <3>2. QED
      BY <1>1, <3>1
  <2> HIDE DEF i
  <2>3. Len(Extend(r.headers, i, text)) = n
    BY <1>1, <2>2, ExtendIs, Zenon
  <2>4. q.headers_index = i /\ q.headers = Extend(r.headers, i, text)
    BY <2>1 DEF Requests
  <2>5. Len(q.headers) = n
    BY <2>3, <2>4
  <2> HIDE DEF q, n
  <2>6. QED
    BY <1>1, <1>3, <2>2, <2>4, <2>5 DEF Sized, q, n
<1>4. CASE part # "field" /\ part # "value"
  <2>1. q.headers = r.headers /\ q.headers_index = r.headers_index
    BY <1>4 DEF Report, OnUrl, OnBody, Requests
  <2> HIDE DEF q
  <2>2. QED
    BY <1>4, <2>1 DEF Sized, q
<1>5. QED
  BY <1>2, <1>3, <1>4

LEMMA ReportElse ==
  ASSUME NEW r \in Requests, NEW part, NEW text \in Texts, part # "field", part # "value"
  PROVE  Report(r, part, text).headers = r.headers
BY DEF Report, OnUrl, OnBody, Requests

LEMMA LedOn ==
  ASSUME NEW c \in Seq(Units), NEW k \in 0 .. Len(c) - 1, LedFrom(c, k)
  PROVE  /\ c[k + 1].part # "value"
         /\ ~EndsName(c[k + 1]) => LedFrom(c, k + 1)
<1>1. Len(c) \in Nat /\ k \in Nat
  OBVIOUS
<1>2. c[k + 1].part # "value"
  <2> SUFFICES ASSUME c[k + 1].part = "value" PROVE FALSE
    OBVIOUS
  <2>1. k + 1 \in k + 1 .. Len(c)
    BY <1>1
  <2>2. \E i \in k + 1 .. (k + 1) - 1 : EndsName(c[i])
    BY <2>1, Zenon DEF LedFrom
  <2>3. QED
    BY <1>1, <2>2
<1>3. ASSUME ~EndsName(c[k + 1]), NEW j \in k + 1 + 1 .. Len(c), c[j].part = "value"
      PROVE  \E i \in k + 1 + 1 .. j - 1 : EndsName(c[i])
  <2>1. j \in k + 1 .. Len(c)
    BY <1>1
  <2>2. PICK i \in k + 1 .. j - 1 : EndsName(c[i])
    BY <1>3, <2>1, Zenon DEF LedFrom
  <2>3. i # k + 1
    BY <1>3, <2>2
  <2>4. i \in k + 1 + 1 .. j - 1
    BY <1>1, <2>1, <2>3
  <2>5. QED
    BY <2>2, <2>4, Zenon
<1>4. QED
  BY <1>2, <1>3 DEF LedFrom

Tidy(p, c, k) ==
  ~p.error =>
    /\ Sized(p.request)
    /\ ~Fresh(p.request) /\ Len(p.request.headers) = 0 => LedFrom(c, k)
    /\ p.text # <<>> /\ p.part = "value" => Len(p.request.headers) # 0

LEMMA MarkedHeaders ==
  ASSUME NEW r \in Requests, NEW unit
  PROVE  /\ Marked(r, unit).headers = r.headers
         /\ Marked(r, unit).headers_index = r.headers_index
BY DEF Marked, OnMessageComplete, Requests

LEMMA TidyStep ==
  ASSUME NEW c \in Seq(Units), Grammar(c), NEW k \in 0 .. Len(c) - 1,
         NEW p \in States, Tidy(p, c, k)
  PROVE  Tidy(Parse(p, c[k + 1]), c, k + 1)
<1> DEFINE unit == c[k + 1]
           q == Parse(p, unit)
           r == p.request
<1>1. /\ unit \in Units /\ k \in Nat /\ k + 1 \in 1 .. Len(c)
      /\ r \in Requests /\ p.text \in Texts /\ p.part \in Parts
  BY DEF States
<1> HIDE DEF unit, q, r
<1>2. CASE Skips(p, unit)
  <2>1. q = p
    BY <1>1, <1>2, ParseCases, Zenon DEF q
  <2>2. CASE p.error
    BY <2>1, <2>2 DEF Tidy, q, unit
  <2>3. CASE ~p.error
    <3>1. Fresh(p.request)
      BY <1>2, <2>3 DEF Skips
    <3>2. QED
      BY <2>1, <2>3, <3>1 DEF Tidy, q, unit
  <2>4. QED
    BY <2>2, <2>3
<1>3. CASE Stops(p, unit)
  <2>1. q = [p EXCEPT !.error = TRUE]
    BY <1>1, <1>3, ParseCases, Zenon DEF q
  <2>2. q.error
    BY <2>1 DEF States
  <2>3. QED
    BY <2>2 DEF Tidy, q, unit
<1>4. CASE ~Skips(p, unit) /\ unit.part = "method"
  <2> DEFINE o == [r EXCEPT !.parser_method = unit.c]
  <2>1. q = [request |-> Marked(o, unit), part |-> "method", text |-> <<>>, error |-> FALSE]
    BY <1>1, <1>4, ParseCases, Zenon DEF q, r
  <2>2. o \in Requests /\ o.headers = r.headers /\ o.headers_index = r.headers_index
    BY <1>1 DEF Units, Requests
  <2> HIDE DEF o
  <2>3. /\ q.request.headers = r.headers /\ q.request.headers_index = r.headers_index
        /\ q.text = <<>>
    BY <2>1, <2>2, MarkedHeaders
  <2>4. Sized(r)
    BY <1>4 DEF Tidy, Skips, r
  <2>5. LedFrom(c, k + 1)
    BY <1>1, <1>4 DEF Grammar, unit
  <2>6. Sized(q.request)
    BY <2>3, <2>4 DEF Sized
  <2>7. QED
    BY <2>3, <2>5, <2>6 DEF Tidy, q, unit
<1>5. CASE ~Skips(p, unit) /\ ~Stops(p, unit) /\ unit.part # "method"
  <2>1. ~p.error /\ ~Fresh(r)
    BY <1>5 DEF Skips, Stops, r
  <2>2. Sized(r) /\ (Len(r.headers) = 0 => LedFrom(c, k))
    BY <2>1 DEF Tidy, r
  <2>3. Len(r.headers) = 0 =>
          unit.part # "value" /\ (~EndsName(unit) => LedFrom(c, k + 1))
    BY <2>2, LedOn, Zenon DEF unit
  <2>4. CASE Ends(unit)
    <3> DEFINE text == With(p.text, unit)
               o == Report(r, unit.part, text)
    <3>1. q = [request |-> Marked(o, unit), part |-> unit.part, text |-> <<>>, error |-> FALSE]
      BY <1>1, <1>5, <2>4, ParseCases, Zenon DEF q, r
    <3>2. text \in Texts
      BY <1>1, WithTyped, Zenon
    <3> HIDE DEF text
    <3>3. o \in Requests
      BY <1>1, <3>2, ReportTyped, Zenon
    <3>4. Sized(o) /\ (Len(r.headers) # 0 => Len(o.headers) # 0)
          /\ (unit.part = "field" => Len(o.headers) # 0)
      BY <1>1, <2>2, <2>3, <3>2, ReportSized, Zenon
    <3> HIDE DEF o
    <3>5. q.request.headers = o.headers /\ q.request.headers_index = o.headers_index /\ q.text = <<>>
      BY <3>1, <3>3, MarkedHeaders
    <3>6. Sized(q.request)
      BY <3>4, <3>5 DEF Sized
    <3>7. Len(q.request.headers) = 0 => LedFrom(c, k + 1)
      <4> SUFFICES ASSUME Len(o.headers) = 0 PROVE LedFrom(c, k + 1)
        BY <3>5
      <4>1. Len(r.headers) = 0 /\ unit.part # "field"
        BY <3>4
      <4>2. ~EndsName(unit)
        BY <4>1 DEF EndsName
      <4>3. QED
        BY <2>3, <4>1, <4>2
    <3>8. QED
      BY <3>5, <3>6, <3>7 DEF Tidy, q, unit
  <2>5. CASE ~Ends(unit)
    <3>1. q = [request |-> r, part |-> unit.part, text |-> Append(p.text, unit.c), error |-> FALSE]
      BY <1>1, <1>5, <2>5, ParseCases, Zenon DEF q, r
    <3>2. q.request = r /\ q.part = unit.part
      BY <3>1
    <3>3. ~EndsName(unit)
      BY <2>5 DEF Ends, EndsName
    <3>4. QED
      BY <2>2, <2>3, <3>2, <3>3 DEF Tidy, q, unit
  <2>6. QED
    BY <2>4, <2>5
<1>6. QED
  BY <1>2, <1>3, <1>4, <1>5

-----------------------------------------------------------------------------
LEMMA RestLed ==
  ASSUME NEW c \in Seq(Units), NEW n \in 0 .. Len(c), NEW k \in n .. Len(c), LedFrom(c, k)
  PROVE  LedFrom(SubSeq(c, n + 1, Len(c)), k - n)
<1> DEFINE rest == SubSeq(c, n + 1, Len(c))
<1>1. /\ n \in Nat /\ k \in Nat /\ Len(c) \in Nat /\ Len(rest) = Len(c) - n
      /\ \A i \in 1 .. Len(c) - n : rest[i] = c[n + i]
  <2>1. Len(rest) = Len(c) - n /\ \A i \in 1 .. Len(c) - n : rest[i] = c[n + i]
    BY RestIs, Zenon
  <2>2. QED
    BY <2>1
<1> HIDE DEF rest
<1>2. ASSUME NEW j \in (k - n) + 1 .. Len(rest), rest[j].part = "value"
      PROVE  \E i \in (k - n) + 1 .. j - 1 : EndsName(rest[i])
  <2>1. j \in 1 .. Len(c) - n /\ n + j \in k + 1 .. Len(c)
    BY <1>1
  <2>2. c[n + j].part = "value"
    BY <1>1, <1>2, <2>1
  <2>3. PICK i \in k + 1 .. n + j - 1 : EndsName(c[i])
    BY <2>1, <2>2 DEF LedFrom
  <2>4. /\ i - n \in (k - n) + 1 .. j - 1 /\ i - n \in 1 .. Len(c) - n /\ n + (i - n) = i
    BY <1>1, <2>1
  <2>5. rest[i - n] = c[i]
    BY <1>1, <2>4
  <2>6. QED
    BY <2>3, <2>4, <2>5
<1>3. QED
  BY <1>2 DEF LedFrom, rest

LEMMA RestGrammar ==
  ASSUME NEW c \in Seq(Units), NEW n \in 0 .. Len(c), Grammar(c)
  PROVE  Grammar(SubSeq(c, n + 1, Len(c)))
<1> DEFINE rest == SubSeq(c, n + 1, Len(c))
<1>1. /\ n \in Nat /\ Len(c) \in Nat /\ Len(rest) = Len(c) - n
      /\ \A i \in 1 .. Len(c) - n : rest[i] = c[n + i]
  <2>1. Len(rest) = Len(c) - n /\ \A i \in 1 .. Len(c) - n : rest[i] = c[n + i]
    BY RestIs, Zenon
  <2>2. QED
    BY <2>1
<1>2. ASSUME NEW k \in 1 .. Len(c) - n, rest[k].part = "method" PROVE LedFrom(rest, k)
  <2>1. n + k \in 1 .. Len(c) /\ n + k \in n .. Len(c) /\ (n + k) - n = k
    BY <1>1
  <2>2. c[n + k].part = "method"
    BY <1>1, <1>2
  <2>3. LedFrom(c, n + k)
    BY <2>1, <2>2, Zenon DEF Grammar
  <2>4. LedFrom(SubSeq(c, n + 1, Len(c)), (n + k) - n)
    BY <2>1, <2>3, RestLed, Zenon
  <2>5. QED
    BY <2>1, <2>4
<1> HIDE DEF rest
<1>3. QED
  BY <1>1, <1>2 DEF Grammar, rest

(* Wherever a read ends, it leaves the headers in pairs and the rest of    *)
(* the stream such that the next read will.                                *)
LEMMA ReadKeepsSized ==
  ASSUME NEW r \in Requests, Sized(r), NEW c \in Seq(Units), Grammar(c), Ready(r, c),
         NEW n \in 0 .. Len(c)
  PROVE  LET after == AddData(r, SubSeq(c, 1, n))
             rest == SubSeq(c, n + 1, Len(c))
         IN  /\ Grammar(rest)
             /\ ~after.error => Sized(after.request) /\ Ready(after.request, rest)
<1> DEFINE after == AddData(r, SubSeq(c, 1, n))
           rest == SubSeq(c, n + 1, Len(c))
<1>1. PICK s : IsRun(s, r, c)
  <2>1. Len(c) \in Nat
    OBVIOUS
  <2>2. QED
    BY <2>1, RunExists, Zenon
<1>2. \A k \in 0 .. Len(c) : s[k] \in States
  BY <1>1, RunTyped, Zenon
<1>3. Len(c) \in Nat /\ n \in Nat /\ n <= Len(c)
  OBVIOUS
<1> DEFINE T == {k \in 0 .. Len(c) : Tidy(s[k], c, k)}
<1>4. 0 \in T
  <2>1. s[0] = Begin(r)
    BY <1>1 DEF IsRun
  <2>2. Tidy(Begin(r), c, 0)
    BY DEF Tidy, Begin, Ready
  <2>3. 0 \in 0 .. Len(c)
    BY <1>3
  <2>4. QED
    BY <2>1, <2>2, <2>3
<1>5. ASSUME NEW k \in 0 .. Len(c) - 1, k \in T PROVE k + 1 \in T
  <2>1. k \in 0 .. Len(c) /\ k + 1 \in 0 .. Len(c) /\ k + 1 \in 1 .. Len(c) /\ (k + 1) - 1 = k
    BY <1>3
  <2>2. s[k] \in States /\ Tidy(s[k], c, k)
    BY <1>2, <1>5, <2>1
  <2>3. s[k + 1] = Parse(s[k], c[k + 1])
    <3>1. s[k + 1] = Parse(s[(k + 1) - 1], c[k + 1])
      BY <1>1, <2>1, Zenon DEF IsRun
    <3>2. QED
      BY <2>1, <3>1
  <2>4. Tidy(s[k + 1], c, k + 1)
    BY <2>2, <2>3, TidyStep, Zenon
  <2>5. QED
    BY <2>1, <2>4
<1>6. n \in T
  <2>1. 0 .. Len(c) \subseteq T
    <3> HIDE DEF T
    <3>1. \A k \in 0 .. Len(c) - 1 : k \in T => k + 1 \in T
      BY <1>5
    <3>2. QED
      BY <1>3, <1>4, <3>1, UpTo, Zenon
  <2>2. QED
    BY <2>1
<1> DEFINE p == s[n]
<1>7. p \in States /\ Tidy(p, c, n) /\ after = Flush(p)
  <2>1. after = Flush(s[n])
    BY <1>1, RunOfFront, Zenon
  <2>2. QED
    BY <1>2, <1>6, <2>1
<1>8. Grammar(rest)
  BY RestGrammar, Zenon
<1> HIDE DEF p, after
<1>9. ASSUME ~after.error PROVE Sized(after.request) /\ Ready(after.request, rest)
  <2>1. /\ ~p.error
        /\ after.request = IF p.text = <<>> THEN p.request ELSE Report(p.request, p.part, p.text)
    BY <1>7, <1>9, FlushTyped
  <2>2. p.request \in Requests /\ p.text \in Texts
    BY <1>7 DEF States
  <2>3. /\ Sized(p.request)
        /\ ~Fresh(p.request) /\ Len(p.request.headers) = 0 => LedFrom(c, n)
        /\ p.text # <<>> /\ p.part = "value" => Len(p.request.headers) # 0
    BY <1>7, <2>1 DEF Tidy
  <2>4. Sized(after.request)
    <3>1. CASE p.text = <<>>
      BY <2>1, <2>3, <3>1
    <3>2. CASE p.text # <<>>
      <4>1. p.part = "value" => Len(p.request.headers) # 0
        BY <2>3, <3>2
      <4>2. Sized(Report(p.request, p.part, p.text))
        BY <2>2, <2>3, <4>1, ReportSized, Zenon
      <4>3. QED
        BY <2>1, <3>2, <4>2
    <3>3. QED
      BY <3>1, <3>2
  <2>5. ASSUME ~Fresh(after.request), Len(after.request.headers) = 0 PROVE LedFrom(c, n)
    <3>1. CASE p.text = <<>>
      BY <2>1, <2>3, <2>5, <3>1
    <3>2. CASE p.text # <<>>
      <4>1. after.request = Report(p.request, p.part, p.text)
        BY <2>1, <3>2
      <4>2. p.part = "value" => Len(p.request.headers) # 0
        BY <2>3, <3>2
      <4>3. p.part # "field" /\ Len(p.request.headers) = 0
        <5>1. /\ p.part = "field" => Len(Report(p.request, p.part, p.text).headers) # 0
              /\ Len(p.request.headers) # 0 => Len(Report(p.request, p.part, p.text).headers) # 0
          BY <2>2, <2>3, <4>2, ReportSized, Zenon
        <5>2. QED
          BY <2>5, <4>1, <5>1
      <4>4. ~Fresh(p.request)
        <5>1. after.request.parser_method = p.request.parser_method
          BY <2>2, <4>1, ReportTyped
        <5>2. QED
          BY <2>5, <5>1 DEF Fresh
      <4>5. QED
        BY <2>3, <4>3, <4>4
    <3>3. QED
      BY <3>1, <3>2
  <2>6. LedFrom(c, n) => LedFrom(rest, 0)
    <3>1. n \in n .. Len(c) /\ n - n = 0
      BY <1>3
    <3>2. LedFrom(c, n) => LedFrom(SubSeq(c, n + 1, Len(c)), n - n)
      BY <3>1, RestLed, Zenon
    <3>3. QED
      BY <3>1, <3>2
  <2>7. QED
    BY <2>4, <2>5, <2>6 DEF Ready
<1>10. QED
  BY <1>8, <1>9, Zenon DEF after

(* What is sent later leaves that so.                                      *)
LEMMA LedLater ==
  ASSUME NEW a \in Seq(Units), NEW b \in Seq(Units), Led(b), NEW k \in 0 .. Len(a), LedFrom(a, k)
  PROVE  LedFrom(a \o b, k)
<1> DEFINE c == a \o b
<1>1. /\ Len(a) \in Nat /\ Len(b) \in Nat /\ k \in Nat /\ Len(c) = Len(a) + Len(b)
      /\ \A i \in 1 .. Len(a) : c[i] = a[i]
      /\ \A i \in Len(a) + 1 .. Len(a) + Len(b) : c[i] = b[i - Len(a)]
  BY ConcatUnits
<1> HIDE DEF c
<1>2. ASSUME NEW j \in k + 1 .. Len(c), c[j].part = "value"
      PROVE  \E i \in k + 1 .. j - 1 : EndsName(c[i])
  <2>1. CASE j <= Len(a)
    <3>1. j \in 1 .. Len(a) /\ j \in k + 1 .. Len(a)
      BY <1>1, <2>1
    <3>2. a[j].part = "value"
      BY <1>1, <1>2, <3>1
    <3>3. PICK i \in k + 1 .. j - 1 : EndsName(a[i])
      BY <3>1, <3>2, Zenon DEF LedFrom
    <3>4. i \in 1 .. Len(a)
      BY <1>1, <3>1
    <3>5. EndsName(c[i])
      BY <1>1, <3>3, <3>4
    <3>6. QED
      BY <3>5
  <2>2. CASE j > Len(a)
    <3>1. j \in Len(a) + 1 .. Len(a) + Len(b) /\ j - Len(a) \in 1 .. Len(b)
      BY <1>1, <2>2
    <3>2. b[j - Len(a)].part = "value"
      BY <1>1, <1>2, <3>1
    <3>3. PICK i \in 1 .. (j - Len(a)) - 1 : Since(b, i, j - Len(a))
      BY <3>1, <3>2, Zenon DEF Led
    <3>4. /\ Len(a) + i \in Len(a) + 1 .. Len(a) + Len(b) /\ Len(a) + i \in k + 1 .. j - 1
          /\ (Len(a) + i) - Len(a) = i
      BY <1>1, <3>1
    <3>5. c[Len(a) + i] = b[i]
      BY <1>1, <3>4
    <3>6. EndsName(c[Len(a) + i])
      BY <3>3, <3>5 DEF Since
    <3>7. QED
      BY <3>4, <3>6, Zenon
  <2>3. QED
    BY <1>1, <2>1, <2>2
<1>3. QED
  BY <1>2 DEF LedFrom, c

LEMMA GrammarLater ==
  ASSUME NEW a \in Seq(Units), NEW b \in Seq(Units), Led(b), Grammar(a)
  PROVE  Grammar(a \o b)
<1> DEFINE c == a \o b
<1>1. /\ Len(a) \in Nat /\ Len(b) \in Nat /\ Len(c) = Len(a) + Len(b)
      /\ \A i \in 1 .. Len(a) : c[i] = a[i]
      /\ \A i \in Len(a) + 1 .. Len(a) + Len(b) : c[i] = b[i - Len(a)]
  BY ConcatUnits
<1>2. ASSUME NEW k \in 1 .. Len(a), a[k].part = "method" PROVE LedFrom(c, k)
  <2>1. LedFrom(a, k)
    BY <1>2 DEF Grammar
  <2>2. k \in 0 .. Len(a)
    BY <1>1
  <2>3. QED
    BY <2>1, <2>2, LedLater, Zenon
<1> HIDE DEF c
<1>3. ASSUME NEW k \in 1 .. Len(b), b[k].part = "method",
             NEW j \in (Len(a) + k) + 1 .. Len(c), c[j].part = "value"
      PROVE  \E i \in (Len(a) + k) + 1 .. j - 1 : EndsName(c[i])
  <2>1. /\ j \in Len(a) + 1 .. Len(a) + Len(b) /\ j - Len(a) \in 1 .. Len(b)
        /\ k \in Nat /\ k < j - Len(a)
    BY <1>1
  <2>2. b[j - Len(a)].part = "value"
    BY <1>1, <1>3, <2>1
  <2>3. PICK i \in 1 .. (j - Len(a)) - 1 : Since(b, i, j - Len(a))
    BY <2>1, <2>2, Zenon DEF Led
  <2>4. i > k
    <3> SUFFICES ASSUME i <= k PROVE FALSE
      BY <2>1
    <3>1. k \in i .. j - Len(a)
      BY <1>1, <2>1
    <3>2. b[k].part # "method"
      BY <2>3, <3>1, Zenon DEF Since
    <3>3. QED
      BY <1>3, <3>2
  <2>5. /\ Len(a) + i \in Len(a) + 1 .. Len(a) + Len(b)
        /\ Len(a) + i \in (Len(a) + k) + 1 .. j - 1 /\ (Len(a) + i) - Len(a) = i
    BY <1>1, <2>1, <2>4
  <2>6. c[Len(a) + i] = b[i]
    BY <1>1, <2>5
  <2>7. EndsName(c[Len(a) + i])
    BY <2>3, <2>6 DEF Since
  <2>8. QED
    BY <2>5, <2>7, Zenon
<1>4. ASSUME NEW k \in 1 .. Len(c), c[k].part = "method" PROVE LedFrom(c, k)
  <2>1. CASE k <= Len(a)
    <3>1. k \in 1 .. Len(a)
      BY <1>1, <2>1
    <3>2. QED
      BY <1>1, <1>2, <1>4, <3>1
  <2>2. CASE k > Len(a)
    <3>1. /\ k - Len(a) \in 1 .. Len(b) /\ k \in Len(a) + 1 .. Len(a) + Len(b)
          /\ Len(a) + (k - Len(a)) = k
      BY <1>1, <2>2
    <3>2. b[k - Len(a)].part = "method"
      BY <1>1, <1>4, <3>1
    <3>3. \A j \in (Len(a) + (k - Len(a))) + 1 .. Len(c) : c[j].part = "value" =>
            \E i \in (Len(a) + (k - Len(a))) + 1 .. j - 1 : EndsName(c[i])
      BY <1>3, <3>1, <3>2, Zenon
    <3>4. QED
      BY <3>1, <3>3 DEF LedFrom
  <2>3. QED
    BY <1>1, <2>1, <2>2
<1>5. QED
  BY <1>4 DEF Grammar, c
-----------------------------------------------------------------------------
(* How many requests end in a stream.                                      *)
Lasts(c) == {k \in 1 .. Len(c) : c[k].last = TRUE}

LEMMA LastsCounted ==
  ASSUME NEW c \in Seq(Units)
  PROVE  IsFiniteSet(Lasts(c)) /\ Cardinality(Lasts(c)) \in Nat
<1>1. 1 \in Int /\ Len(c) \in Int
  OBVIOUS
<1>2. IsFiniteSet(1 .. Len(c))
  BY <1>1, FS_Interval, Zenon
<1>3. Lasts(c) \in SUBSET (1 .. Len(c))
  BY DEF Lasts
<1>4. IsFiniteSet(Lasts(c))
  BY <1>2, <1>3, FS_Subset, Zenon
<1>5. QED
  BY <1>4, FS_CardinalityType, Zenon

LEMMA NoneEnds == Lasts(<<>>) = {} /\ Cardinality(Lasts(<<>>)) = 0
<1>1. Lasts(<<>>) = {}
  BY DEF Lasts
<1>2. QED
  BY <1>1, FS_EmptySet

LEMMA OneMoreEnds ==
  ASSUME NEW a \in Seq(Units), NEW m \in Messages
  PROVE  Cardinality(Lasts(a \o Wire(m))) = Cardinality(Lasts(a)) + 1
<1> DEFINE b == Wire(m)
           c == a \o b
           l == Len(a) + Len(b)
<1>1. /\ b \in Seq(Units) /\ Len(b) \in Nat \ {0}
      /\ \A k \in 1 .. Len(b) - 1 : b[k].last = FALSE
      /\ b[Len(b)].last = TRUE
  BY WireEnds, Zenon
<1> HIDE DEF b
<1>2. /\ Len(a) \in Nat /\ Len(c) = l
      /\ \A k \in 1 .. Len(a) : c[k] = a[k]
      /\ \A k \in Len(a) + 1 .. l : c[k] = b[k - Len(a)]
  BY <1>1, ConcatUnits
<1> HIDE DEF c
<1>3. ASSUME NEW k \in 1 .. l PROVE c[k].last = TRUE <=> k \in Lasts(a) \union {l}
  <2>0. /\ k \in Nat /\ 1 <= k /\ k <= Len(a) + Len(b) /\ l = Len(a) + Len(b)
        /\ Len(a) \in Nat /\ Len(b) \in Nat /\ Len(b) > 0
    BY <1>1, <1>2
  <2>1. CASE k <= Len(a)
    <3>1. k \in 1 .. Len(a) /\ k # l
      BY <1>1, <1>2, <2>1
    <3>2. c[k] = a[k]
      BY <1>2, <3>1
    <3>3. QED
      BY <3>1, <3>2 DEF Lasts
  <2>2. CASE k > Len(a) /\ k # l
    <3>1. k \in Len(a) + 1 .. l /\ k - Len(a) \in 1 .. Len(b) - 1 /\ k \notin 1 .. Len(a)
      BY <2>0, <2>2
    <3>2. c[k] = b[k - Len(a)] /\ b[k - Len(a)].last = FALSE
      BY <1>1, <1>2, <3>1
    <3>3. QED
      BY <2>2, <3>1, <3>2 DEF Lasts
  <2>3. CASE k = l
    <3>1. l \in Len(a) + 1 .. l /\ l - Len(a) = Len(b)
      BY <1>1, <1>2
    <3>2. c[l] = b[Len(b)]
      BY <1>2, <3>1
    <3>3. QED
      BY <1>1, <2>3, <3>2
  <2>4. k <= Len(a) \/ (k > Len(a) /\ k # l) \/ k = l
    BY <2>0
  <2>5. QED
    BY <2>1, <2>2, <2>3, <2>4, Zenon
<1>4. l \in 1 .. l /\ l \notin 1 .. Len(a) /\ 1 .. Len(a) \subseteq 1 .. l
  BY <1>1, <1>2
<1>5. Lasts(c) = Lasts(a) \union {l}
  <2>1. Lasts(a) \subseteq 1 .. Len(a)
    BY DEF Lasts
  <2>2. Lasts(c) = {k \in 1 .. l : c[k].last = TRUE}
    BY <1>2 DEF Lasts
  <2> HIDE DEF l
  <2>3. QED
    BY <1>3, <1>4, <2>1, <2>2
<1>6. l \notin Lasts(a)
  BY <1>4 DEF Lasts
<1>7. Cardinality(Lasts(a) \union {l}) = Cardinality(Lasts(a)) + 1
  <2> HIDE DEF l
  <2> QED BY <1>6, LastsCounted, FS_AddElement
<1>8. QED
  BY <1>5, <1>7 DEF c, b

LEMMA FewerEnd ==
  ASSUME NEW c \in Seq(Units), NEW n \in 0 .. Len(c)
  PROVE  LET rest == SubSeq(c, n + 1, Len(c))
         IN  /\ Cardinality(Lasts(rest)) <= Cardinality(Lasts(c))
             /\ ~NotLast(SubSeq(c, 1, n)) => Cardinality(Lasts(rest)) < Cardinality(Lasts(c))
<1> DEFINE rest == SubSeq(c, n + 1, Len(c))
           later == {k \in Lasts(c) : k > n}
           f == [k \in Lasts(rest) |-> n + k]
<1>1. /\ n \in Nat /\ Len(c) \in Nat /\ n <= Len(c) /\ Len(rest) = Len(c) - n
      /\ rest \in Seq(Units)
      /\ \A i \in 1 .. Len(c) - n : rest[i] = c[n + i]
  <2>1. /\ Len(rest) = Len(c) - n /\ rest \in Seq(Units)
        /\ \A i \in 1 .. Len(c) - n : rest[i] = c[n + i]
    BY RestIs, Zenon
  <2>2. QED
    BY <2>1
<1> HIDE DEF rest
<1>2. ASSUME NEW k \in Lasts(rest) PROVE n + k \in later /\ k \in Nat
  <2>1. k \in 1 .. Len(c) - n /\ rest[k].last = TRUE
    BY <1>1 DEF Lasts
  <2>2. n + k \in 1 .. Len(c) /\ n + k > n /\ k \in Nat
    BY <1>1, <2>1
  <2>3. c[n + k].last = TRUE
    BY <1>1, <2>1
  <2>4. QED
    BY <2>2, <2>3 DEF Lasts
<1>3. f \in Injection(Lasts(rest), later)
  <2>1. f \in [Lasts(rest) -> later]
    BY <1>2
  <2>2. ASSUME NEW i \in Lasts(rest), NEW j \in Lasts(rest), f[i] = f[j] PROVE i = j
    BY <1>1, <1>2, <2>2
  <2> HIDE DEF f
  <2>3. DOMAIN f = Lasts(rest)
    BY <2>1
  <2>4. QED
    BY <2>1, <2>2, <2>3 DEF Injection, IsInjective
<1>4. IsFiniteSet(Lasts(c)) /\ Cardinality(Lasts(c)) \in Nat /\ later \in SUBSET Lasts(c)
  BY LastsCounted
<1> HIDE DEF later, f
<1>5. /\ IsFiniteSet(later) /\ Cardinality(later) <= Cardinality(Lasts(c))
      /\ Cardinality(later) = Cardinality(Lasts(c)) => later = Lasts(c)
  <2>1. IsFiniteSet(later) /\ Cardinality(later) <= Cardinality(Lasts(c))
    BY <1>4, FS_Subset, Zenon
  <2>2. Cardinality(Lasts(c)) = Cardinality(later) => Lasts(c) = later
    BY <1>4, FS_Subset, Zenon
  <2>3. QED
    BY <2>1, <2>2
<1>6. Cardinality(Lasts(rest)) <= Cardinality(later)
  BY <1>3, <1>5, FS_Injection, Zenon
<1>7. Cardinality(later) \in Nat /\ Cardinality(Lasts(rest)) \in Nat
  <2>1. Cardinality(later) \in Nat
    BY <1>5, FS_CardinalityType, Zenon
  <2>2. QED
    BY <1>1, <2>1, LastsCounted
<1>8. ~NotLast(SubSeq(c, 1, n)) => later # Lasts(c)
  <2> SUFFICES ASSUME ~NotLast(SubSeq(c, 1, n)) PROVE later # Lasts(c)
    OBVIOUS
  <2> DEFINE front == SubSeq(c, 1, n)
  <2>1. Len(front) = n /\ \A i \in 1 .. n : front[i] = c[i]
    BY FrontIs, Zenon
  <2> HIDE DEF front
  <2>2. PICK i \in 1 .. n : front[i].last # FALSE
    BY <2>1 DEF NotLast, front
  <2>3. i \in 1 .. Len(c) /\ ~(i > n) /\ c[i] = front[i] /\ c[i] \in Units
    BY <1>1, <2>1
  <2>4. c[i].last = TRUE
    BY <2>2, <2>3 DEF Units
  <2>5. i \in Lasts(c) /\ i \notin later
    BY <2>3, <2>4 DEF Lasts, later
  <2>6. QED
    BY <2>5
<1>9. QED
  <2> DEFINE x == Cardinality(Lasts(rest))
             y == Cardinality(later)
             z == Cardinality(Lasts(c))
  <2>1. x \in Nat /\ y \in Nat /\ z \in Nat /\ x <= y /\ y <= z
    BY <1>4, <1>5, <1>6, <1>7
  <2>2. ~NotLast(SubSeq(c, 1, n)) => y # z
    BY <1>5, <1>8
  <2> HIDE DEF x, y, z
  <2>3. x <= z /\ (~NotLast(SubSeq(c, 1, n)) => x < z)
    BY <2>1, <2>2
  <2>4. QED
    BY <2>3 DEF x, z, rest
=============================================================================
