--------------------------- MODULE ProgramProofs ---------------------------
(***************************************************************************)
(* The start of the program, the dialogue with its clients and its         *)
(* answers, for all lengths of headers and data, for any number of         *)
(* requests and connections and for every way their bytes are cut into     *)
(* reads.                                                                  *)
(***************************************************************************)
EXTENDS Program, HttpRequestProofs, FiniteSetTheorems

Responses ==
  [data_length : Nat, allocated : Nat, fits : BOOLEAN, disconnect : BOOLEAN]
Sound(r) == r \in Responses /\ r.fits = TRUE

(* A piece is one that doubling can make room for.                         *)
Pieces == (1 .. 32) \union CSeqLengths \union HeaderValues \union DataLengths

LEMMA RoomIsMade ==
  ASSUME NEW n \in Pieces
  PROVE  n \in Nat \ {0} /\ NewDataSize(n) \in Nat /\ DataSize + n <= NewDataSize(n)
<1> DEFINE enough == {m \in BufferSizes : DataSize + n <= m}
<1>1. DataSize \in Nat \ {0} /\ BufferSizes \subseteq Nat /\ n \in Nat \ {0}
  BY SizeAssumption, LengthAssumption DEF Pieces
<1>2. enough \in SUBSET Nat /\ enough # {}
  BY <1>1, LengthAssumption DEF Pieces
<1>3. \E m \in enough : \A o \in enough : m <= o
  <2> HIDE DEF enough
  <2> QED BY <1>2, LeastLength
<1>4. NewDataSize(n) \in enough
  <2>1. NewDataSize(n) = CHOOSE m \in enough : \A o \in enough : m <= o
    BY Zenon DEF NewDataSize
  <2> HIDE DEF enough
  <2> QED BY <1>3, <2>1, Zenon
<1>5. QED
  BY <1>1, <1>4

LEMMA AddTyped ==
  ASSUME NEW r \in Responses, NEW n \in Pieces
  PROVE  Add(r, n) \in Responses
<1>1. n \in Nat /\ NewDataSize(n) \in Nat
  BY RoomIsMade
<1>2. r.data_length \in Nat /\ r.allocated \in Nat /\ r.fits \in BOOLEAN /\ r.disconnect \in BOOLEAN
  BY DEF Responses
<1> DEFINE N == IF NewDataSize(n) # DataSize THEN NewDataSize(n) ELSE r.allocated
           fits == r.fits /\ r.data_length + n <= N
<1>3. N \in Nat /\ r.data_length + n \in Nat /\ fits \in BOOLEAN
  BY <1>1, <1>2
<1>4. Add(r, n) = [r EXCEPT !.allocated = N, !.data_length = r.data_length + n, !.fits = fits]
  BY Zenon DEF Add, Responses
<1> HIDE DEF N, fits
<1>5. Add(r, n) = [data_length |-> r.data_length + n, allocated |-> N, fits |-> fits,
                   disconnect |-> r.disconnect]
  BY <1>4 DEF Responses
<1>6. QED
  BY <1>2, <1>3, <1>5 DEF Responses

LEMMA HeaderTyped ==
  ASSUME NEW r \in Responses, NEW name \in Pieces, NEW value \in Pieces
  PROVE  AddHeader(r, name, value) \in Responses
<1>1. 2 \in Pieces
  BY DEF Pieces
<1>2. Add(Add(r, name), 2) \in Responses
  BY <1>1, AddTyped
<1>3. QED
  BY <1>1, <1>2, AddTyped DEF AddHeader

LEMMA BeginningTyped == NewResponse \in Responses
<1>1. EmptyResponse \in Responses /\ \A n \in {1, 2, 3, 8} : n \in Pieces
  BY SizeAssumption DEF Pieces, Responses, EmptyResponse
<1>2. Add(Add(Add(EmptyResponse, 8), 1), 3) \in Responses
  BY <1>1, AddTyped
<1>3. QED
  BY <1>1, <1>2, AddTyped DEF NewResponse

LEMMA FinishTyped ==
  ASSUME NEW r \in Responses, NEW datalen \in DataLengths \union {0}
  PROVE  Finish(r, datalen) \in Responses
<1>1. /\ \A n \in {2, 4, 14} : n \in Pieces
      /\ Digits(datalen) \in Pieces /\ (datalen > 0 => datalen \in Pieces)
  BY DEF Pieces, Digits
<1>2. Add(Add(Add(r, 14), 2), Digits(datalen)) \in Responses
  BY <1>1, AddTyped
<1>3. QED
  BY <1>1, <1>2, AddTyped DEF Finish

(* As long as no more than DataSize is there already, a piece fits: what   *)
(* is allocated for it counts DataSize, not what is there.                 *)
LEMMA AddFits ==
  ASSUME NEW r, Sound(r), NEW n \in Pieces, r.data_length <= DataSize
  PROVE  Sound(Add(r, n)) /\ Add(r, n).data_length = r.data_length + n
<1>1. n \in Nat \ {0} /\ NewDataSize(n) \in Nat /\ DataSize + n <= NewDataSize(n)
  BY RoomIsMade
<1>2. DataSize \in Nat \ {0} /\ r \in Responses /\ r.fits = TRUE
  BY SizeAssumption DEF Sound
<1> DEFINE N == NewDataSize(n)
<1>3. N \in Nat /\ N # DataSize /\ r.data_length + n <= N
  BY <1>1, <1>2 DEF Responses
<1>4. Add(r, n) = [r EXCEPT !.allocated = N, !.data_length = r.data_length + n,
                            !.fits = r.fits /\ r.data_length + n <= N]
  <2> HIDE DEF N
  <2>1. NewDataSize(n) = N
    BY DEF N
  <2> QED BY <1>2, <1>3, <2>1 DEF Add, Responses
<1>5. (r.fits /\ r.data_length + n <= N) = TRUE
  BY <1>2, <1>3
<1>6. QED
  <2> HIDE DEF N
  <2>1. Add(r, n) = [r EXCEPT !.allocated = N, !.data_length = r.data_length + n, !.fits = TRUE]
    BY <1>4, <1>5, Zenon
  <2>2. r.data_length + n \in Nat /\ r.disconnect \in BOOLEAN
    BY <1>1, <1>2 DEF Responses
  <2>3. Add(r, n) = [data_length |-> r.data_length + n, allocated |-> N, fits |-> TRUE,
                     disconnect |-> r.disconnect]
    BY <1>2, <2>1 DEF Responses
  <2>4. Add(r, n) \in Responses
    BY <1>3, <2>2, <2>3 DEF Responses
  <2>5. QED
    BY <2>3, <2>4 DEF Sound

LEMMA HeaderFits ==
  ASSUME NEW r, Sound(r), NEW name \in Pieces, NEW value \in Pieces,
         r.data_length + name + value + 4 <= DataSize
  PROVE  /\ Sound(AddHeader(r, name, value))
         /\ AddHeader(r, name, value).data_length = r.data_length + name + value + 4
<1> DEFINE a == Add(r, name)
           b == Add(a, 2)
           c == Add(b, value)
           d == Add(c, 2)
<1>1. /\ DataSize \in Nat /\ r.data_length \in Nat
      /\ name \in Nat /\ value \in Nat /\ 2 \in Pieces
  BY SizeAssumption, LengthAssumption DEF Pieces, Sound, Responses
<1>2. Sound(a) /\ a.data_length = r.data_length + name
  BY <1>1, AddFits
<1>3. Sound(b) /\ b.data_length = r.data_length + name + 2
  <2> HIDE DEF a
  <2> QED BY <1>1, <1>2, AddFits
<1>4. Sound(c) /\ c.data_length = r.data_length + name + 2 + value
  <2> HIDE DEF a, b
  <2> QED BY <1>1, <1>3, AddFits DEF c
<1>5. Sound(d) /\ d.data_length = r.data_length + name + 2 + value + 2
  <2> HIDE DEF a, b, c
  <2> QED BY <1>1, <1>4, AddFits DEF d
<1>6. AddHeader(r, name, value) = d
  BY DEF AddHeader
<1>7. QED
  <2> HIDE DEF d
  <2> QED BY <1>1, <1>5, <1>6

LEMMA BeginningFits ==
  ASSUME 17 <= DataSize
  PROVE  Sound(NewResponse) /\ NewResponse.data_length = 17
<1> DEFINE a == Add(EmptyResponse, 8)
           b == Add(a, 1)
           c == Add(b, 3)
           d == Add(c, 1)
           e == Add(d, 2)
           f == Add(e, 2)
<1>1. /\ DataSize \in Nat /\ Sound(EmptyResponse) /\ EmptyResponse.data_length = 0
      /\ \A n \in {1, 2, 3, 8} : n \in Pieces
  BY SizeAssumption DEF Pieces, Sound, Responses, EmptyResponse
<1>2. Sound(a) /\ a.data_length = 8
  BY <1>1, AddFits
<1>3. Sound(b) /\ b.data_length = 9
  <2> HIDE DEF a
  <2> QED BY <1>1, <1>2, AddFits
<1>4. Sound(c) /\ c.data_length = 12
  <2> HIDE DEF a, b
  <2> QED BY <1>1, <1>3, AddFits DEF c
<1>5. Sound(d) /\ d.data_length = 13
  <2> HIDE DEF a, b, c
  <2> QED BY <1>1, <1>4, AddFits DEF d
<1>6. Sound(e) /\ e.data_length = 15
  <2> HIDE DEF a, b, c, d
  <2> QED BY <1>1, <1>5, AddFits DEF e
<1>7. Sound(f) /\ f.data_length = 17
  <2> HIDE DEF a, b, c, d, e
  <2> QED BY <1>1, <1>6, AddFits DEF f
<1>8. NewResponse = f
  BY DEF NewResponse
<1>9. QED
  <2> HIDE DEF f
  <2> QED BY <1>7, <1>8

LEMMA FinishFits ==
  ASSUME NEW r, Sound(r), r.data_length + 24 <= DataSize, NEW datalen \in DataLengths \union {0}
  PROVE  Sound(Finish(r, datalen))
<1> DEFINE a == Add(r, 14)
           b == Add(a, 2)
           c == Add(b, Digits(datalen))
           d == Add(c, 4)
           e == Add(d, datalen)
<1>1. /\ DataSize \in Nat /\ r.data_length \in Nat
      /\ \A n \in {2, 4, 14} : n \in Pieces
  BY SizeAssumption DEF Pieces, Sound, Responses
<1>2. Digits(datalen) \in 1 .. 4
  BY DEF Digits
<1>3. CASE datalen > 0
  <2>1. datalen \in Pieces /\ Digits(datalen) \in Pieces
    BY <1>1, <1>2, <1>3 DEF Pieces
  <2>2. Sound(a) /\ a.data_length = r.data_length + 14
    BY <1>1, AddFits
  <2>3. Sound(b) /\ b.data_length = r.data_length + 16
    <3> HIDE DEF a
    <3> QED BY <1>1, <2>2, AddFits
  <2>4. Sound(c) /\ c.data_length = r.data_length + 16 + Digits(datalen)
    <3> HIDE DEF a, b
    <3> QED BY <1>1, <1>2, <2>1, <2>3, AddFits DEF c
  <2>5. Sound(d) /\ d.data_length = r.data_length + 20 + Digits(datalen)
    <3> HIDE DEF a, b, c
    <3> QED BY <1>1, <1>2, <2>4, AddFits DEF d
  <2>6. Sound(e)
    <3> HIDE DEF a, b, c, d
    <3> QED BY <1>1, <1>2, <2>1, <2>5, AddFits DEF e
  <2>7. Finish(r, datalen) = e
    BY <1>3 DEF Finish
  <2>8. QED
    <3> HIDE DEF e
    <3> QED BY <2>6, <2>7
<1>4. CASE ~(datalen > 0)
  BY <1>1, <1>4, AddFits DEF Finish
<1>5. QED
  BY <1>3, <1>4
-----------------------------------------------------------------------------
(* What an answer is made of, and what is already in the response when a   *)
(* handler is called.                                                      *)
Shaped == answer = [cseq |-> answer.cseq, length |-> answer.length, says |-> answer.says]
Begun == thread = "handler" => answer.length \in CSeqLengths
Fitting ==
  HeadFits(answer.length) =>
    Sound(response) /\ (thread = "handler" => response.data_length = answer.length + 50)
FitsInv == response \in Responses /\ Shaped /\ Begun /\ Fitting

LEMMA FitsInit == ProgramInit => FitsInv
  BY SizeAssumption DEF ProgramInit, FitsInv, Responses, EmptyResponse, Begun, Shaped, NoAnswer,
       Fitting, Sound

USE DEF mainvars, clientvars, answervars, vars

(* The head of an answer, with the longest headers a handler can add.      *)
LEMMA HeadHolds ==
  ASSUME NEW c \in CSeqLengths, HeadFits(c),
         NEW first \in {0} \union HeaderValues, NEW second \in {0} \union HeaderValues
  PROVE  /\ c \in Nat \ {0} /\ first \in Nat /\ second \in Nat
         /\ c + 122 <= DataSize /\ c + first + second + 116 <= DataSize
<1>0. c \in Nat \ {0} /\ first \in Nat /\ second \in Nat /\ DataSize \in Nat
  BY LengthAssumption, SizeAssumption
<1>1. c + 122 <= DataSize /\ \A f, s \in HeaderValues : c + f + s + 116 <= DataSize
  BY DEF HeadFits
<1>2. CASE first = 0 /\ second = 0
  BY <1>0, <1>1, <1>2
<1>3. CASE first # 0 /\ second # 0
  BY <1>0, <1>1, <1>3
<1>4. CASE first = 0 /\ second # 0
  <2>1. c + second + second + 116 <= DataSize
    BY <1>1, <1>4
  <2>2. QED
    BY <1>0, <1>1, <1>4, <2>1
<1>5. CASE first # 0 /\ second = 0
  <2>1. c + first + first + 116 <= DataSize
    BY <1>1, <1>5
  <2>2. QED
    BY <1>0, <1>1, <1>5, <2>1
<1>6. QED
  BY <1>2, <1>3, <1>4, <1>5, <1>0, <1>1

LEMMA FitsStep == FitsInv /\ [ProgramNext]_vars => FitsInv'
<1> SUFFICES ASSUME FitsInv, [ProgramNext]_vars PROVE FitsInv'
  OBVIOUS
<1>0. DataSize \in Nat /\ response \in Responses /\ Shaped /\ Begun /\ Fitting
  BY SizeAssumption DEF FitsInv
<1>1. CASE UNCHANGED <<response, answer, thread>>
  BY <1>1 DEF FitsInv, Shaped, Begun, Fitting, HeadFits
<1>2. CASE MakeResponse
  <2>1. PICK length \in CSeqLengths :
          /\ response' = AddHeader(AddHeader(NewResponse, 4, length), 6, 15)
          /\ answer' = [cseq |-> GetHeader(request, <<"C", "Seq">>), length |-> length,
                        says |-> "done"]
    BY <1>2 DEF MakeResponse
  <2> DEFINE begun == AddHeader(NewResponse, 4, length)
             ready == AddHeader(begun, 6, 15)
  <2>2. length \in Nat \ {0} /\ length \in Pieces /\ 4 \in Pieces /\ 6 \in Pieces /\ 15 \in Pieces
    BY LengthAssumption DEF Pieces
  <2>3. ready \in Responses
    BY <2>2, BeginningTyped, HeaderTyped
  <2>4. HeadFits(length) => Sound(ready) /\ ready.data_length = length + 50
    <3> SUFFICES ASSUME HeadFits(length) PROVE Sound(ready) /\ ready.data_length = length + 50
      OBVIOUS
    <3>1. length + 122 <= DataSize
      BY DEF HeadFits
    <3>2. Sound(NewResponse) /\ NewResponse.data_length = 17
      BY <1>0, <2>2, <3>1, BeginningFits
    <3>3. Sound(begun) /\ begun.data_length = length + 25
      BY <1>0, <2>2, <3>1, <3>2, HeaderFits
    <3>4. QED
      <4> HIDE DEF begun
      <4> QED BY <1>0, <2>2, <3>1, <3>3, HeaderFits
  <2> HIDE DEF ready
  <2>5. response' = ready /\ answer'.length = length /\ Shaped'
    BY <2>1 DEF Shaped, ready
  <2>6. Fitting'
    BY <2>4, <2>5 DEF Fitting, HeadFits
  <2>7. QED
    BY <2>3, <2>5, <2>6 DEF FitsInv, Begun
<1>3. CASE HandleInfo
  <2>1. PICK datalen \in DataLengths : response' = Finish(AddHeader(response, 12, 32), datalen)
    BY <1>3 DEF HandleInfo, Respond
  <2> DEFINE c == answer.length
             typed == AddHeader(response, 12, 32)
             done == Finish(typed, datalen)
  <2>2. thread = "handler" /\ c \in Nat /\ 12 \in Pieces /\ 32 \in Pieces
    BY <1>0, <1>3, LengthAssumption DEF HandleInfo, Begun, Pieces
  <2>3. done \in Responses
    BY <1>0, <2>2, HeaderTyped, FinishTyped
  <2>4. HeadFits(c) => Sound(done)
    <3> SUFFICES ASSUME HeadFits(c) PROVE Sound(done)
      OBVIOUS
    <3>1. c + 122 <= DataSize /\ Sound(response) /\ response.data_length = c + 50
      BY <1>0, <2>2 DEF HeadFits, Fitting
    <3> HIDE DEF c
    <3>2. Sound(typed) /\ typed.data_length = c + 98
      BY <1>0, <2>2, <3>1, HeaderFits
    <3>3. QED
      <4> HIDE DEF typed
      <4> QED BY <1>0, <2>2, <3>1, <3>2, FinishFits
  <2> HIDE DEF done
  <2>5. /\ response' = done /\ thread' = "send"
        /\ answer' = [cseq |-> answer.cseq, length |-> answer.length, says |-> txt]
    BY <1>0, <1>3, <2>1 DEF HandleInfo, Respond, Shaped, done
  <2>6. Shaped' /\ answer'.length = c
    BY <2>5 DEF Shaped
  <2>7. Fitting'
    BY <2>4, <2>5, <2>6 DEF Fitting, HeadFits
  <2>8. QED
    BY <2>3, <2>5, <2>6, <2>7 DEF FitsInv, Begun
<1>4. CASE HandleOther
  <2>0. PICK one \in OneMore(response) :
          \E two \in OneMore(one) : \E disconnect \in BOOLEAN, datalen \in DataLengths \union {0} :
            response' = Finish(SetDisconnect(two, disconnect), datalen)
    BY <1>4 DEF HandleOther, Respond
  <2>1. PICK two \in OneMore(one), disconnect \in BOOLEAN, datalen \in DataLengths \union {0} :
          response' = Finish(SetDisconnect(two, disconnect), datalen)
    BY <2>0
  <2> DEFINE c == answer.length
             three == SetDisconnect(two, disconnect)
             done == Finish(three, datalen)
  <2>2. thread = "handler" /\ c \in CSeqLengths /\ c \in Nat \ {0}
    BY <1>0, <1>4, LengthAssumption DEF HandleOther, Begun
  <2>3. PICK first \in {0} \union HeaderValues :
          /\ one \in {response, AddHeader(response, 17, first)}
          /\ first = 0 => one = response
    <3>1. one = response \/ \E v \in HeaderValues : v # 0 /\ one = AddHeader(response, 17, v)
      BY <2>0, LengthAssumption DEF OneMore
    <3>2. QED
      BY <3>1, Zenon
  <2>4. PICK second \in {0} \union HeaderValues :
          /\ two \in {one, AddHeader(one, 17, second)}
          /\ second = 0 => two = one
    <3>1. two = one \/ \E v \in HeaderValues : v # 0 /\ two = AddHeader(one, 17, v)
      BY <2>1, LengthAssumption DEF OneMore
    <3>2. QED
      BY <3>1, Zenon
  <2>5. /\ first \in Nat /\ second \in Nat /\ 17 \in Pieces
        /\ first # 0 => first \in Pieces
        /\ second # 0 => second \in Pieces
    BY LengthAssumption DEF Pieces
  <2>6. one \in Responses /\ two \in Responses
    BY <1>0, <2>3, <2>4, <2>5, HeaderTyped
  <2>7. /\ three \in Responses /\ three.data_length = two.data_length
        /\ three.fits = two.fits
    BY <2>6 DEF SetDisconnect, Responses
  <2>8. done \in Responses
    <3> HIDE DEF three
    <3> QED BY <2>7, FinishTyped
  <2>9. HeadFits(c) => Sound(done)
    <3> SUFFICES ASSUME HeadFits(c) PROVE Sound(done)
      OBVIOUS
    <3>1. /\ c + 122 <= DataSize /\ c + first + second + 116 <= DataSize
          /\ Sound(response) /\ response.data_length = c + 50
      BY <1>0, <2>2, HeadHolds DEF Fitting
    <3> HIDE DEF c
    <3>2. Sound(one) /\ one.data_length <= c + first + 71
      <4>1. CASE one = response
        BY <1>0, <2>2, <2>5, <3>1, <4>1
      <4>2. CASE one # response
        <5>1. first \in Pieces /\ response.data_length + 17 + first + 4 <= DataSize
          BY <1>0, <2>2, <2>3, <2>5, <3>1, <4>2
        <5>2. Sound(one) /\ one.data_length = response.data_length + 17 + first + 4
          BY <2>3, <2>5, <3>1, <4>2, <5>1, HeaderFits
        <5>3. QED
          BY <2>2, <2>5, <3>1, <5>2
      <4>3. QED
        BY <4>1, <4>2
    <3>3. Sound(two) /\ two.data_length <= c + first + second + 92
      <4>0. one.data_length \in Nat
        BY <2>6 DEF Responses
      <4>1. CASE two = one
        BY <2>2, <2>5, <3>2, <4>0, <4>1
      <4>2. CASE two # one
        <5>1. second \in Pieces /\ one.data_length + 17 + second + 4 <= DataSize
          BY <1>0, <2>2, <2>4, <2>5, <3>1, <3>2, <4>0, <4>2
        <5>2. Sound(two) /\ two.data_length = one.data_length + 17 + second + 4
          BY <2>4, <2>5, <3>2, <4>2, <5>1, HeaderFits
        <5>3. QED
          BY <2>2, <2>5, <3>2, <4>0, <5>2
      <4>3. QED
        BY <4>1, <4>2
    <3>4. Sound(three)
      BY <2>7, <3>3 DEF Sound
    <3>5. three.data_length + 24 <= DataSize
      <4>1. two.data_length \in Nat
        BY <2>6 DEF Responses
      <4> HIDE DEF three
      <4>2. QED
        BY <1>0, <2>2, <2>5, <2>7, <3>1, <3>3, <4>1
    <3>6. QED
      <4> HIDE DEF three
      <4> QED BY <3>4, <3>5, FinishFits
  <2> HIDE DEF done
  <2>10. response' = done /\ thread' = "send" /\ UNCHANGED answer
    BY <1>4, <2>1 DEF HandleOther, Respond, done
  <2>11. Fitting'
    BY <2>9, <2>10 DEF Fitting, HeadFits
  <2>12. QED
    BY <1>0, <2>8, <2>10, <2>11 DEF FitsInv, Begun, Shaped
<1>5. CASE Close
  BY <1>0, <1>5 DEF Close, FitsInv, Begun, Shaped, Fitting, Sound, Responses, EmptyResponse, NoAnswer
<1>6. CASE UNCHANGED <<response, answer>> /\ thread' # "handler"
  BY <1>0, <1>6 DEF FitsInv, Begun, Shaped, Fitting, HeadFits
<1>7. CASE Main
  BY <1>1, <1>7 DEF Main, RestOfMain, RaopStart, DnssdInit, SetDnssd, RegisterRaop, BuildRecord,
       RegisterAirplay, RegisterFails
<1>8. CASE Client
  BY <1>1, <1>8 DEF Client, Connect, Ask, Cut
<1>9. CASE Recv \/ RecvClosed \/ NoResponse \/ Send \/ SendFails
  BY <1>1, <1>6, <1>9 DEF Recv, RecvClosed, NoResponse, Send, SendFails
<1>10. CASE InfoCrashes \/ HeapFails
  BY <1>1, <1>10 DEF InfoCrashes, HeapFails, RestOfMain
<1>11. QED
  BY <1>1, <1>2, <1>3, <1>4, <1>5, <1>7, <1>8, <1>9, <1>10 DEF ProgramNext, Thread

(* No piece of an answer is copied beyond the end of the response's        *)
(* buffer, for every length of its data, as long as its head, with the     *)
(* CSeq that it repeats, is shorter than 1024.  That needs no assumption   *)
(* about the client: a longer CSeq comes, too, and is what HeadFits rules  *)
(* out of the promise.                                                     *)
THEOREM AnswersAlwaysFit == ProgramSpec => []ResponseFits
<1>1. FitsInv => ResponseFits
  BY DEF FitsInv, Fitting, Sound, ResponseFits
<1>2. QED
  BY FitsInit, FitsStep, <1>1, PTL DEF ProgramSpec
-----------------------------------------------------------------------------
(* The order of start_server, as far as others rely on it.                 *)
DnssdSet == \/ main \in {"register_raop", "register_airplay", "build_record", "running"}
            \/ announced # {} \/ found # "nothing"
Order ==
  /\ DnssdSet => dnssd = TRUE
  /\ main = "crashed" => dnssd = FALSE
  /\ "airplay" \in announced => txt = "complete" /\ main \in {"running", "exited", "crashed", "overrun"}
  /\ found = "both" => "airplay" \in announced

(* What the client that found both services is told.                       *)
AllSaid == {"done", "complete"}
Told ==
  /\ \E A : answers \in Seq(A)
  /\ found = "both" => /\ \A k \in DOMAIN answers : answers[k].says \in AllSaid
                       /\ thread \in {"handler", "send"} => answer.says \in AllSaid
  /\ Shaped
StartInv == Order /\ Told

LEMMA StartInit == ProgramInit => StartInv
<1> SUFFICES ASSUME ProgramInit PROVE StartInv
  OBVIOUS
<1>1. Order
  BY DEF ProgramInit, Order, DnssdSet
<1>2. answers \in Seq({}) /\ DOMAIN answers = {}
  BY DEF ProgramInit
<1>3. Told
  BY <1>2 DEF ProgramInit, Told, NoAnswer, AllSaid, Shaped
<1>4. QED
  BY <1>1, <1>3 DEF StartInv

LEMMA OrderStep == Order /\ [ProgramNext]_vars => Order'
<1> SUFFICES ASSUME Order, [ProgramNext]_vars PROVE Order'
  OBVIOUS
<1>1. CASE UNCHANGED <<mainvars, found>>
  BY <1>1 DEF Order, DnssdSet
<1>2. CASE RaopStart
  BY <1>2 DEF RaopStart, RestOfMain, Order, DnssdSet
<1>3. CASE DnssdInit
  BY <1>3 DEF DnssdInit, RestOfMain, Order, DnssdSet
<1>4. CASE SetDnssd
  BY <1>4 DEF SetDnssd, RestOfMain, Order, DnssdSet
<1>5. CASE RegisterRaop
  BY <1>5 DEF RegisterRaop, RestOfMain, Order, DnssdSet
<1>6. CASE BuildRecord
  BY <1>6 DEF BuildRecord, RestOfMain, Order, DnssdSet
<1>7. CASE RegisterAirplay
  BY <1>7 DEF RegisterAirplay, RestOfMain, Order, DnssdSet
<1>8. CASE RegisterFails
  BY <1>8 DEF RegisterFails, RestOfMain, Order, DnssdSet
<1>9. CASE Connect
  <2>1. found' # "nothing" => announced # {}
    BY <1>9 DEF Connect
  <2>2. found' = "both" => "airplay" \in announced
    BY <1>9 DEF Connect
  <2>3. UNCHANGED mainvars
    BY <1>9 DEF Connect
  <2>4. QED
    BY <2>1, <2>2, <2>3 DEF Order, DnssdSet
<1>10. CASE Ask \/ Cut
  BY <1>1, <1>10 DEF Ask, Cut
<1>11. CASE InfoCrashes /\ Alive
  BY <1>11 DEF InfoCrashes, Order, DnssdSet
<1>12. CASE Recv \/ RecvClosed \/ NoResponse \/ MakeResponse \/ HandleInfo \/ HandleOther
            \/ Send \/ SendFails \/ Close
  BY <1>1, <1>12 DEF Recv, RecvClosed, NoResponse, MakeResponse, HandleInfo, HandleOther, Send,
       SendFails, Close
<1>13. CASE HeapFails /\ Alive
  BY <1>13 DEF HeapFails, RestOfMain, Alive, Order, DnssdSet
<1>14. QED
  BY <1>1, <1>2, <1>3, <1>4, <1>5, <1>6, <1>7, <1>8, <1>9, <1>10, <1>11, <1>12, <1>13
     DEF ProgramNext, Main, Client, Thread

LEMMA ToldStep == Order /\ Told /\ [ProgramNext]_vars => Told'
<1> SUFFICES ASSUME Order, Told, [ProgramNext]_vars PROVE Told'
  OBVIOUS
<1>1. CASE UNCHANGED <<answers, answer, found>> /\ (UNCHANGED thread \/ thread' \notin {"handler", "send"})
  BY <1>1 DEF Told, Shaped
<1>2. CASE Connect
  <2>1. answers' \in Seq({}) /\ DOMAIN answers' = {} /\ thread' = "select" /\ answer' = answer
    BY <1>2 DEF Connect
  <2>2. QED
    BY <2>1 DEF Told, Shaped
<1>3. CASE MakeResponse
  <2>1. /\ answer' = [cseq |-> answer'.cseq, length |-> answer'.length, says |-> "done"]
        /\ UNCHANGED <<answers, found>>
    BY <1>3 DEF MakeResponse
  <2>2. QED
    BY <2>1 DEF Told, AllSaid, Shaped
<1>4. CASE HandleInfo
  <2>1. /\ answer' = [cseq |-> answer.cseq, length |-> answer.length, says |-> txt]
        /\ UNCHANGED <<answers, found>>
    BY <1>4 DEF HandleInfo, Told, Shaped
  <2>2. found = "both" => txt = "complete"
    BY DEF Order
  <2>3. QED
    BY <2>1, <2>2 DEF Told, AllSaid, Shaped
<1>5. CASE HandleOther
  <2>1. /\ UNCHANGED <<answers, found, answer>> /\ thread = "handler"
    BY <1>5 DEF HandleOther
  <2>2. QED
    BY <2>1 DEF Told, Shaped
<1>6. CASE Send
  <2>1. /\ thread = "send" /\ UNCHANGED <<answer, found>>
        /\ answers' \in {answers, Append(answers, answer)}
    BY <1>6 DEF Send
  <2>2. PICK A : answers \in Seq(A)
    BY DEF Told
  <2> DEFINE B == A \union {answer}
             after == Append(answers, answer)
  <2>3. answers \in Seq(B)
    BY <2>2
  <2>4. after \in Seq(B) /\ Len(after) = Len(answers) + 1
    BY <2>3
  <2>5. \A k \in DOMAIN after : after[k] = answer \/ (k \in DOMAIN answers /\ after[k] = answers[k])
    BY <2>3
  <2>6. CASE answers' = answers
    BY <2>1, <2>6 DEF Told, Shaped
  <2>7. CASE answers' = after
    <3>1. \E C : answers' \in Seq(C)
      BY <2>4, <2>7
    <3>2. found = "both" => \A k \in DOMAIN after : after[k].says \in AllSaid
      BY <2>1, <2>5 DEF Told
    <3> HIDE DEF after
    <3>3. QED
      BY <2>1, <2>7, <3>1, <3>2 DEF Told, Shaped
  <2>8. QED
    BY <2>1, <2>6, <2>7
<1>7. CASE Close
  BY <1>7 DEF Close, Told, NoAnswer, Shaped
<1>8. CASE Main
  BY <1>1, <1>8 DEF Main, RestOfMain, RaopStart, DnssdInit, SetDnssd, RegisterRaop, BuildRecord,
       RegisterAirplay, RegisterFails
<1>9. CASE Ask \/ Cut \/ Recv \/ RecvClosed \/ NoResponse \/ SendFails \/ InfoCrashes \/ HeapFails
  BY <1>1, <1>9 DEF Ask, Cut, Recv, RecvClosed, NoResponse, SendFails, InfoCrashes, HeapFails,
       RestOfMain
<1>10. CASE UNCHANGED vars
  BY <1>1, <1>10
<1>11. QED
  BY <1>2, <1>3, <1>4, <1>5, <1>6, <1>7, <1>8, <1>9, <1>10 DEF ProgramNext, Client, Thread

(* A client that connects because it found an announced service never has  *)
(* GET /info meet a raop without dnssd, and once both services are         *)
(* announced it is handed the whole TXT record; for any number of requests.*)
THEOREM AnnouncedAlwaysReady == ProgramSpec => []AnnouncedMeansReady
<1>1. StartInv /\ [ProgramNext]_vars => StartInv'
  BY OrderStep, ToldStep DEF StartInv
<1>2. StartInv => AnnouncedMeansReady
  <2> SUFFICES ASSUME StartInv PROVE AnnouncedMeansReady
    OBVIOUS
  <2>1. main = "crashed" => found = "nothing"
    BY DEF StartInv, Order, DnssdSet
  <2>2. found = "both" => \A k \in DOMAIN answers : answers[k].says \in {"done", "complete"}
    BY DEF StartInv, Told, AllSaid
  <2>3. QED
    BY <2>1, <2>2 DEF AnnouncedMeansReady
<1>3. QED
  BY StartInit, <1>1, <1>2, PTL DEF ProgramSpec
-----------------------------------------------------------------------------
(* What the client sends.                                                  *)
LEMMA ShortWords ==
  ASSUME NEW a \in Characters, NEW b \in Characters
  PROVE  <<>> \in Words /\ <<a>> \in Words /\ <<a, b>> \in Words
BY DEF Words

LEMMA TwoHeaders ==
  ASSUME NEW g \in Words \X Words, NEW h \in Words \X Words
  PROVE  /\ <<g, h>> \in Seq(Words \X Words) /\ Len(<<g, h>>) = 2
         /\ <<g, h>>[1] = g /\ <<g, h>>[2] = h
OBVIOUS

(* The kinds of requests that a client can wait for the answer of.         *)
Waited == {"info", "post"}
HeaderOfInfo == <<<<"X">>, <<>>>>
HeaderOfPost == <<<<"X", "Y">>, <<"z">>>>
Number(n) == <<<<"C", "Seq">>, CSeq(n)>>

LEMMA HeadersTyped2 ==
  ASSUME NEW n \in 1 .. MaxRequests
  PROVE  /\ HeaderOfInfo \in Words \X Words /\ HeaderOfPost \in Words \X Words
         /\ Number(n) \in Words \X Words /\ CSeq(n) \in Words /\ CSeq(n) # Missing
<1>1. Numerals[n] \in Characters
  BY RequestAssumption
<1>2. {"X", "Y", "z", "C", "Seq", "0"} \subseteq Characters
  BY RequestAssumption
<1>3. /\ <<"X">> \in Words /\ <<>> \in Words /\ <<"X", "Y">> \in Words /\ <<"z">> \in Words
      /\ <<"C", "Seq">> \in Words /\ <<"0", Numerals[n]>> \in Words
  BY <1>1, <1>2, ShortWords
<1>4. <<"0", Numerals[n]>> # <<NoMethod>>
  OBVIOUS
<1>5. QED
  BY <1>3, <1>4 DEF HeaderOfInfo, HeaderOfPost, Number, CSeq, Missing

LEMMA InfoIs ==
  ASSUME NEW n \in 1 .. MaxRequests
  PROVE  RequestOf("info", n) =
           [method |-> "GET", url |-> <<"/", "info">>, body |-> <<>>,
            headers |-> <<HeaderOfInfo, Number(n)>>]
BY Zenon DEF RequestOf, HeaderOfInfo, Number

LEMMA PostIs ==
  ASSUME NEW n \in 1 .. MaxRequests
  PROVE  RequestOf("post", n) =
           [method |-> "POST", url |-> <<"/", "pair">>, body |-> <<"a", "b">>,
            headers |-> <<Number(n), HeaderOfPost>>]
<1>1. "post" # "info"
  OBVIOUS
<1>2. QED
  BY <1>1, Zenon DEF RequestOf, HeaderOfPost, Number

LEMMA BareIs ==
  ASSUME NEW n \in 1 .. MaxRequests
  PROVE  RequestOf("bare", n) =
           [method |-> "GET", url |-> <<"/", "info">>, body |-> <<>>, headers |-> <<>>]
<1>1. "bare" # "info" /\ "bare" # "post"
  OBVIOUS
<1>2. QED
  BY <1>1, Zenon DEF RequestOf

LEMMA MessageIs ==
  ASSUME NEW a \in Characters, NEW u \in Words, NEW h \in Seq(Words \X Words), NEW b \in Words
  PROVE  [method |-> a, url |-> u, body |-> b, headers |-> h] \in Messages
BY DEF Messages

LEMMA RequestIsMessage ==
  ASSUME NEW kind \in Kinds, NEW n \in 1 .. MaxRequests
  PROVE  RequestOf(kind, n) \in Messages
<1>1. {"GET", "POST", "/", "info", "pair", "a", "b"} \subseteq Characters
  BY RequestAssumption
<1>2. /\ <<"/", "info">> \in Words /\ <<"/", "pair">> \in Words /\ <<"a", "b">> \in Words
      /\ <<>> \in Words
  BY <1>1, ShortWords
<1>3. /\ <<HeaderOfInfo, Number(n)>> \in Seq(Words \X Words)
      /\ <<Number(n), HeaderOfPost>> \in Seq(Words \X Words)
  BY HeadersTyped2, TwoHeaders
<1>4. CASE kind = "info"
  <2>1. RequestOf(kind, n) = [method |-> "GET", url |-> <<"/", "info">>, body |-> <<>>, headers |-> <<HeaderOfInfo, Number(n)>>]
    BY <1>4, InfoIs, Zenon
  <2>2. "GET" \in Characters /\ <<HeaderOfInfo, Number(n)>> \in Seq(Words \X Words)
    BY <1>1, <1>3
  <2>3. QED
    BY <1>2, <2>1, <2>2, MessageIs, Zenon
<1>5. CASE kind = "post"
  <2>1. RequestOf(kind, n) = [method |-> "POST", url |-> <<"/", "pair">>, body |-> <<"a", "b">>, headers |-> <<Number(n), HeaderOfPost>>]
    BY <1>5, PostIs, Zenon
  <2>2. "POST" \in Characters /\ <<Number(n), HeaderOfPost>> \in Seq(Words \X Words)
    BY <1>1, <1>3
  <2>3. QED
    BY <1>2, <2>1, <2>2, MessageIs, Zenon
<1>6. CASE kind = "bare"
  <2>1. RequestOf(kind, n) = [method |-> "GET", url |-> <<"/", "info">>, body |-> <<>>, headers |-> <<>>]
    BY <1>6, BareIs, Zenon
  <2>2. "GET" \in Characters /\ <<>> \in Seq(Words \X Words)
    BY <1>1
  <2>3. QED
    BY <1>2, <2>1, <2>2, MessageIs, Zenon
<1>7. QED
  BY <1>4, <1>5, <1>6 DEF Kinds

(* conn_request finds the number of the request.                           *)
LEMMA NumberFound ==
  ASSUME NEW kind \in Waited, NEW n \in 1 .. MaxRequests
  PROVE  GetHeader(AddData(NewRequest, Wire(RequestOf(kind, n))).request, <<"C", "Seq">>) = CSeq(n)
<1> DEFINE m == RequestOf(kind, n)
           r == AddData(NewRequest, Wire(m)).request
           name == <<"C", "Seq">>
           places == {i \in 1 .. Len(r.headers) : i % 2 = 1 /\ r.headers[i] = name}
<1>1. m \in Messages
  BY RequestIsMessage DEF Waited, Kinds
<1>2. /\ Len(r.headers) = 2 * Len(m.headers)
      /\ \A k \in 1 .. Len(m.headers) :
           /\ r.headers[2 * k - 1] = m.headers[k][1]
           /\ r.headers[2 * k] = m.headers[k][2]
  <2> HIDE DEF m
  <2> QED BY <1>1, WholeRequest
<1>3. PICK p \in {1, 3} : places = {p} /\ r.headers[p + 1] = CSeq(n)
  <2>1. CASE kind = "info"
    <3>1. m.headers = <<HeaderOfInfo, Number(n)>>
      BY <2>1, InfoIs
    <3>2. Len(m.headers) = 2 /\ m.headers[1] = HeaderOfInfo /\ m.headers[2] = Number(n)
      BY <3>1
    <3> HIDE DEF m, r
    <3>3. Len(r.headers) = 4
      BY <1>2, <3>2
    <3>4. /\ r.headers[2 * 1 - 1] = <<"X">>
          /\ r.headers[2 * 2 - 1] = <<"C", "Seq">> /\ r.headers[2 * 2] = CSeq(n)
      BY <1>2, <3>2 DEF HeaderOfInfo, Number
    <3>5. r.headers[1] # name /\ r.headers[3] = name /\ r.headers[4] = CSeq(n)
      <4>1. <<"X">> # <<"C", "Seq">>
        OBVIOUS
      <4>2. QED
        BY <3>4, <4>1
    <3>6. places = {3}
      <4>1. \A i \in 1 .. 4 : i % 2 = 1 <=> i \in {1, 3}
        OBVIOUS
      <4>2. QED
        BY <3>3, <3>5, <4>1
    <3>7. QED
      BY <3>5, <3>6
  <2>2. CASE kind = "post"
    <3>1. m.headers = <<Number(n), HeaderOfPost>>
      BY <2>2, PostIs
    <3>2. Len(m.headers) = 2 /\ m.headers[1] = Number(n) /\ m.headers[2] = HeaderOfPost
      BY <3>1
    <3> HIDE DEF m, r
    <3>3. Len(r.headers) = 4
      BY <1>2, <3>2
    <3>4. /\ r.headers[2 * 1 - 1] = <<"C", "Seq">> /\ r.headers[2 * 1] = CSeq(n)
          /\ r.headers[2 * 2 - 1] = <<"X", "Y">>
      BY <1>2, <3>2 DEF HeaderOfPost, Number
    <3>5. r.headers[3] # name /\ r.headers[1] = name /\ r.headers[2] = CSeq(n)
      <4>1. <<"X", "Y">> # <<"C", "Seq">>
        OBVIOUS
      <4>2. QED
        BY <3>4, <4>1
    <3>6. places = {1}
      <4>1. \A i \in 1 .. 4 : i % 2 = 1 <=> i \in {1, 3}
        OBVIOUS
      <4>2. QED
        BY <3>3, <3>5, <4>1
    <3>7. QED
      BY <3>5, <3>6
  <2>3. QED
    BY <2>1, <2>2 DEF Waited
<1>4. (CHOOSE i \in places : \A j \in places : i <= j) = p
  <2> HIDE DEF places
  <2>1. p \in places /\ \A j \in places : p <= j
    BY <1>3
  <2>2. \A i \in places : i = p
    BY <1>3
  <2>3. QED
    BY <2>1, <2>2
<1>5. places # {} /\ 1 + p = p + 1
  <2> HIDE DEF places
  <2> QED BY <1>3
<1>6. GetHeader(r, name) = r.headers[1 + CHOOSE i \in places : \A j \in places : i <= j]
  <2>1. GetHeader(r, name) = IF places = {} THEN Missing
                             ELSE r.headers[1 + CHOOSE i \in places : \A j \in places : i <= j]
    BY Zenon DEF GetHeader
  <2> HIDE DEF places, r
  <2>2. QED
    BY <1>5, <2>1
<1>7. QED
  <2> HIDE DEF places, r, name
  <2>1. GetHeader(r, name) = r.headers[p + 1]
    BY <1>4, <1>5, <1>6
  <2>2. QED
    BY <1>3, <2>1 DEF r, name
-----------------------------------------------------------------------------
(* What has been read of a message after n of its units.                   *)
Arrived(m, n) ==
  IF n = 0 THEN NoRequest ELSE AddData(NewRequest, SubSeq(Wire(m), 1, n)).request

LEMMA NullIsNotNew == NewRequest # NoRequest /\ NoRequest.complete = TRUE
BY DEF NewRequest, NoRequest

LEMMA Arrives ==
  ASSUME NEW m \in Messages, NEW n \in 0 .. Len(Wire(m)) - 1, NEW k \in 1 .. Len(Wire(m)) - n
  PROVE  LET unread_ == SubSeq(Wire(m), n + 1, Len(Wire(m)))
             next == AddData(IF Arrived(m, n) = NoRequest THEN NewRequest ELSE Arrived(m, n),
                             SubSeq(unread_, 1, k))
         IN  /\ Len(unread_) = Len(Wire(m)) - n /\ unread_ # <<>>
             /\ next.error = FALSE /\ next.request = Arrived(m, n + k)
             /\ SubSeq(unread_, k + 1, Len(unread_)) = SubSeq(Wire(m), n + k + 1, Len(Wire(m)))
             /\ n + k < Len(Wire(m)) => next.request.complete = FALSE
             /\ n + k = Len(Wire(m)) =>
                  /\ next.request.complete = TRUE
                  /\ next.request = AddData(NewRequest, Wire(m)).request
                  /\ SubSeq(unread_, k + 1, Len(unread_)) = <<>>
<1> DEFINE w == Wire(m)
           l == Len(w)
           rest == SubSeq(w, n + 1, l)
           so == AddData(NewRequest, SubSeq(w, 1, n)).request
           start == IF Arrived(m, n) = NoRequest THEN NewRequest ELSE Arrived(m, n)
           next == AddData(start, SubSeq(rest, 1, k))
           left == SubSeq(rest, k + 1, Len(rest))
<1>1. w \in Seq(Units) /\ l \in Nat \ {0}
  BY WireEnds
<1>2. /\ n \in 0 .. l /\ n + k \in 0 .. l /\ n + k # 0 /\ k \in 0 .. l - n /\ n \in Nat /\ k \in Nat
      /\ n < l
  BY <1>1
<1>3. start = so
  <2>1. CASE n = 0
    <3>1. SubSeq(w, 1, n) = <<>>
      BY <1>1, <2>1, SubSeqNone, Zenon
    <3>2. NewRequest \in Requests
      BY DEF NewRequest, Requests, Nothing, NoMethod, Letters, Texts
    <3>3. so = NewRequest
      BY <3>1, <3>2, NothingGives DEF Gives
    <3>4. start = NewRequest
      BY <2>1 DEF Arrived
    <3>5. QED
      BY <3>3, <3>4
  <2>2. CASE n # 0
    <3>1. Arrived(m, n) = so
      BY <2>2, Zenon DEF Arrived
    <3>2. so.complete = FALSE
      <4>1. n \in 0 .. Len(Wire(m)) /\ n < Len(Wire(m))
        BY <1>2
      <4>2. QED
        BY <4>1, WhileItComes, Zenon
    <3>3. so # NoRequest
      <4> HIDE DEF so
      <4> QED BY <3>2, NullIsNotNew
    <3>4. QED
      BY <3>1, <3>3, Zenon
  <2>3. QED
    BY <2>1, <2>2
<1> HIDE DEF start, so
<1>4. next.error = FALSE /\ next.request = AddData(NewRequest, SubSeq(w, 1, n + k)).request
  <2>1. n \in 0 .. Len(Wire(m)) /\ k \in 0 .. Len(Wire(m)) - n
    BY <1>2
  <2>2. QED
    BY <1>3, <2>1, ReadsOn, Zenon DEF so
<1>5. Arrived(m, n + k) = AddData(NewRequest, SubSeq(w, 1, n + k)).request
  BY <1>2, Zenon DEF Arrived
<1>6. n + k < l => next.request.complete = FALSE
  <2>1. n + k \in 0 .. Len(Wire(m))
    BY <1>2
  <2>2. QED
    BY <1>4, <2>1, WhileItComes, Zenon
<1>7. Len(rest) = l - n /\ left = SubSeq(w, n + k + 1, l)
  <2>1. Len(rest) = l - n
    BY <1>1, <1>2, RestIs, Zenon
  <2>2. left = SubSeq(w, n + k + 1, l)
    BY <1>1, <1>2, RestOfRest, Zenon
  <2>3. QED
    BY <2>1, <2>2
<1>8. ASSUME n + k = l
      PROVE  /\ next.request.complete = TRUE
             /\ next.request = AddData(NewRequest, w).request
             /\ left = <<>>
  <2>1. SubSeq(w, 1, n + k) = w
    BY <1>1, <1>8, SubSeqNone, Zenon
  <2>2. AddData(NewRequest, Wire(m)).request.complete = TRUE
    BY WholeRequest, Zenon
  <2>3. left = <<>>
    <3>1. SubSeq(w, l + 1, l) \in Seq(Units) /\ Len(SubSeq(w, l + 1, l)) = 0
      BY <1>1
    <3>2. SubSeq(w, l + 1, l) = <<>>
      <4> HIDE DEF w, l
      <4> QED BY <3>1
    <3>3. QED
      BY <1>7, <1>8, <3>2
  <2>4. QED
    BY <1>4, <2>1, <2>2, <2>3
<1>9. rest # <<>>
  <2> HIDE DEF rest, w
  <2> QED BY <1>1, <1>2, <1>7
<1>10. QED
  BY <1>4, <1>5, <1>6, <1>7, <1>8, <1>9, Zenon DEF start
-----------------------------------------------------------------------------
(* Where the dialogue with a client stands that waits for each answer: it  *)
(* is over, cut with nothing left to read, at rest, its last request is on *)
(* its way, or all there, or its answer is being sent.                     *)
Coming == RequestOf(sent[Len(sent)], Len(sent))
Quiet == unread = <<>> /\ request = NoRequest

Over == conn \in {"none", "ended"} /\ thread = "select"
Lost == conn = "cut" /\ thread \in {"select", "close"} /\ unread = <<>>
Rests ==
  /\ conn = "open" /\ thread \in {"select", "close"} /\ Quiet
  /\ handled = Len(sent) /\ Len(answers) = Len(sent)
Comes ==
  /\ conn \in {"open", "cut"} /\ thread \in {"select", "close"} /\ Len(sent) > 0
  /\ handled = Len(sent) - 1 /\ Len(answers) = Len(sent) - 1
  /\ \E n \in 0 .. Len(Wire(Coming)) - 1 :
       /\ unread = SubSeq(Wire(Coming), n + 1, Len(Wire(Coming)))
       /\ request = Arrived(Coming, n)
       /\ thread = "close" => n = 0
Came ==
  /\ conn \in {"open", "cut"} /\ thread \in {"request", "handler"} /\ Len(sent) > 0
  /\ handled = Len(sent) - 1 /\ Len(answers) = Len(sent) - 1
  /\ unread = <<>> /\ request = AddData(NewRequest, Wire(Coming)).request
  /\ thread = "handler" => answer.cseq = CSeq(Len(sent))
IsAnswered ==
  /\ conn \in {"open", "cut"} /\ thread = "send" /\ Quiet /\ Len(sent) > 0
  /\ handled = Len(sent) /\ Len(answers) = Len(sent) - 1
  /\ answer.cseq = CSeq(Len(sent))
Stands == Over \/ Lost \/ Rests \/ Comes \/ Came \/ IsAnswered

Answered == \A k \in 1 .. Len(answers) : answers[k].cseq = CSeq(k) /\ k <= Len(sent)
Dialogue == sent \in Seq(Waited) /\ Len(sent) <= MaxRequests /\ Answered /\ Stands
PatientInv == patient => Dialogue

LEMMA PatientInit == ProgramInit => PatientInv
BY RequestAssumption DEF ProgramInit, PatientInv, Dialogue, Answered, Stands, Over

LEMMA ComingIs ==
  ASSUME Dialogue, Len(sent) > 0
  PROVE  /\ Len(sent) \in 1 .. MaxRequests /\ sent[Len(sent)] \in Waited
         /\ Coming \in Messages
<1>1. Len(sent) \in 1 .. MaxRequests /\ sent[Len(sent)] \in Waited
  BY RequestAssumption DEF Dialogue
<1>2. QED
  BY <1>1, RequestIsMessage DEF Coming, Waited, Kinds

(* A client that waits asks when all it asked is answered.                 *)
LEMMA AskAtRest ==
  ASSUME Dialogue, patient, Ask
  PROVE  Rests
<1> DEFINE l == Len(sent)
<1>1. sent \in Seq(Waited) /\ l \in Nat /\ conn = "open"
  BY DEF Dialogue, Ask
<1>2. Awaits = 1 .. l
  BY <1>1 DEF Awaits, Waited
<1>3. Cardinality(Awaits) = l
  <2>1. Cardinality(1 .. l) = IF 1 > l THEN 0 ELSE l - 1 + 1
    BY <1>1, FS_Interval
  <2>2. QED
    BY <1>1, <1>2, <2>1
<1>4. Len(answers) = l
  BY <1>3 DEF Ask
<1>5. QED
  BY <1>1, <1>4 DEF Dialogue, Stands, Over, Lost, Comes, Came, IsAnswered

LEMMA AskInDialogue ==
  ASSUME Dialogue, patient, Ask
  PROVE  Dialogue'
<1> DEFINE l == Len(sent)
<1>1. sent \in Seq(Waited) /\ l \in Nat /\ l < MaxRequests /\ conn = "open"
  BY DEF Dialogue, Ask
<1>2. PICK kind \in Waited :
        /\ sent' = Append(sent, kind)
        /\ unread' = unread \o Wire(RequestOf(kind, l + 1))
  BY DEF Ask, Kinds, Waited
<1>3. UNCHANGED <<conn, request, thread, answer, answers, handled>>
  BY DEF Ask
<1>7. Rests /\ Len(answers) = l
  BY AskAtRest DEF Rests
<1>8. /\ sent' \in Seq(Waited) /\ Len(sent') = l + 1 /\ sent'[l + 1] = kind
      /\ Len(sent') <= MaxRequests
  BY <1>1, <1>2, RequestAssumption
<1>9. Coming' = RequestOf(kind, l + 1)
  BY <1>8 DEF Coming
<1>10. Coming' \in Messages
  <2>1. kind \in Kinds /\ l + 1 \in 1 .. MaxRequests
    BY <1>1, RequestAssumption DEF Kinds, Waited
  <2>2. QED
    BY <1>9, <2>1, RequestIsMessage, Zenon
<1>11. Wire(Coming') \in Seq(Units) /\ Len(Wire(Coming')) \in Nat \ {0}
  BY <1>10, WireEnds, Zenon
<1>12. unread' = SubSeq(Wire(Coming'), 0 + 1, Len(Wire(Coming')))
  <2>1. unread' = <<>> \o Wire(Coming')
    BY <1>2, <1>7, <1>9 DEF Rests, Quiet
  <2> DEFINE w == Wire(Coming')
  <2>2. w \in Seq(Units) /\ unread' = <<>> \o w
    BY <1>11, <2>1
  <2> HIDE DEF w
  <2>3. unread' = SubSeq(w, 0 + 1, Len(w))
    <3>1. <<>> \o w = w
      BY <2>2
    <3>2. SubSeq(w, 1, Len(w)) = w
      BY <2>2, SubSeqNone, Zenon
    <3>3. 0 + 1 = 1
      OBVIOUS
    <3>4. QED
      BY <2>2, <3>1, <3>2, <3>3, Zenon
  <2>4. QED
    BY <2>3 DEF w
<1>13. request' = Arrived(Coming', 0)
  BY <1>3, <1>7 DEF Rests, Quiet, Arrived
<1>14. Comes'
  <2>1. 0 \in 0 .. Len(Wire(Coming')) - 1
    BY <1>11
  <2>2. \E n \in 0 .. Len(Wire(Coming')) - 1 :
          /\ unread' = SubSeq(Wire(Coming'), n + 1, Len(Wire(Coming')))
          /\ request' = Arrived(Coming', n)
          /\ thread' = "close" => n = 0
    BY <1>12, <1>13, <2>1, Zenon
  <2>3. /\ conn' \in {"open", "cut"} /\ thread' \in {"select", "close"} /\ Len(sent') > 0
        /\ handled' = Len(sent') - 1 /\ Len(answers') = Len(sent') - 1
    BY <1>1, <1>3, <1>7, <1>8 DEF Rests
  <2>4. QED
    BY <2>2, <2>3 DEF Comes
<1>15. Answered'
  <2>1. ASSUME NEW k \in 1 .. Len(answers) PROVE answers[k].cseq = CSeq(k) /\ k <= Len(sent')
    BY <1>1, <1>8, <2>1 DEF Dialogue, Answered
  <2>2. QED
    BY <1>3, <2>1 DEF Answered
<1>16. QED
  BY <1>8, <1>14, <1>15 DEF Dialogue, Stands

(* What the client sent comes in pieces, until all of it is there.         *)
LEMMA RecvInDialogue ==
  ASSUME Dialogue, Recv
  PROVE  Dialogue'
<1>1. thread = "select" /\ unread # <<>> /\ conn \in {"open", "cut"}
  BY DEF Recv
<1>2. Comes
  BY <1>1 DEF Dialogue, Stands, Over, Lost, Rests, Came, IsAnswered, Quiet
<1> DEFINE w == Wire(Coming)
<1>3. PICK n \in 0 .. Len(w) - 1 :
        unread = SubSeq(w, n + 1, Len(w)) /\ request = Arrived(Coming, n)
  BY <1>2 DEF Comes
<1>4. Coming \in Messages
  BY <1>2, ComingIs DEF Comes
<1> DEFINE next(k) == AddData(IF request = NoRequest THEN NewRequest ELSE request,
                              SubSeq(unread, 1, k))
<1>5. PICK k \in 1 .. Len(unread) :
        /\ unread' = SubSeq(unread, k + 1, Len(unread))
        /\ IF next(k).error
             THEN conn' = "dropped" /\ request' = NoRequest /\ UNCHANGED thread
             ELSE /\ request' = next(k).request /\ UNCHANGED conn
                  /\ thread' = IF next(k).request.complete THEN "request" ELSE "select"
  BY Zenon DEF Recv
<1>6. /\ UNCHANGED <<answers, answer, sent, handled>>
  BY DEF Recv
<1>7. w \in Seq(Units) /\ Len(w) \in Nat \ {0}
  BY <1>4, WireEnds, Zenon
<1>8. k \in 1 .. Len(w) - n
  <2>1. Len(unread) = Len(w) - n
    <3>1. n \in 0 .. Len(w)
      BY <1>7
    <3>2. QED
      BY <1>3, <1>7, <3>1, RestIs, Zenon
  <2>2. QED
    BY <2>1
<1>9. /\ next(k).error = FALSE /\ next(k).request = Arrived(Coming, n + k)
      /\ unread' = SubSeq(w, n + k + 1, Len(w))
      /\ n + k < Len(w) => next(k).request.complete = FALSE
      /\ n + k = Len(w) =>
           /\ next(k).request.complete = TRUE
           /\ next(k).request = AddData(NewRequest, w).request
           /\ unread' = <<>>
  BY <1>3, <1>4, <1>5, <1>8, Arrives, Zenon
<1> HIDE DEF next
<1>10. Coming' = Coming
  BY <1>6 DEF Coming
<1>11. n + k \in 1 .. Len(w)
  BY <1>7, <1>8
<1>12. CASE n + k < Len(w)
  <2>1. n + k \in 0 .. Len(w) - 1
    BY <1>7, <1>11, <1>12
  <2>2. request' = Arrived(Coming, n + k) /\ thread' = "select" /\ conn' = conn
    BY <1>5, <1>9, <1>12
  <2>3. \E i \in 0 .. Len(w) - 1 :
          /\ unread' = SubSeq(w, i + 1, Len(w))
          /\ request' = Arrived(Coming, i)
          /\ thread' = "close" => i = 0
    BY <1>9, <2>1, <2>2
  <2> HIDE DEF w
  <2>4. Comes'
    BY <1>1, <1>2, <1>6, <1>10, <2>2, <2>3 DEF Comes, w
  <2>5. QED
    BY <1>6, <2>4 DEF Dialogue, Stands, Answered
<1>13. CASE n + k = Len(w)
  <2>1. request' = AddData(NewRequest, w).request /\ thread' = "request" /\ conn' = conn
    BY <1>5, <1>9, <1>13
  <2>2. Came'
    BY <1>1, <1>2, <1>6, <1>9, <1>10, <1>13, <2>1 DEF Comes, Came
  <2>3. QED
    BY <1>6, <2>2 DEF Dialogue, Stands, Answered
<1>14. QED
  BY <1>7, <1>11, <1>12, <1>13
-----------------------------------------------------------------------------
(* Whatever the handlers make of it, a request that is all there is        *)
(* answered with its own number.                                           *)
LEMMA ResponseInDialogue ==
  ASSUME Dialogue, Told, NoResponse \/ MakeResponse \/ HandleInfo \/ HandleOther
  PROVE  Dialogue'
<1>1. thread \in {"request", "handler"} /\ UNCHANGED <<conn, sent, unread, answers>>
  BY DEF NoResponse, MakeResponse, HandleInfo, HandleOther
<1>2. Came
  BY <1>1 DEF Dialogue, Stands, Over, Lost, Rests, Comes, IsAnswered
<1>3. Coming' = Coming
  BY <1>1 DEF Coming
<1>4. GetHeader(request, <<"C", "Seq">>) = CSeq(Len(sent)) /\ CSeq(Len(sent)) # Missing
  <2>1. Len(sent) \in 1 .. MaxRequests /\ sent[Len(sent)] \in Waited
    BY <1>2, ComingIs DEF Came
  <2>2. request = AddData(NewRequest, Wire(RequestOf(sent[Len(sent)], Len(sent)))).request
    BY <1>2 DEF Came, Coming
  <2>3. QED
    BY <2>1, <2>2, NumberFound, HeadersTyped2, Zenon
<1>5. Stands'
  <2>1. CASE NoResponse
    BY <1>4, <2>1 DEF NoResponse
  <2>2. CASE MakeResponse
    <3>1. thread' = "handler" /\ answer'.cseq = CSeq(Len(sent)) /\ UNCHANGED <<request, handled>>
      BY <1>4, <2>2 DEF MakeResponse
    <3>2. Came'
      BY <1>1, <1>2, <1>3, <3>1 DEF Came
    <3>3. QED
      BY <3>2 DEF Stands
  <2>3. CASE HandleInfo \/ HandleOther
    <3>1. thread = "handler" /\ thread' = "send" /\ request' = NoRequest /\ handled' = handled + 1
      BY <2>3 DEF HandleInfo, HandleOther, Respond
    <3>2. answer'.cseq = answer.cseq
      BY <2>3 DEF HandleInfo, HandleOther, Told, Shaped
    <3>3. Len(sent) \in Nat
      BY DEF Dialogue
    <3>4. IsAnswered'
      BY <1>1, <1>2, <3>1, <3>2, <3>3 DEF Came, IsAnswered, Quiet
    <3>5. QED
      BY <3>4 DEF Stands
  <2>4. QED
    BY <2>1, <2>2, <2>3
<1>6. QED
  BY <1>1, <1>5 DEF Dialogue, Answered

LEMMA SendInDialogue ==
  ASSUME Dialogue, Told, Send \/ SendFails
  PROVE  Dialogue'
<1>1. thread = "send" /\ UNCHANGED <<conn, sent, unread, request, handled, answer>>
  BY DEF Send, SendFails
<1>2. IsAnswered
  BY <1>1 DEF Dialogue, Stands, Over, Lost, Rests, Comes, Came
<1>3. CASE UNCHANGED <<thread, answers>>
  <2>1. IsAnswered'
    BY <1>1, <1>2, <1>3 DEF IsAnswered, Quiet
  <2>2. QED
    BY <1>1, <1>3, <2>1 DEF Dialogue, Stands, Answered
<1>4. CASE conn = "cut" /\ thread' = "close" /\ UNCHANGED answers
  <2>1. Lost'
    BY <1>1, <1>2, <1>4 DEF Lost, IsAnswered, Quiet
  <2>2. QED
    BY <1>1, <1>4, <2>1 DEF Dialogue, Stands, Answered
<1>5. CASE conn = "open" /\ thread' = "close" /\ answers' = Append(answers, answer)
  <2> DEFINE l == Len(answers)
  <2>1. PICK A : answers \in Seq(A)
    BY DEF Told
  <2>2. /\ Len(answers') = l + 1 /\ answers'[l + 1] = answer
        /\ \A k \in 1 .. l : answers'[k] = answers[k]
    <3> DEFINE B == A \union {answer}
    <3>1. answers \in Seq(B) /\ answer \in B
      BY <2>1
    <3> HIDE DEF B
    <3>2. /\ Len(Append(answers, answer)) = Len(answers) + 1
          /\ Append(answers, answer)[Len(answers) + 1] = answer
          /\ \A k \in 1 .. Len(answers) : Append(answers, answer)[k] = answers[k]
      BY <3>1
    <3>3. QED
      BY <1>5, <3>2, Zenon
  <2>3. /\ l \in Nat /\ Len(sent) = l + 1 /\ answer.cseq = CSeq(l + 1)
    BY <1>2, <2>1 DEF IsAnswered, Dialogue
  <2>4. Answered'
    <3>1. ASSUME NEW k \in 1 .. l + 1 PROVE answers'[k].cseq = CSeq(k) /\ k <= Len(sent)
      <4>1. CASE k = l + 1
        BY <2>2, <2>3, <4>1
      <4>2. CASE k # l + 1
        <5>1. k \in 1 .. l
          BY <2>3, <4>2
        <5>2. answers[k].cseq = CSeq(k)
          BY <5>1 DEF Dialogue, Answered
        <5>3. QED
          BY <2>2, <2>3, <5>1, <5>2
      <4>3. QED
        BY <4>1, <4>2
    <3> HIDE DEF l
    <3>2. \A k \in 1 .. Len(answers') : answers'[k].cseq = CSeq(k) /\ k <= Len(sent')
      BY <1>1, <2>2, <3>1
    <3>3. QED
      BY <3>2 DEF Answered
  <2>5. Rests'
    BY <1>1, <1>2, <1>5, <2>2, <2>3 DEF Rests, IsAnswered, Quiet
  <2>6. QED
    BY <1>1, <2>4, <2>5 DEF Dialogue, Stands
<1>6. CASE Send
  <2>1. conn = "open"
    BY <1>6 DEF Send
  <2>2. \/ UNCHANGED <<thread, answers>>
        \/ thread' = "close" /\ answers' = Append(answers, answer)
    BY <1>6 DEF Send
  <2>3. QED
    BY <1>3, <1>5, <2>1, <2>2
<1>7. CASE SendFails
  BY <1>4, <1>7 DEF SendFails
<1>8. QED
  BY <1>6, <1>7

LEMMA CloseInDialogue ==
  ASSUME Dialogue, Close \/ RecvClosed
  PROVE  Dialogue'
<1>1. UNCHANGED <<sent, answers, handled>>
  BY DEF Close, RecvClosed
<1>2. Answered'
  BY <1>1 DEF Dialogue, Answered
<1>3. Stands'
  <2>1. CASE RecvClosed
    <3>1. Over'
      BY <2>1 DEF RecvClosed, Over
    <3>2. QED
      BY <3>1 DEF Stands
  <2>2. CASE Close /\ response.disconnect
    <3>1. Over'
      BY <2>2 DEF Close, Over
    <3>2. QED
      BY <3>1 DEF Stands
  <2>3. CASE Close /\ ~response.disconnect
    <3>1. thread = "close" /\ thread' = "select" /\ UNCHANGED <<conn, unread, request>>
      BY <2>3 DEF Close
    <3>2. Lost \/ Rests \/ Comes
      BY <3>1 DEF Dialogue, Stands, Over, Came, IsAnswered
    <3>3. Lost => Lost'
      BY <3>1 DEF Lost
    <3>4. Rests => Rests'
      BY <1>1, <3>1 DEF Rests, Quiet
    <3>5. Comes => Comes'
      <4>1. Coming' = Coming
        BY <1>1 DEF Coming
      <4>2. QED
        BY <1>1, <3>1, <4>1 DEF Comes
    <3>6. QED
      BY <3>2, <3>3, <3>4, <3>5 DEF Stands
  <2>4. QED
    BY <2>1, <2>2, <2>3
<1>4. QED
  BY <1>1, <1>2, <1>3 DEF Dialogue

LEMMA CutInDialogue ==
  ASSUME Dialogue, Cut
  PROVE  Dialogue'
<1>1. /\ UNCHANGED <<sent, answers, handled, thread, request, answer>>
      /\ conn = "open" /\ conn' = "cut" /\ unread' \in {unread, <<>>}
  BY DEF Cut
<1>2. Coming' = Coming /\ Answered'
  BY <1>1 DEF Coming, Dialogue, Answered
<1>3. Rests => Lost'
  BY <1>1 DEF Rests, Lost, Quiet
<1>4. Comes => Comes' \/ Lost'
  <2>1. CASE unread' = unread
    BY <1>1, <1>2, <2>1 DEF Comes
  <2>2. CASE unread' = <<>>
    BY <1>1, <2>2 DEF Comes, Lost
  <2>3. QED
    BY <1>1, <2>1, <2>2
<1>5. Came => Came'
  BY <1>1, <1>2 DEF Came
<1>6. IsAnswered => IsAnswered'
  BY <1>1 DEF IsAnswered, Quiet
<1>7. ~Over /\ ~Lost
  BY <1>1 DEF Over, Lost
<1>8. QED
  BY <1>1, <1>2, <1>3, <1>4, <1>5, <1>6, <1>7 DEF Dialogue, Stands

LEMMA PatientStep == Told /\ PatientInv /\ [ProgramNext]_vars => PatientInv'
<1> SUFFICES ASSUME Told, PatientInv, [ProgramNext]_vars PROVE PatientInv'
  OBVIOUS
<1>1. CASE Connect
  <2>1. /\ sent' = <<>> /\ unread' = <<>> /\ answers' = <<>> /\ handled' = 0
        /\ conn' = "open" /\ request' = NoRequest /\ thread' = "select"
    BY <1>1 DEF Connect
  <2>2. sent' \in Seq(Waited) /\ Len(sent') = 0 /\ Len(answers') = 0 /\ 0 <= MaxRequests
    BY <2>1, RequestAssumption
  <2>3. Rests'
    BY <2>1, <2>2 DEF Rests, Quiet
  <2>4. Answered'
    BY <2>2 DEF Answered
  <2>5. QED
    BY <2>2, <2>3, <2>4 DEF PatientInv, Dialogue, Stands
<1>2. CASE UNCHANGED <<conn, request, thread, answer, answers, sent, unread, handled, patient>>
  <2>1. Coming' = Coming
    BY <1>2 DEF Coming
  <2>2. Dialogue => Dialogue'
    BY <1>2, <2>1 DEF Dialogue, Answered, Stands, Over, Lost, Rests, Comes, Came, IsAnswered, Quiet
  <2>3. QED
    BY <1>2, <2>2 DEF PatientInv
<1>3. CASE Ask
  <2>1. UNCHANGED patient
    BY <1>3 DEF Ask
  <2>2. QED
    BY <1>3, <2>1, AskInDialogue DEF PatientInv
<1>4. CASE Cut
  BY <1>4, CutInDialogue DEF PatientInv, Cut
<1>5. CASE Recv
  BY <1>5, RecvInDialogue DEF PatientInv, Recv
<1>6. CASE NoResponse \/ MakeResponse \/ HandleInfo \/ HandleOther
  <2>1. UNCHANGED patient
    BY <1>6 DEF NoResponse, MakeResponse, HandleInfo, HandleOther
  <2>2. QED
    BY <1>6, <2>1, ResponseInDialogue DEF PatientInv
<1>7. CASE Send \/ SendFails
  <2>1. UNCHANGED patient
    BY <1>7 DEF Send, SendFails
  <2>2. QED
    BY <1>7, <2>1, SendInDialogue DEF PatientInv
<1>8. CASE Close \/ RecvClosed
  <2>1. UNCHANGED patient
    BY <1>8 DEF Close, RecvClosed
  <2>2. QED
    BY <1>8, <2>1, CloseInDialogue DEF PatientInv
<1>9. CASE Main
  BY <1>2, <1>9 DEF Main, RestOfMain, RaopStart, DnssdInit, SetDnssd, RegisterRaop, BuildRecord,
       RegisterAirplay, RegisterFails
<1>10. CASE InfoCrashes \/ HeapFails
  BY <1>2, <1>10 DEF InfoCrashes, HeapFails, RestOfMain
<1>11. CASE UNCHANGED vars
  BY <1>2, <1>11
<1>12. QED
  BY <1>1, <1>3, <1>4, <1>5, <1>6, <1>7, <1>8, <1>9, <1>10, <1>11 DEF ProgramNext, Client, Thread

LEMMA DialogueHolds == ProgramSpec => [](PatientInv /\ Told)
<1>1. PatientInv /\ StartInv /\ [ProgramNext]_vars => (PatientInv /\ StartInv)'
  BY PatientStep, OrderStep, ToldStep DEF StartInv
<1>2. PatientInv /\ StartInv => PatientInv /\ Told
  BY DEF StartInv
<1>3. QED
  BY PatientInit, StartInit, <1>1, <1>2, PTL DEF ProgramSpec

(* Wherever the transport cuts what a waiting client sends, for any number *)
(* of requests: conn_request and its handler see each request as sent.     *)
THEOREM HandlerAlwaysSeesWhatWasSent == ProgramSpec => []HandlerSeesWhatWasSent
<1>1. PatientInv => HandlerSeesWhatWasSent
  <2> SUFFICES ASSUME Dialogue, thread \in {"request", "handler"}
               PROVE  LET r == RequestOf(sent[handled + 1], handled + 1)
                      IN  /\ request.method = r.method /\ request.url = r.url
                          /\ request.data = r.body
                          /\ Len(request.headers) = 2 * Len(r.headers)
                          /\ \A k \in DOMAIN r.headers :
                               /\ request.headers[2 * k - 1] = r.headers[k][1]
                               /\ request.headers[2 * k] = r.headers[k][2]
    BY DEF PatientInv, HandlerSeesWhatWasSent
  <2>1. Came
    BY DEF Dialogue, Stands, Over, Lost, Rests, Comes, IsAnswered
  <2>2. Coming \in Messages /\ Len(sent) \in Nat
    BY <2>1, ComingIs DEF Came, Dialogue
  <2>3. handled + 1 = Len(sent) /\ request = AddData(NewRequest, Wire(Coming)).request
    BY <2>1, <2>2 DEF Came
  <2>4. RequestOf(sent[handled + 1], handled + 1) = Coming
    BY <2>3 DEF Coming
  <2>5. DOMAIN Coming.headers = 1 .. Len(Coming.headers)
    BY <2>2 DEF Messages
  <2>6. /\ request.method = Coming.method /\ request.url = Coming.url
        /\ request.data = Coming.body
        /\ Len(request.headers) = 2 * Len(Coming.headers)
        /\ \A k \in 1 .. Len(Coming.headers) :
             /\ request.headers[2 * k - 1] = Coming.headers[k][1]
             /\ request.headers[2 * k] = Coming.headers[k][2]
    BY <2>2, <2>3, WholeRequest, Zenon
  <2>7. QED
    BY <2>4, <2>5, <2>6, Zenon
<1>2. QED
  BY DialogueHolds, <1>1, PTL

(* The answers that a waiting client has are those to its requests, in     *)
(* their order, each once, for any number of requests and connections.     *)
THEOREM AnswersAlwaysInOrder == ProgramSpec => []AnswersInOrder
<1>1. PatientInv /\ Told => AnswersInOrder
  <2> SUFFICES ASSUME Answered, Told, NEW k \in DOMAIN answers
               PROVE  answers[k].cseq = CSeq(k) /\ k <= Len(sent)
    BY DEF PatientInv, Dialogue, AnswersInOrder
  <2>1. DOMAIN answers = 1 .. Len(answers)
    BY DEF Told
  <2>2. QED
    BY <2>1 DEF Answered
<1>2. QED
  BY DialogueHolds, <1>1, PTL

(* No error of the parser ever drops the connection of a waiting client:   *)
(* the server never takes its next request for the rest of another one.    *)
THEOREM WaitingClientIsNeverDropped == ProgramSpec => [](patient => conn # "dropped")
<1>1. PatientInv => (patient => conn # "dropped")
  BY DEF PatientInv, Dialogue, Stands, Over, Lost, Rests, Comes, Came, IsAnswered
<1>2. QED
  BY DialogueHolds, <1>1, PTL
-----------------------------------------------------------------------------
(* What does not need fairness of the promise that it is answered.         *)
LEMMA Await ==
  ASSUME PatientInv, Owed
  PROVE  \/ Comes /\ thread \in {"select", "close"} /\ unread # <<>>
         \/ Came /\ thread \in {"request", "handler"} /\ unread = <<>>
         \/ IsAnswered /\ thread = "send" /\ unread = <<>>
<1>1. Comes \/ Came \/ IsAnswered
  BY DEF PatientInv, Dialogue, Owed, Stands, Over, Lost, Rests
<1>2. ASSUME Comes PROVE unread # <<>>
  <2> DEFINE w == Wire(Coming)
  <2>1. PICK n \in 0 .. Len(w) - 1 : unread = SubSeq(w, n + 1, Len(w))
    BY <1>2 DEF Comes
  <2>2. w \in Seq(Units) /\ Len(w) \in Nat
    <3>1. Coming \in Messages
      BY <1>2, ComingIs DEF Comes, PatientInv, Owed
    <3>2. QED
      BY <3>1, WireEnds, Zenon
  <2> HIDE DEF w
  <2>3. n \in 0 .. Len(w) /\ Len(w) - n > 0
    BY <2>2
  <2>4. Len(unread) = Len(w) - n
    BY <2>1, <2>2, <2>3, RestIs, Zenon
  <2>5. QED
    BY <2>3, <2>4
<1>3. QED
  BY <1>1, <1>2 DEF Comes, Came, IsAnswered, Quiet

Readable == thread \in {"select", "close"} => unread # <<>>

LEMMA SomethingToRead == PatientInv /\ Owed => Readable
BY Await DEF Readable

(* A waiting client and the server never wait for each other: while an     *)
(* answer is due, the server's next recv finds something to read.          *)
THEOREM NobodyWaitsForTheOther ==
  ProgramSpec => [](Owed /\ thread = "select" => unread # <<>>)
<1>1. PatientInv => (Owed /\ thread = "select" => unread # <<>>)
  BY Await
<1>2. QED
  BY <1>1, DialogueHolds, PTL
-----------------------------------------------------------------------------
(* What holds with any client: what is read keeps the headers in pairs,    *)
(* and no more requests are handled than end in what was sent.             *)
MainTypes ==
  /\ main \in {"raop_start", "dnssd_init", "set_dnssd", "register_raop", "register_airplay",
               "build_record", "running", "exited", "crashed", "overrun"}
  /\ listening \in BOOLEAN /\ dnssd \in BOOLEAN
  /\ txt \in {"empty", "building", "complete"} /\ announced \subseteq {"raop", "airplay"}
  /\ found \in {"nothing", "one", "both"} /\ patient \in BOOLEAN
  /\ conn \in {"none", "open", "cut", "dropped", "ended"}
  /\ thread \in {"select", "request", "handler", "send", "close"}

Written ==
  /\ written \in Nat
  /\ thread \in {"select", "request", "handler"} => written = 0
  /\ thread \in {"send", "close"} => written <= response.data_length

Busy == IF thread \in {"request", "handler"} THEN 1 ELSE 0
Stream ==
  /\ sent \in Seq(Kinds) /\ Len(sent) <= MaxRequests
  /\ unread \in Seq(Units) /\ Grammar(unread)
  /\ request \in Requests /\ Sized(request)
  /\ thread = "select" => (request = NoRequest \/ request.complete = FALSE) /\ Ready(request, unread)
  /\ thread \in {"send", "close"} => request = NoRequest
  /\ handled \in Nat /\ handled + Busy + Cardinality(Lasts(unread)) <= Len(sent)

LEMMA NoRequestIs ==
  /\ NoRequest \in Requests /\ NewRequest \in Requests
  /\ Sized(NoRequest) /\ Sized(NewRequest) /\ NewRequest.complete = FALSE
  /\ \A c : Ready(NoRequest, c) /\ Ready(NewRequest, c)
<1>1. NewRequest \in Requests
  BY DEF NewRequest, Requests, Nothing, NoMethod, Letters, Texts
<1>2. NoRequest \in Requests
  BY <1>1 DEF NoRequest, Requests
<1>3. Sized(NewRequest) /\ NewRequest.complete = FALSE /\ Fresh(NewRequest)
  BY DEF NewRequest, Sized, Fresh
<1>4. Sized(NoRequest) /\ Fresh(NoRequest)
  BY <1>3 DEF NoRequest, NewRequest, Sized, Fresh
<1>5. QED
  BY <1>1, <1>2, <1>3, <1>4 DEF Ready

LEMMA NothingLeft ==
  ASSUME NEW r
  PROVE  <<>> \in Seq(Units) /\ Grammar(<<>>) /\ Ready(r, <<>>)
BY DEF Grammar, Ready, LedFrom

LEMMA MainTypesInit == ProgramInit => MainTypes
BY DEF ProgramInit, MainTypes

LEMMA MainTypesStep == MainTypes /\ [ProgramNext]_vars => MainTypes'
<1> SUFFICES ASSUME MainTypes, [ProgramNext]_vars PROVE MainTypes'
  OBVIOUS
<1>1. CASE Main
  <2>1. UNCHANGED <<found, patient, conn, thread>>
    BY <1>1 DEF Main, RestOfMain, RaopStart, DnssdInit, SetDnssd, RegisterRaop, BuildRecord,
         RegisterAirplay, RegisterFails
  <2>2. main' \in {"dnssd_init", "set_dnssd", "register_raop", "register_airplay", "build_record",
                   "running", "exited"}
    BY <1>1 DEF Main, RaopStart, DnssdInit, SetDnssd, RegisterRaop, BuildRecord, RegisterAirplay,
         RegisterFails
  <2>3. listening' \in {listening, TRUE, FALSE} /\ dnssd' \in {dnssd, TRUE}
    BY <1>1 DEF Main, RaopStart, DnssdInit, SetDnssd, RegisterRaop, BuildRecord, RegisterAirplay,
         RegisterFails
  <2>4. /\ txt' \in {txt, "building", "complete"}
        /\ announced' \in {announced, announced \union {"raop"}, announced \union {"airplay"}}
    BY <1>1 DEF Main, RaopStart, DnssdInit, SetDnssd, RegisterRaop, BuildRecord, RegisterAirplay,
         RegisterFails
  <2>5. listening' \in BOOLEAN /\ dnssd' \in BOOLEAN
    BY <2>3 DEF MainTypes
  <2>6. txt' \in {"empty", "building", "complete"} /\ announced' \subseteq {"raop", "airplay"}
    BY <2>4 DEF MainTypes
  <2>7. /\ found' \in {"nothing", "one", "both"} /\ patient' \in BOOLEAN
        /\ conn' \in {"none", "open", "cut", "dropped", "ended"}
        /\ thread' \in {"select", "request", "handler", "send", "close"}
    BY <2>1 DEF MainTypes
  <2>8. QED
    BY <2>2, <2>5, <2>6, <2>7 DEF MainTypes
<1>2. CASE Connect
  <2>1. found' \in {"nothing", "one", "both"}
    BY <1>2 DEF Connect
  <2>2. QED
    BY <1>2, <2>1 DEF Connect, MainTypes
<1>3. CASE Ask \/ Cut
  <2>1. conn' \in {conn, "cut"} /\ UNCHANGED <<mainvars, found, patient, thread>>
    BY <1>3 DEF Ask, Cut
  <2>2. QED
    BY <2>1 DEF MainTypes
<1>4. CASE Recv
  <2>1. conn' \in {conn, "dropped"} /\ thread' \in {thread, "request", "select"}
    BY <1>4 DEF Recv
  <2>2. UNCHANGED <<mainvars, found, patient>>
    BY <1>4 DEF Recv
  <2>3. QED
    BY <2>1, <2>2 DEF MainTypes
<1>5. CASE RecvClosed \/ NoResponse \/ MakeResponse \/ InfoCrashes \/ HeapFails
  <2>1. /\ main' \in {main, "crashed", "overrun"} /\ conn' \in {conn, "none"}
        /\ thread' \in {thread, "select", "handler"}
    BY <1>5 DEF RecvClosed, NoResponse, MakeResponse, InfoCrashes, HeapFails, RestOfMain
  <2>2. UNCHANGED <<listening, dnssd, txt, announced, found, patient>>
    BY <1>5 DEF RecvClosed, NoResponse, MakeResponse, InfoCrashes, HeapFails, RestOfMain
  <2>3. QED
    BY <2>1, <2>2 DEF MainTypes
<1>6. CASE HandleInfo \/ HandleOther
  <2>1. thread' = "send" /\ UNCHANGED <<mainvars, found, patient, conn>>
    BY <1>6 DEF HandleInfo, HandleOther, Respond
  <2>2. QED
    BY <2>1 DEF MainTypes
<1>7. CASE Send \/ SendFails
  <2>1. thread' \in {"send", "close"} /\ UNCHANGED <<mainvars, found, patient, conn>>
    BY <1>7 DEF Send, SendFails
  <2>2. QED
    BY <2>1 DEF MainTypes
<1>8. CASE Close
  BY <1>8 DEF Close, MainTypes
<1>9. CASE UNCHANGED vars
  BY <1>9 DEF MainTypes
<1>10. QED
  BY <1>1, <1>2, <1>3, <1>4, <1>5, <1>6, <1>7, <1>8, <1>9 DEF ProgramNext, Client, Thread

LEMMA WrittenInit == ProgramInit => Written
BY DEF ProgramInit, Written

LEMMA WrittenStep == FitsInv /\ MainTypes /\ Written /\ [ProgramNext]_vars => Written'
<1> SUFFICES ASSUME FitsInv, MainTypes, Written, [ProgramNext]_vars PROVE Written'
  OBVIOUS
<1>1. CASE UNCHANGED <<written, thread, response>>
  BY <1>1 DEF Written
<1>2. CASE UNCHANGED <<written, response>> /\ thread \in {"select", "request"}
           /\ thread' \in {"select", "request", "handler"}
  BY <1>2 DEF Written
<1>3. CASE MakeResponse
  BY <1>3 DEF MakeResponse, Written
<1>4. CASE HandleInfo \/ HandleOther
  <2>1. written' = 0 /\ thread' = "send"
    BY <1>4 DEF HandleInfo, HandleOther, Respond
  <2>2. response'.data_length \in Nat
    BY FitsStep DEF FitsInv, Responses
  <2>3. QED
    BY <2>1, <2>2 DEF Written
<1>5. CASE Send
  <2> DEFINE l == response.data_length
  <2>1. l \in Nat /\ written \in Nat /\ written <= l /\ thread = "send"
    BY <1>5 DEF FitsInv, Responses, Written, Send
  <2>2. PICK length \in SendLengths :
          LET rest == response.data_length - written
              ret == IF length < rest THEN length ELSE rest
          IN  /\ thread' = IF ret = rest THEN "close" ELSE "send"
              /\ written' = written + ret
    BY <1>5 DEF Send
  <2>3. length \in Nat
    BY LengthAssumption
  <2>4. UNCHANGED response
    BY <1>5 DEF Send
  <2> HIDE DEF l
  <2>5. written' \in Nat /\ written' <= l /\ thread' \in {"send", "close"}
    BY <2>1, <2>2, <2>3 DEF l
  <2>6. QED
    BY <2>4, <2>5 DEF Written, l
<1>6. CASE SendFails
  BY <1>6 DEF SendFails, Written
<1>7. CASE Close
  BY <1>7 DEF Close, Written
<1>8. CASE Main
  BY <1>1, <1>8 DEF Main, RestOfMain, RaopStart, DnssdInit, SetDnssd, RegisterRaop, BuildRecord,
       RegisterAirplay, RegisterFails
<1>9. CASE Client
  BY <1>1, <1>9 DEF Client, Connect, Ask, Cut
<1>10. CASE Recv
  <2>1. UNCHANGED <<written, response>> /\ thread = "select" /\ thread' \in {"select", "request"}
    BY <1>10 DEF Recv
  <2>2. QED
    BY <1>2, <2>1
<1>11. CASE RecvClosed \/ InfoCrashes \/ HeapFails \/ UNCHANGED vars
  BY <1>1, <1>11 DEF RecvClosed, InfoCrashes, HeapFails, RestOfMain
<1>12. CASE NoResponse
  BY <1>2, <1>12 DEF NoResponse
<1>13. QED
  BY <1>3, <1>4, <1>5, <1>6, <1>7, <1>8, <1>9, <1>10, <1>11, <1>12 DEF ProgramNext, Thread

LEMMA StreamInit == ProgramInit => Stream
<1> SUFFICES ASSUME ProgramInit PROVE Stream
  OBVIOUS
<1>1. sent \in Seq(Kinds) /\ Len(sent) = 0 /\ unread = <<>> /\ request = NoRequest /\ handled = 0
      /\ Busy = 0 /\ thread = "select" /\ 0 <= MaxRequests
  BY RequestAssumption DEF ProgramInit, Busy
<1>2. Cardinality(Lasts(unread)) = 0
  BY <1>1, NoneEnds
<1>3. QED
  BY <1>1, <1>2, NoRequestIs, NothingLeft DEF Stream

(* What is asked for counts with what is sent.                             *)
LEMMA AskStreams ==
  ASSUME MainTypes, Stream, Ask
  PROVE  Stream'
<1> DEFINE l == Len(sent)
<1>1. sent \in Seq(Kinds) /\ l \in Nat /\ l < MaxRequests /\ unread \in Seq(Units) /\ Grammar(unread)
  BY DEF Stream, Ask
<1>2. PICK kind \in Kinds :
        sent' = Append(sent, kind) /\ unread' = unread \o Wire(RequestOf(kind, l + 1))
  BY DEF Ask
<1>3. UNCHANGED <<request, thread, handled>>
  BY DEF Ask
<1> DEFINE m == RequestOf(kind, l + 1)
<1>4. m \in Messages
  <2>1. l + 1 \in 1 .. MaxRequests
    BY <1>1, RequestAssumption
  <2>2. QED
    BY <2>1, RequestIsMessage, Zenon
<1> HIDE DEF m
<1>5. Wire(m) \in Seq(Units) /\ Led(Wire(m))
  BY <1>4, WireEnds, Zenon
<1>6. unread' = unread \o Wire(m)
  BY <1>2 DEF m
<1>7. sent' \in Seq(Kinds) /\ Len(sent') = l + 1 /\ Len(sent') <= MaxRequests
  BY <1>1, <1>2, RequestAssumption
<1>8. unread' \in Seq(Units) /\ Grammar(unread')
  <2>1. unread \o Wire(m) \in Seq(Units)
    BY <1>1, <1>5
  <2>2. Grammar(unread \o Wire(m))
    BY <1>1, <1>5, GrammarLater, Zenon
  <2>3. QED
    BY <1>6, <2>1, <2>2
<1>9. Ready(request, unread) => Ready(request, unread')
  <2>1. LedFrom(unread, 0) => LedFrom(unread \o Wire(m), 0)
    <3>1. 0 \in 0 .. Len(unread)
      BY <1>1
    <3>2. QED
      BY <1>1, <1>5, <3>1, LedLater, Zenon
  <2>2. QED
    BY <1>6, <2>1, Zenon DEF Ready
<1>10. Cardinality(Lasts(unread')) = Cardinality(Lasts(unread)) + 1
  BY <1>1, <1>4, <1>6, OneMoreEnds
<1>11. Cardinality(Lasts(unread)) \in Nat /\ Busy \in Nat
  BY <1>1, LastsCounted DEF Busy
<1>12. handled' \in Nat /\ handled' + Busy' + Cardinality(Lasts(unread')) <= Len(sent')
  <2>1. Busy' = Busy
    BY <1>3 DEF Busy
  <2>2. handled \in Nat /\ handled + Busy + Cardinality(Lasts(unread)) <= l
    BY DEF Stream
  <2>3. QED
    BY <1>1, <1>3, <1>7, <1>10, <1>11, <2>1, <2>2
<1>13. QED
  BY <1>3, <1>7, <1>8, <1>9, <1>12 DEF Stream

LEMMA RecvStreams ==
  ASSUME MainTypes, Stream, Recv
  PROVE  Stream'
<1> DEFINE start == IF request = NoRequest THEN NewRequest ELSE request
           next(n) == AddData(start, SubSeq(unread, 1, n))
<1>1. PICK n \in 1 .. Len(unread) :
        /\ unread' = SubSeq(unread, n + 1, Len(unread))
        /\ IF next(n).error
             THEN conn' = "dropped" /\ request' = NoRequest /\ UNCHANGED thread
             ELSE /\ request' = next(n).request /\ UNCHANGED conn
                  /\ thread' = IF next(n).request.complete THEN "request" ELSE "select"
  BY Zenon DEF Recv
<1>2. thread = "select" /\ UNCHANGED <<sent, handled>>
  BY DEF Recv
<1>3. /\ unread \in Seq(Units) /\ Grammar(unread) /\ Len(unread) \in Nat
      /\ request \in Requests /\ Sized(request) /\ Ready(request, unread)
      /\ request = NoRequest \/ request.complete = FALSE
      /\ handled \in Nat /\ handled + 0 + Cardinality(Lasts(unread)) <= Len(sent)
  BY <1>2 DEF Stream, Busy
<1>4. start \in Requests /\ Sized(start) /\ Ready(start, unread) /\ start.complete = FALSE
  BY <1>3, NoRequestIs
<1> HIDE DEF start
<1>5. n \in 0 .. Len(unread) /\ SubSeq(unread, 1, n) \in Seq(Units)
  BY <1>3
<1>6. unread' \in Seq(Units) /\ Grammar(unread')
  <2>1. Grammar(SubSeq(unread, n + 1, Len(unread)))
    BY <1>3, <1>5, RestGrammar, Zenon
  <2>2. SubSeq(unread, n + 1, Len(unread)) \in Seq(Units)
    BY <1>3, <1>5, RestIs, Zenon
  <2>3. QED
    BY <1>1, <2>1, <2>2
<1>7. next(n) \in States
  BY <1>4, <1>5, AddDataTyped, Zenon
<1>8. ~next(n).error => Sized(next(n).request) /\ Ready(next(n).request, unread')
  <2>1. ~next(n).error =>
          Sized(next(n).request) /\ Ready(next(n).request, SubSeq(unread, n + 1, Len(unread)))
    BY <1>3, <1>4, <1>5, ReadKeepsSized, Zenon
  <2>2. QED
    BY <1>1, <2>1
<1> DEFINE left == Cardinality(Lasts(unread))
           after == Cardinality(Lasts(unread'))
<1>9. left \in Nat /\ after \in Nat /\ after <= left
  <2>1. Cardinality(Lasts(SubSeq(unread, n + 1, Len(unread)))) <= Cardinality(Lasts(unread))
    BY <1>3, <1>5, FewerEnd, Zenon
  <2>2. QED
    BY <1>1, <1>3, <1>6, <2>1, LastsCounted
<1>10. next(n).request.complete # FALSE => after < left
  <2> SUFFICES ASSUME next(n).request.complete # FALSE PROVE after < left
    OBVIOUS
  <2>1. ~NotLast(SubSeq(unread, 1, n))
    <3> SUFFICES ASSUME NotLast(SubSeq(unread, 1, n)) PROVE FALSE
      OBVIOUS
    <3>1. next(n).request.complete = start.complete
      BY <1>4, <1>5, CompleteAtLast, Zenon
    <3>2. QED
      BY <1>4, <3>1
  <2>2. Cardinality(Lasts(SubSeq(unread, n + 1, Len(unread)))) < Cardinality(Lasts(unread))
    BY <1>3, <1>5, <2>1, FewerEnd, Zenon
  <2>3. QED
    BY <1>1, <2>2
<1> HIDE DEF next, left, after
<1>11. CASE next(n).error
  <2>1. request' = NoRequest /\ thread' = "select"
    BY <1>1, <1>2, <1>11
  <2>2. Busy' = 0
    BY <2>1 DEF Busy
  <2>3. handled' + Busy' + after <= Len(sent')
    BY <1>2, <1>3, <1>9, <2>2 DEF left, Stream
  <2>4. QED
    BY <1>2, <1>3, <1>6, <2>1, <2>3, NoRequestIs DEF Stream, after
<1>12. CASE ~next(n).error
  <2>1. next(n).request \in Requests /\ next(n).request.complete \in BOOLEAN
    BY <1>7 DEF States, Requests
  <2>2. request' = next(n).request
    BY <1>1, <1>12
  <2>3. CASE next(n).request.complete
    <3>1. thread' = "request" /\ Busy' = 1 /\ after < left
      BY <1>1, <1>10, <1>12, <2>3 DEF Busy
    <3>2. handled' + Busy' + after <= Len(sent')
      BY <1>2, <1>3, <1>9, <3>1 DEF left, Stream
    <3>3. QED
      BY <1>2, <1>3, <1>6, <1>8, <1>12, <2>1, <2>2, <3>1, <3>2 DEF Stream, after
  <2>4. CASE ~next(n).request.complete
    <3>1. thread' = "select" /\ Busy' = 0 /\ request'.complete = FALSE
      BY <1>1, <1>12, <2>1, <2>2, <2>4 DEF Busy
    <3>2. handled' + Busy' + after <= Len(sent')
      BY <1>2, <1>3, <1>9, <3>1 DEF left, Stream
    <3>3. QED
      BY <1>2, <1>3, <1>6, <1>8, <1>12, <2>1, <2>2, <3>1, <3>2 DEF Stream, after
  <2>5. QED
    BY <2>3, <2>4
<1>13. QED
  BY <1>11, <1>12

(* The connection forgets what is unread, or starts anew.                  *)
LEMMA LessStreams ==
  ASSUME Stream, UNCHANGED <<sent, handled, request, thread>>, unread' = <<>>
  PROVE  Stream'
<1>1. /\ handled \in Nat /\ Busy \in Nat /\ Len(sent) \in Nat
      /\ Cardinality(Lasts(unread)) \in Nat
      /\ handled + Busy + Cardinality(Lasts(unread)) <= Len(sent)
  BY LastsCounted DEF Stream, Busy
<1>2. Busy' = Busy /\ Cardinality(Lasts(unread')) = 0
  BY NoneEnds DEF Busy
<1>3. handled' + Busy' + Cardinality(Lasts(unread')) <= Len(sent')
  BY <1>1, <1>2
<1>4. unread' \in Seq(Units) /\ Grammar(unread') /\ Ready(request', unread')
  BY NothingLeft
<1>5. QED
  BY <1>3, <1>4 DEF Stream

LEMMA StreamStep == MainTypes /\ Stream /\ [ProgramNext]_vars => Stream'
<1> SUFFICES ASSUME MainTypes, Stream, [ProgramNext]_vars PROVE Stream'
  OBVIOUS
<1>0. /\ handled \in Nat /\ Busy \in Nat /\ Len(sent) \in Nat
      /\ Cardinality(Lasts(unread)) \in Nat
      /\ handled + Busy + Cardinality(Lasts(unread)) <= Len(sent)
  BY LastsCounted DEF Stream, Busy
<1>1. CASE UNCHANGED <<sent, unread, request, thread, handled>>
  BY <1>1 DEF Stream, Busy
<1>2. CASE Connect
  <2>1. /\ sent' \in Seq(Kinds) /\ Len(sent') = 0 /\ unread' = <<>> /\ request' = NoRequest
        /\ handled' = 0 /\ thread' = "select" /\ 0 <= MaxRequests
    BY <1>2, RequestAssumption DEF Connect
  <2>2. Busy' = 0 /\ Cardinality(Lasts(unread')) = 0
    BY <2>1, NoneEnds DEF Busy
  <2>3. QED
    BY <2>1, <2>2, NoRequestIs, NothingLeft DEF Stream
<1>3. CASE Cut
  <2>1. unread' \in {unread, <<>>} /\ UNCHANGED <<sent, request, thread, handled>>
    BY <1>3 DEF Cut
  <2>2. QED
    BY <1>1, <2>1, LessStreams
<1>4. CASE RecvClosed
  <2>1. request' = NoRequest /\ thread = "select" /\ UNCHANGED <<sent, unread, thread, handled>>
    BY <1>4 DEF RecvClosed
  <2>2. Busy' = Busy
    BY <2>1 DEF Busy
  <2>3. QED
    BY <2>1, <2>2, NoRequestIs DEF Stream
<1>5. CASE NoResponse
  <2>1. /\ request' = NoRequest /\ thread = "request" /\ thread' = "select"
        /\ handled' = handled + 1 /\ UNCHANGED <<sent, unread>>
    BY <1>5 DEF NoResponse
  <2>2. Busy = 1 /\ Busy' = 0
    BY <2>1 DEF Busy
  <2>3. handled' \in Nat /\ handled' + Busy' + Cardinality(Lasts(unread')) <= Len(sent')
    BY <1>0, <2>1, <2>2
  <2>4. QED
    BY <2>1, <2>3, NoRequestIs DEF Stream
<1>6. CASE MakeResponse
  <2>1. /\ thread = "request" /\ thread' = "handler" /\ UNCHANGED <<sent, unread, request, handled>>
    BY <1>6 DEF MakeResponse
  <2>2. Busy' = Busy
    BY <2>1 DEF Busy
  <2>3. QED
    BY <2>1, <2>2 DEF Stream
<1>7. CASE HandleInfo \/ HandleOther
  <2>1. /\ request' = NoRequest /\ thread = "handler" /\ thread' = "send"
        /\ handled' = handled + 1 /\ UNCHANGED <<sent, unread>>
    BY <1>7 DEF HandleInfo, HandleOther, Respond
  <2>2. Busy = 1 /\ Busy' = 0
    BY <2>1 DEF Busy
  <2>3. handled' \in Nat /\ handled' + Busy' + Cardinality(Lasts(unread')) <= Len(sent')
    BY <1>0, <2>1, <2>2
  <2>4. QED
    BY <2>1, <2>3, NoRequestIs DEF Stream
<1>8. CASE Send \/ SendFails
  <2>1. /\ thread = "send" /\ thread' \in {"send", "close"}
        /\ UNCHANGED <<sent, unread, request, handled>>
    BY <1>8 DEF Send, SendFails
  <2>2. Busy' = Busy
    BY <2>1 DEF Busy
  <2>3. QED
    BY <2>1, <2>2 DEF Stream
<1>9. CASE Close
  <2>1. /\ thread = "close" /\ thread' = "select" /\ UNCHANGED <<sent, request, handled>>
        /\ unread' \in {unread, <<>>}
    BY <1>9 DEF Close
  <2>2. request = NoRequest /\ Busy' = Busy
    BY <2>1 DEF Stream, Busy
  <2>3. Cardinality(Lasts(unread')) <= Cardinality(Lasts(unread))
    BY <1>0, <2>1, NoneEnds
  <2>4. unread' \in Seq(Units) /\ Grammar(unread')
    BY <2>1, NothingLeft DEF Stream
  <2>5. Cardinality(Lasts(unread')) \in Nat
    BY <2>4, LastsCounted
  <2>6. handled' + Busy' + Cardinality(Lasts(unread')) <= Len(sent')
    BY <1>0, <2>1, <2>2, <2>3, <2>5
  <2>7. QED
    BY <2>1, <2>2, <2>4, <2>6, NoRequestIs DEF Stream
<1>10. CASE Main
  BY <1>1, <1>10 DEF Main, RestOfMain, RaopStart, DnssdInit, SetDnssd, RegisterRaop, BuildRecord,
       RegisterAirplay, RegisterFails
<1>11. CASE InfoCrashes \/ HeapFails \/ UNCHANGED vars
  BY <1>1, <1>11 DEF InfoCrashes, HeapFails, RestOfMain
<1>12. QED
  BY <1>2, <1>3, <1>4, <1>5, <1>6, <1>7, <1>8, <1>9, <1>10, <1>11, AskStreams, RecvStreams
     DEF ProgramNext, Client, Thread

(* Whatever clients do, wait or not, and however their requests are cut    *)
(* and joined: the headers of a request stay in pairs with headers_index   *)
(* among them, no answer is sent beyond its end, and no more requests are  *)
(* handled than were sent.                                                 *)
THEOREM ProgramIsTyped == ProgramSpec => []ProgramTypeOK
<1> DEFINE Inv == FitsInv /\ MainTypes /\ Written /\ Stream
<1>1. ProgramInit => Inv
  BY FitsInit, MainTypesInit, WrittenInit, StreamInit
<1>2. Inv /\ [ProgramNext]_vars => Inv'
  BY FitsStep, MainTypesStep, WrittenStep, StreamStep
<1>3. Inv => ProgramTypeOK
  <2> SUFFICES ASSUME Inv PROVE ProgramTypeOK
    OBVIOUS
  <2>1. request.headers_index \in 0 .. Len(request.headers)
    <3>1. request \in Requests /\ Sized(request)
      BY DEF Stream
    <3>2. QED
      BY <3>1 DEF Sized, Requests
  <2>2. Len(request.headers) % 2 = 0
    BY DEF Stream, Sized
  <2>3. written \in 0 .. response.data_length
    BY DEF FitsInv, Responses, Written, MainTypes
  <2>4. handled \in 0 .. Len(sent)
    <3>1. /\ handled \in Nat /\ Busy \in Nat /\ Len(sent) \in Nat
          /\ Cardinality(Lasts(unread)) \in Nat
          /\ handled + Busy + Cardinality(Lasts(unread)) <= Len(sent)
      BY LastsCounted DEF Stream, Busy
    <3>2. QED
      BY <3>1
  <2>5. sent \in Seq(Kinds)
    BY DEF Stream
  <2>6. QED
    BY <2>1, <2>2, <2>3, <2>4, <2>5 DEF MainTypes, ProgramTypeOK
<1> HIDE DEF Inv
<1>4. QED
  BY <1>1, <1>2, <1>3, PTL DEF ProgramSpec

-----------------------------------------------------------------------------
(* How far the server is from having answered: first what it does, then    *)
(* how much of it is left.                                                 *)
Stage ==
  CASE thread \in {"select", "close"} -> 3
    [] thread = "request" -> 2
    [] thread = "handler" -> 1
    [] thread = "send" -> 0
Rest ==
  CASE thread = "select" -> Len(unread)
    [] thread = "close" -> Len(unread) + 1
    [] thread = "send" -> response.data_length - written
    [] OTHER -> 0

Closer == Stage' < Stage \/ (Stage' = Stage /\ Rest' \in Nat /\ Rest' < Rest)

LEMMA ThreadComesCloser ==
  ASSUME PatientInv, PatientInv', Stream, Written, FitsInv, Owed, Owed', Thread,
         main' \notin {"crashed", "overrun"}
  PROVE  Closer
<1>1. unread \in Seq(Units) /\ Len(unread) \in Nat /\ written \in Nat /\ conn' = "open"
  BY DEF Stream, Written, Owed
<1>2. CASE Recv
  <2>1. thread = "select" /\ Stage = 3 /\ Rest = Len(unread)
    BY <1>2 DEF Recv, Stage, Rest
  <2>2. CASE thread' = "request"
    BY <2>1, <2>2 DEF Closer, Stage
  <2>3. CASE thread' = "select"
    <3>1. PICK n \in 1 .. Len(unread) : unread' = SubSeq(unread, n + 1, Len(unread))
      BY <1>2 DEF Recv
    <3>2. Len(unread') = Len(unread) - n
      <4>1. n \in 0 .. Len(unread)
        OBVIOUS
      <4>2. QED
        BY <1>1, <3>1, <4>1, RestIs, Zenon
    <3>3. Stage' = 3 /\ Rest' = Len(unread')
      BY <2>3 DEF Stage, Rest
    <3>4. Len(unread) - n \in Nat /\ Len(unread) - n < Len(unread)
      BY <1>1
    <3>5. QED
      BY <2>1, <3>2, <3>3, <3>4 DEF Closer
  <2>4. thread' \in {"request", "select"}
    BY <1>2 DEF Recv
  <2>5. QED
    BY <2>2, <2>3, <2>4
<1>3. CASE RecvClosed \/ SendFails
  BY <1>3 DEF RecvClosed, SendFails, Owed
<1>4. CASE NoResponse
  <2>1. thread = "request" /\ thread' = "select" /\ unread' = unread
    BY <1>4 DEF NoResponse
  <2>2. unread = <<>> /\ unread' # <<>>
    <3>1. unread = <<>>
      BY <2>1, Await
    <3>2. unread' # <<>>
      <4>1. Readable'
        BY SomethingToRead, PTL
      <4>2. QED
        BY <2>1, <4>1 DEF Readable
    <3>3. QED
      BY <2>1, <3>1, <3>2
  <2>3. QED
    BY <2>1, <2>2
<1>5. CASE MakeResponse
  BY <1>5 DEF MakeResponse, Closer, Stage
<1>6. CASE InfoCrashes \/ HeapFails
  BY <1>6 DEF InfoCrashes, HeapFails
<1>7. CASE HandleInfo \/ HandleOther
  BY <1>7 DEF HandleInfo, HandleOther, Respond, Closer, Stage
<1>8. CASE Send
  <2> DEFINE l == response.data_length
  <2>1. thread = "send" /\ l \in Nat /\ written <= l /\ UNCHANGED <<response, unread>>
    BY <1>8 DEF Send, Written, FitsInv, Responses
  <2>2. PICK length \in SendLengths :
          LET rest == response.data_length - written
              ret == IF length < rest THEN length ELSE rest
          IN  /\ thread' = IF ret = rest THEN "close" ELSE "send"
              /\ written' = written + ret
    BY <1>8 DEF Send
  <2>3. length \in Nat \ {0}
    BY LengthAssumption
  <2>4. CASE thread' = "send"
    <3>1. Stage = 0 /\ Stage' = 0 /\ Rest = l - written /\ Rest' = l - written'
      BY <2>1, <2>4 DEF Stage, Rest
    <3> HIDE DEF l
    <3>2. written' = written + length /\ length < l - written
      BY <2>2, <2>4 DEF l
    <3>3. l - written' \in Nat /\ l - written' < l - written
      BY <1>1, <2>1, <2>3, <3>2
    <3>4. QED
      BY <3>1, <3>3 DEF Closer
  <2>5. CASE thread' = "close"
    <3>1. unread = <<>>
      BY <2>1, Await
    <3>2. unread' # <<>>
      <4>1. Readable'
        BY SomethingToRead, PTL
      <4>2. QED
        BY <2>1, <2>5, <4>1 DEF Readable
    <3>3. QED
      BY <2>1, <2>5, <3>1, <3>2
  <2>6. QED
    BY <2>2, <2>4, <2>5
<1>9. CASE Close
  <2>1. thread = "close" /\ thread' = "select" /\ unread' = unread
    BY <1>1, <1>9 DEF Close
  <2>2. Stage = 3 /\ Stage' = 3 /\ Rest = Len(unread) + 1 /\ Rest' = Len(unread)
    BY <2>1 DEF Stage, Rest
  <2>3. QED
    BY <1>1, <2>2 DEF Closer
<1>10. QED
  BY <1>2, <1>3, <1>4, <1>5, <1>6, <1>7, <1>8, <1>9 DEF Thread

LEMMA OthersKeepAway ==
  ASSUME PatientInv, Owed, Owed', Main \/ Client \/ UNCHANGED vars
  PROVE  UNCHANGED <<Stage, Rest>>
<1>1. ASSUME UNCHANGED <<thread, unread, answervars>> PROVE UNCHANGED <<Stage, Rest>>
  BY <1>1 DEF Stage, Rest
<1>2. CASE Main
  BY <1>1, <1>2 DEF Main, RestOfMain, RaopStart, DnssdInit, SetDnssd, RegisterRaop, BuildRecord,
       RegisterAirplay, RegisterFails
<1>3. CASE UNCHANGED vars
  BY <1>1, <1>3
<1>4. CASE Connect \/ Cut
  BY <1>4 DEF Connect, Cut, Owed
<1>5. CASE Ask
  <2>1. Rests
    BY <1>5, AskAtRest DEF PatientInv, Owed
  <2>2. QED
    BY <2>1 DEF Rests, Owed, PatientInv, Dialogue
<1>6. QED
  BY <1>2, <1>3, <1>4, <1>5 DEF Client

(* While an answer is due to a waiting client and the connection and the   *)
(* program last, every step of the server's thread brings it closer, in an *)
(* order without infinite descent, and nobody else's takes it away.        *)
THEOREM AnswersComeCloser ==
  ProgramSpec =>
    [][Owed /\ Owed' /\ main' \notin {"crashed", "overrun"}
         => Closer \/ (~Thread /\ UNCHANGED <<Stage, Rest>>)]_vars
<1> DEFINE Inv == FitsInv /\ MainTypes /\ Written /\ Stream
<1>1. ProgramInit => Inv
  BY FitsInit, MainTypesInit, WrittenInit, StreamInit
<1>2. Inv /\ [ProgramNext]_vars => Inv'
  BY FitsStep, MainTypesStep, WrittenStep, StreamStep
<1>3. Inv /\ PatientInv /\ PatientInv' /\ [ProgramNext]_vars =>
        [Owed /\ Owed' /\ main' \notin {"crashed", "overrun"}
           => Closer \/ (~Thread /\ UNCHANGED <<Stage, Rest>>)]_vars
  <2> SUFFICES ASSUME Inv, PatientInv, PatientInv', [ProgramNext]_vars,
                      Owed, Owed', main' \notin {"crashed", "overrun"}
               PROVE  Closer \/ (~Thread /\ UNCHANGED <<Stage, Rest>>)
    OBVIOUS
  <2>1. CASE Thread
    BY <2>1, ThreadComesCloser
  <2>2. CASE ~Thread
    BY <2>2, OthersKeepAway DEF ProgramNext
  <2>3. QED
    BY <2>1, <2>2
<1> HIDE DEF Inv
<1>4. QED
  BY <1>1, <1>2, <1>3, DialogueHolds, PTL DEF ProgramSpec
=============================================================================
